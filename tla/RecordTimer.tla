----------------------------- MODULE RecordTimer -----------------------------
(***************************************************************************)
(* What timerd promises neutrino about recordings.  Every identifier it    *)
(* gives out has one status, which says what neutrino has been told:       *)
(*                                                                         *)
(*   unused   not given yet in this run of the program                     *)
(*   waiting  a recording that may still begin                             *)
(*   asked    neutrino was told to start and not to stop                   *)
(*   unasked  a recording found running in timerd.conf: neutrino was not   *)
(*            told to start it, and will only be told to stop              *)
(*   endless  neutrino was told to start a recording without a stop time:  *)
(*            it will not be told to stop, whatever becomes of the timer   *)
(*   ended    a recording that is over, until it is repeated or forgotten  *)
(*   other    given to a timer of another kind, or forgotten               *)
(*   lost     asked, but timerd does not know of a recording that runs     *)
(*                                                                         *)
(* TimerManager implements this specification (TimerManagerRefinement), and*)
(* so does Recording (TimersAsPromised in RecordingProofs).                *)
(***************************************************************************)
CONSTANT Ids

VARIABLE status   \* what neutrino was told, for every identifier

Statuses == {"unused", "waiting", "asked", "unasked", "endless", "ended", "other", "lost"}

\* Start is sent once before each stop, an identifier is never given twice, and a
\* recording leaves "asked" only with the message that stops it.  Whether it has a
\* stop time is known when it starts.
Moves ==
    {"unused"} \X {"waiting", "asked", "unasked", "ended", "other"}
      \cup {"waiting"} \X {"asked", "endless", "ended", "other"}
      \cup {"asked", "unasked"} \X {"waiting", "ended", "other"}
      \cup {"ended"} \X {"waiting", "other"}

Init == status = [i \in Ids |-> "unused"]

\* Any number of timers move; one handler of neutrino may end one and add another.
Move == \A i \in Ids : status'[i] = status[i] \/ <<status[i], status'[i]>> \in Moves

\* The program ends, and with it everything neutrino records.
GoDown == status' = [i \in Ids |-> "unused"]

Next == Move \/ GoDown

Spec == Init /\ [][Next]_status

\* Nothing neutrino records is forgotten.
NothingLost == \A i \in Ids : status[i] # "lost"

=============================================================================
