----------------------------- MODULE ConfigStore -----------------------------
(***************************************************************************)
(* ConfigStore: what a backend that writes its directories now and then      *)
(* promises.  Reads see the last change of an entry.  The directories are     *)
(* saved one by one or several together, each whole.  A crash takes every      *)
(* directory back to what was last saved of it, and touches nothing that was. *)
(* What has been written of a directory may be found by a start only later,    *)
(* when the directories above it have been written too.                       *)
(***************************************************************************)
CONSTANTS Dirs, Contents, Nothing

VARIABLES
    asked,      \* the entries of a directory, as the requests have left them
    seen,       \* the entries of a directory, as reads see them
    written,    \* the entries of a directory, as it was last written
    saved       \* the entries of a directory, as the next start will find them

vars == <<asked, seen, written, saved>>

Init ==
    /\ asked = [d \in Dirs |-> Nothing]
    /\ seen = asked
    /\ written = asked
    /\ saved = asked

Change(d, c) ==
    /\ asked' = [asked EXCEPT ![d] = c]
    /\ seen' = [seen EXCEPT ![d] = c]
    /\ UNCHANGED <<written, saved>>

(* The directories that are written, and those whose file can be found then.     *)
Save ==
    /\ UNCHANGED <<asked, seen>>
    /\ \A d \in Dirs : written'[d] \in {written[d], seen[d]}
    /\ \A d \in Dirs : saved'[d] \in {saved[d], written'[d]}

Crash ==
    /\ asked' = saved /\ seen' = saved
    /\ UNCHANGED <<written, saved>>

Next ==
    \/ \E d \in Dirs, c \in Contents : Change(d, c)
    \/ Save
    \/ Crash

Spec == Init /\ [][Next]_vars
=============================================================================
