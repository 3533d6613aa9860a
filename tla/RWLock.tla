------------------------------- MODULE RWLock -------------------------------
(***************************************************************************)
(* What a sleeping lock promises its users: one writer or any number of    *)
(* readers at a time, and whoever takes it keeps it until it lets go.      *)
(* struct mutex promises this with writers only, struct rw_semaphore with  *)
(* both; Mutex and RWSem are shown to implement it.                        *)
(***************************************************************************)
CONSTANT Tasks

VARIABLES
  readers,     \* the tasks that hold the lock for reading
  writers      \* the tasks that hold it for writing

Init == readers = {} /\ writers = {}

AcquireRead(t) ==
  /\ writers = {}
  /\ t \notin readers
  /\ readers' = readers \cup {t}
  /\ UNCHANGED writers

AcquireWrite(t) ==
  /\ readers = {} /\ writers = {}
  /\ writers' = {t}
  /\ UNCHANGED readers

ReleaseRead(t) == t \in readers /\ readers' = readers \ {t} /\ UNCHANGED writers

ReleaseWrite(t) == t \in writers /\ writers' = writers \ {t} /\ UNCHANGED readers

Downgrade(t) == t \in writers /\ writers' = writers \ {t} /\ readers' = readers \cup {t}

Next ==
  \E t \in Tasks :
    \/ AcquireRead(t) \/ AcquireWrite(t)
    \/ ReleaseRead(t) \/ ReleaseWrite(t) \/ Downgrade(t)

Spec == Init /\ [][Next]_<<readers, writers>>

=============================================================================
