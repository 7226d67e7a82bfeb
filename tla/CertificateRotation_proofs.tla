-------------------- MODULE CertificateRotation_proofs --------------------
(***************************************************************************)
(* The safety of a certificate rotation, for any number of keys and        *)
(* faults, any crash points and any failing steps.                         *)
(*                                                                         *)
(* The inductive invariant ties the Worker's files to the controller's     *)
(* record at every point of the maintenance.  Its core is JournalInv: the  *)
(* journal exists only after the controller committed, and until it is     *)
(* removed the controller's key cannot change.  A process may go on with   *)
(* a key it has superseded; StaleInv says that it can then never make the  *)
(* controller commit another rotation.                                     *)
(***************************************************************************)
EXTENDS CertificateRotation, TLAPS

\* The rotation the process is in.
Pending == [old |-> current, new |-> new]

\* Keys are numbered in the order of creation, the replacement of a rotation
\* that is not finished has never been the identity, and the keys a clean-up
\* may delete are superseded ones.
KeysInv ==
    /\ used \subseteq 0..created
    /\ identity \in used /\ current \in used
    /\ pc \in {"created", "challenged", "requested", "answered", "journaled", "failed"} =>
          new \in keys /\ new \in 0..created /\ new \notin used
    /\ request # NoRequest => request.new \in Keys
    /\ retired \subseteq used /\ eligible \subseteq retired /\ identity \notin retired

\* What a journal says of the identity, of the process and of the ledger.
JournalInv ==
    /\ journal # NoJournal =>
          /\ journal.old \in used /\ journal.new \in 0..created /\ journal.old # journal.new
          /\ request = NoRequest /\ ledgerKey = journal.new
          /\ identity \in {journal.old, journal.new} /\ current \in {journal.old, journal.new}
          /\ current = journal.new => identity = journal.new
          /\ journal.new \notin retired
          /\ journal.new \in keys \/ "save" \in struck
          /\ pc = "failed" => "save" \in struck

\* A process that works with a superseded key cannot prove the ledger's, and a
\* request that can still be committed was made by one that works with the
\* identity on disk.
StaleInv ==
    /\ identity # current => ledgerKey = identity
    /\ request # NoRequest /\ request.old = ledgerKey =>
          identity = request.old /\ current = request.old /\ journal = NoJournal

\* Where the Worker is, and what it has written by then.
PointInv ==
    /\ pc \in {"recovered", "retiredAgain"} => journal # NoJournal /\ identity = journal.new
    /\ pc \in {"clean", "cleaned", "created", "challenged", "requested", "answered"} => journal = NoJournal
    /\ pc \in {"journaled", "switched", "retired"} => journal = Pending
    /\ pc \in {"switched", "retired"} => identity = new
    /\ pc \in {"answered", "journaled"} => identity = current
    /\ pc \in {"retired", "retiredAgain"} => journal.old \in retired
    /\ pc = "requested" => request \in {NoRequest, Pending}
    /\ pc = "requested" /\ reply # "none" => request = NoRequest
    /\ pc = "requested" /\ reply = "certificate" => ledgerKey = new /\ identity = current
    /\ pc = "answered" => request = NoRequest /\ ledgerKey = new
    /\ pc = "clean" => /\ todo \subseteq Deletable
                       /\ \A k \in Deletable : k \in todo \cup kept \/ k \notin keys

\* The Worker's key is the ledger's, but for the window of an unserved or
\* unrecorded rotation.
LockInv ==
    "rotation" \notin struck =>
        /\ request # NoRequest => pc = "requested"
        /\ pc \notin {"requested", "answered", "journaled"} => identity = ledgerKey
        /\ pc = "requested" /\ reply # "certificate" => identity = ledgerKey

RotationInv ==
    /\ TypeOK /\ IdentityKeyHeld /\ SupersededKeysTracked
    /\ KeysInv /\ JournalInv /\ StaleInv /\ PointInv /\ LockInv

\* Keys are numbers, and NoKey is none of them.
LEMMA RotationTypes ==
    /\ Keys = 0..MaxKeys /\ NoKey \notin Keys /\ MaxKeys \in Nat
  BY RotationAssumption DEF RotationAssumption, Keys, NoKey

\* A freshly enrolled Worker: one key, the ledger's.
LEMMA InitInv == Init => RotationInv
<1> SUFFICES ASSUME Init PROVE RotationInv
  OBVIOUS
<1> USE RotationTypes DEF Init, NoJournal, NoRequest
<1>1. TypeOK
  <2>1. maintained \in BOOLEAN
    BY Zenon
  <2> QED
    BY <2>1, RotationAssumption DEF TypeOK, RotationAssumption, Journals, Points
<1>2. IdentityKeyHeld /\ SupersededKeysTracked
  BY DEF IdentityKeyHeld, SupersededKeysTracked
<1>3. KeysInv /\ JournalInv /\ StaleInv
  BY DEF KeysInv, JournalInv, StaleInv
<1>4. PointInv /\ LockInv
  BY DEF PointInv, LockInv
<1> QED
  BY <1>1, <1>2, <1>3, <1>4 DEF RotationInv
-----------------------------------------------------------------------------
\* The types, but for the flag, which needs another prover, and the faults.
DataTyped ==
    /\ keys \subseteq Keys /\ identity \in Keys /\ journal \in Journals
    /\ retired \subseteq Keys /\ eligible \subseteq Keys /\ used \subseteq Keys
    /\ pc \in Points
    /\ current \in Keys /\ new \in Keys \cup {NoKey}
    /\ todo \subseteq Keys /\ kept \subseteq Keys
    /\ attempt \in 0..2 /\ created \in Keys
    /\ ledgerKey \in Keys /\ overlap \subseteq Keys
    /\ challenge \in Keys \cup {NoKey} /\ request \in Journals
    /\ reply \in {"none", "certificate", "refused"}
    /\ aged \subseteq Keys /\ expired \subseteq Keys

\* Every action keeps the types of the data.
LEMMA DataStep ==
    ASSUME RotationInv, Next
    PROVE  DataTyped'
<1> USE RotationTypes DEF RotationInv, TypeOK, DataTyped, KeysInv, JournalInv, PointInv, Pending,
        NoJournal, NoRequest, Journals, Points, Goto, Deletable, disk, process, server, clock
<1>1. CASE Start
  BY <1>1 DEF Start
<1>2. CASE OpenSession
  BY <1>2 DEF OpenSession
<1>3. CASE GivesUp
  BY <1>3 DEF GivesUp
<1>4. CASE DayPasses
  BY <1>4 DEF DayPasses
<1>5. CASE HalfLifePasses
  BY <1>5 DEF HalfLifePasses
<1>6. CASE CertificateExpires
  BY <1>6 DEF CertificateExpires
<1>7. CASE RecoverSwitch
  BY <1>7 DEF RecoverSwitch, Recovers
<1>8. CASE RecoverRetire
  BY <1>8 DEF RecoverRetire
<1>9. CASE RecoverUnlink
  BY <1>9 DEF RecoverUnlink
<1>10. CASE NothingPending
  BY <1>10 DEF NothingPending
<1>11. CASE CleanWrite
  BY <1>11 DEF CleanWrite
<1>12. CASE MaintainExpired
  BY <1>12 DEF MaintainExpired, Retried, Escalated
<1>13. CASE NotDue
  BY <1>13 DEF NotDue, MaintenanceEnds
<1>14. CASE CreateKey
  BY <1>14 DEF CreateKey, RotationDue
<1>15. CASE OutOfKeys
  BY <1>15 DEF OutOfKeys, RotationDue, MaintenanceEnds
<1>16. CASE GetChallenge
  BY <1>16 DEF GetChallenge
<1>17. CASE SendRotate
  BY <1>17 DEF SendRotate
<1>18. CASE ServeRotate
  BY <1>18 DEF ServeRotate, Commits
<1>19. CASE RotateAnswered
  BY <1>19 DEF RotateAnswered
<1>20. CASE RotateRefused
  BY <1>20 DEF RotateRefused
<1>21. CASE WriteJournal
  BY <1>21 DEF WriteJournal
<1>22. CASE SaveIdentity
  BY <1>22 DEF SaveIdentity
<1>23. CASE RetireOld
  BY <1>23 DEF RetireOld
<1>24. CASE Unlink
  BY <1>24 DEF Unlink
<1>25. CASE DropReplacement
  BY <1>25 DEF DropReplacement, MaintenanceEnds
<1>26. CASE RotationSwallowed
  BY <1>26 DEF RotationSwallowed, Retried
<1>27. CASE Reconnect
  BY <1>27 DEF Reconnect
<1>28. CASE ReconnectFails
  BY <1>28 DEF ReconnectFails, Exit
<1>29. CASE SessionLost
  BY <1>29 DEF SessionLost
<1>30. CASE TerminalFails
  BY <1>30 DEF TerminalFails, Retried, Escalated
<1>31. CASE ControllerRestarts
  BY <1>31 DEF ControllerRestarts
<1>32. CASE RecoverSwitchFails
  BY <1>32 DEF RecoverSwitchFails, Retried, Escalated
<1>33. CASE RecoverRetireFails
  BY <1>33 DEF RecoverRetireFails, MaintenanceEnds
<1>34. CASE RecoverFails
  BY <1>34 DEF RecoverFails, Exit
<1>35. CASE CleanWriteFails
  BY <1>35 DEF CleanWriteFails, MaintenanceEnds
<1>36. CASE CreateFails
  BY <1>36 DEF CreateFails, RotationDue, MaintenanceEnds
<1>37. CASE ChallengeFails
  BY <1>37 DEF ChallengeFails
<1>38. CASE ResponseLost
  BY <1>38 DEF ResponseLost
<1>39. CASE JournalFails
  BY <1>39 DEF JournalFails
<1>40. CASE SaveFails
  BY <1>40 DEF SaveFails
<1>41. CASE RetireFails
  BY <1>41 DEF RetireFails
<1>42. CASE UnlinkFails
  BY <1>42 DEF UnlinkFails, MaintenanceEnds
<1>43. CASE DropFails
  BY <1>43 DEF DropFails, Exit
<1>44. CASE Crash
  BY <1>44 DEF Crash, CrashWindow
<1>45. CASE \E k \in todo : CleanKey(k)
  BY <1>45 DEF CleanKey
<1>46. CASE \E k \in todo : CleanKeyMissing(k)
  BY <1>46 DEF CleanKeyMissing, Exit
<1>47. CASE \E k \in todo : CleanKeyFails(k)
  BY <1>47 DEF CleanKeyFails
<1> QED
  BY <1>1, <1>2, <1>3, <1>4, <1>5, <1>6, <1>7, <1>8, <1>9, <1>10, <1>11, <1>12, <1>13,
     <1>14, <1>15, <1>16, <1>17, <1>18, <1>19, <1>20, <1>21, <1>22, <1>23, <1>24, <1>25,
     <1>26, <1>27, <1>28, <1>29, <1>30, <1>31, <1>32, <1>33, <1>34, <1>35, <1>36, <1>37,
     <1>38, <1>39, <1>40, <1>41, <1>42, <1>43, <1>44, <1>45, <1>46, <1>47
     DEF Next, Maintenance, Rotation, Trouble

\* The Worker's files, its memory and the controller stay in step.
LEMMA InvStep ==
    ASSUME RotationInv, Next
    PROVE  /\ IdentityKeyHeld' /\ SupersededKeysTracked'
           /\ KeysInv' /\ JournalInv' /\ StaleInv' /\ PointInv' /\ LockInv'
<1> USE RotationTypes DEF RotationInv, TypeOK, IdentityKeyHeld, SupersededKeysTracked, KeysInv,
        JournalInv, StaleInv, PointInv, LockInv, Pending, NoJournal, NoRequest, Journals, Points,
        Goto, Deletable, Recovers, disk, process, server, clock
<1>1. CASE Start
  BY <1>1 DEF Start
<1>2. CASE OpenSession
  BY <1>2 DEF OpenSession
<1>3. CASE GivesUp
  BY <1>3 DEF GivesUp
<1>4. CASE DayPasses
  <2>1. pc' = IF pc = "session" /\ current # ledgerKey THEN "opening" ELSE pc
    BY <1>4 DEF DayPasses
  <2>2. CASE pc' = pc
    BY <1>4, <2>2 DEF DayPasses, Idle
  <2>3. CASE pc = "session" /\ pc' = "opening"
    BY <1>4, <2>3 DEF DayPasses
  <2> QED
    BY <2>1, <2>2, <2>3
<1>5. CASE HalfLifePasses
  BY <1>5 DEF HalfLifePasses
<1>6. CASE CertificateExpires
  BY <1>6 DEF CertificateExpires
<1>7. CASE RecoverSwitch
  <2>1. CASE current = journal.old
    <3>1. identity' = journal.new /\ used' = used \cup {journal.new} /\ pc' = "recovered"
      BY <1>7, <2>1 DEF RecoverSwitch
    <3>2. journal # NoJournal /\ journal.new \in Keys
      BY <1>7 DEF RecoverSwitch
    <3>3. IdentityKeyHeld' /\ SupersededKeysTracked' /\ LockInv'
      BY <1>7, <3>1, <3>2 DEF RecoverSwitch
    <3>4. journal.new \in 0..created
      BY <3>2
    <3>5. KeysInv' /\ JournalInv'
      BY <1>7, <2>1, <3>1, <3>2, <3>4 DEF RecoverSwitch
    <3>6. StaleInv' /\ PointInv'
      BY <1>7, <2>1, <3>1, <3>2 DEF RecoverSwitch
    <3> QED
      BY <3>3, <3>5, <3>6
  <2>2. CASE current # journal.old
    BY <1>7, <2>2 DEF RecoverSwitch
  <2> QED
    BY <2>1, <2>2
<1>8. CASE RecoverRetire
  BY <1>8 DEF RecoverRetire
<1>9. CASE RecoverUnlink
  BY <1>9 DEF RecoverUnlink
<1>10. CASE NothingPending
  BY <1>10 DEF NothingPending
<1>11. CASE CleanWrite
  BY <1>11 DEF CleanWrite
<1>12. CASE MaintainExpired
  BY <1>12 DEF MaintainExpired, Retried, Escalated
<1>13. CASE NotDue
  BY <1>13 DEF NotDue, MaintenanceEnds
<1>14. CASE CreateKey
  BY <1>14 DEF CreateKey, RotationDue
<1>15. CASE OutOfKeys
  BY <1>15 DEF OutOfKeys, RotationDue, MaintenanceEnds
<1>16. CASE GetChallenge
  BY <1>16 DEF GetChallenge
<1>17. CASE SendRotate
  BY <1>17 DEF SendRotate
<1>18. CASE ServeRotate
  BY <1>18 DEF ServeRotate, Commits
<1>19. CASE RotateAnswered
  BY <1>19 DEF RotateAnswered
<1>20. CASE RotateRefused
  BY <1>20 DEF RotateRefused
<1>21. CASE WriteJournal
  BY <1>21 DEF WriteJournal
<1>22. CASE SaveIdentity
  BY <1>22 DEF SaveIdentity
<1>23. CASE RetireOld
  BY <1>23 DEF RetireOld
<1>24. CASE Unlink
  BY <1>24 DEF Unlink
<1>25. CASE DropReplacement
  BY <1>25 DEF DropReplacement, MaintenanceEnds
<1>26. CASE RotationSwallowed
  BY <1>26 DEF RotationSwallowed, Retried
<1>27. CASE Reconnect
  BY <1>27 DEF Reconnect
<1>28. CASE ReconnectFails
  BY <1>28 DEF ReconnectFails, Exit
<1>29. CASE SessionLost
  BY <1>29 DEF SessionLost, Fault, WindowOf
<1>30. CASE TerminalFails
  BY <1>30 DEF TerminalFails, Fault, WindowOf, Retried, Escalated
<1>31. CASE ControllerRestarts
  BY <1>31 DEF ControllerRestarts, Fault, WindowOf
<1>32. CASE RecoverSwitchFails
  BY <1>32 DEF RecoverSwitchFails, Fault, WindowOf, Retried, Escalated
<1>33. CASE RecoverRetireFails
  BY <1>33 DEF RecoverRetireFails, Fault, WindowOf, MaintenanceEnds
<1>34. CASE RecoverFails
  BY <1>34 DEF RecoverFails, Fault, WindowOf, Exit
<1>35. CASE CleanWriteFails
  BY <1>35 DEF CleanWriteFails, MaintenanceEnds
<1>36. CASE CreateFails
  BY <1>36 DEF CreateFails, Fault, WindowOf, RotationDue, MaintenanceEnds
<1>37. CASE ChallengeFails
  BY <1>37 DEF ChallengeFails, Fault, WindowOf
<1>38. CASE ResponseLost
  BY <1>38 DEF ResponseLost, Fault, WindowOf
<1>39. CASE JournalFails
  BY <1>39 DEF JournalFails, Fault, WindowOf
<1>40. CASE SaveFails
  BY <1>40 DEF SaveFails, Fault, WindowOf
<1>41. CASE RetireFails
  BY <1>41 DEF RetireFails, Fault, WindowOf
<1>42. CASE UnlinkFails
  BY <1>42 DEF UnlinkFails, Fault, WindowOf, MaintenanceEnds
<1>43. CASE DropFails
  BY <1>43 DEF DropFails, Fault, WindowOf, Exit
<1>44. CASE Crash
  BY <1>44 DEF Crash, CrashWindow
<1>45. CASE \E k \in todo : CleanKey(k)
  BY <1>45 DEF CleanKey
<1>46. CASE \E k \in todo : CleanKeyMissing(k)
  BY <1>46 DEF CleanKeyMissing, Exit
<1>47. CASE \E k \in todo : CleanKeyFails(k)
  BY <1>47 DEF CleanKeyFails, Fault, WindowOf
<1> QED
  BY <1>1, <1>2, <1>3, <1>4, <1>5, <1>6, <1>7, <1>8, <1>9, <1>10, <1>11, <1>12, <1>13,
     <1>14, <1>15, <1>16, <1>17, <1>18, <1>19, <1>20, <1>21, <1>22, <1>23, <1>24, <1>25,
     <1>26, <1>27, <1>28, <1>29, <1>30, <1>31, <1>32, <1>33, <1>34, <1>35, <1>36, <1>37,
     <1>38, <1>39, <1>40, <1>41, <1>42, <1>43, <1>44, <1>45, <1>46, <1>47
     DEF Next, Maintenance, Rotation, Trouble

\* The faults are counted, and each window is named once and for all.
LEMMA FaultStep ==
    ASSUME RotationInv, Next
    PROVE  maintained' \in BOOLEAN /\ faults' \in 0..MaxFaults /\ struck' \subseteq Windows
<1>1. maintained' \in {maintained, TRUE, FALSE}
  BY DEF Next, Maintenance, Rotation, Trouble, MaintenanceEnds, Exit, Retried, Escalated, process,
         Start, OpenSession, GivesUp, DayPasses, HalfLifePasses, CertificateExpires,
         RecoverSwitch, RecoverRetire, RecoverUnlink, NothingPending, CleanWrite,
         MaintainExpired, NotDue, CreateKey, OutOfKeys, GetChallenge, SendRotate,
         ServeRotate, RotateAnswered, RotateRefused, WriteJournal, SaveIdentity,
         RetireOld, Unlink, DropReplacement, RotationSwallowed, Reconnect,
         ReconnectFails, SessionLost, TerminalFails, ControllerRestarts,
         RecoverSwitchFails, RecoverRetireFails, RecoverFails, CleanWriteFails,
         CreateFails, ChallengeFails, ResponseLost, JournalFails, SaveFails,
         RetireFails, UnlinkFails, DropFails, Crash, CleanKey, CleanKeyMissing,
         CleanKeyFails
<1>2. Upset \/ UNCHANGED faults
  BY DEF Next, Maintenance, Rotation, Trouble, Fault,
         Start, OpenSession, GivesUp, DayPasses, HalfLifePasses, CertificateExpires,
         RecoverSwitch, RecoverRetire, RecoverUnlink, NothingPending, CleanWrite,
         MaintainExpired, NotDue, CreateKey, OutOfKeys, GetChallenge, SendRotate,
         ServeRotate, RotateAnswered, RotateRefused, WriteJournal, SaveIdentity,
         RetireOld, Unlink, DropReplacement, RotationSwallowed, Reconnect,
         ReconnectFails, SessionLost, TerminalFails, ControllerRestarts,
         RecoverSwitchFails, RecoverRetireFails, RecoverFails, CleanWriteFails,
         CreateFails, ChallengeFails, ResponseLost, JournalFails, SaveFails,
         RetireFails, UnlinkFails, DropFails, Crash, CleanKey, CleanKeyMissing,
         CleanKeyFails
<1>3. \/ UNCHANGED struck
      \/ struck' = struck \cup CrashWindow
      \/ struck' = struck \cup {"cleanup"} \/ struck' = struck \cup {}
      \/ \E kind \in FailureKinds : struck' = struck \cup WindowOf(kind)
  BY DEF Next, Maintenance, Rotation, Trouble, FailureKinds, Fault,
         Start, OpenSession, GivesUp, DayPasses, HalfLifePasses, CertificateExpires,
         RecoverSwitch, RecoverRetire, RecoverUnlink, NothingPending, CleanWrite,
         MaintainExpired, NotDue, CreateKey, OutOfKeys, GetChallenge, SendRotate,
         ServeRotate, RotateAnswered, RotateRefused, WriteJournal, SaveIdentity,
         RetireOld, Unlink, DropReplacement, RotationSwallowed, Reconnect,
         ReconnectFails, SessionLost, TerminalFails, ControllerRestarts,
         RecoverSwitchFails, RecoverRetireFails, RecoverFails, CleanWriteFails,
         CreateFails, ChallengeFails, ResponseLost, JournalFails, SaveFails,
         RetireFails, UnlinkFails, DropFails, Crash, CleanKey, CleanKeyMissing,
         CleanKeyFails
<1>4. maintained' \in BOOLEAN
  BY <1>1, Zenon DEF RotationInv, TypeOK
<1>5. faults' \in 0..MaxFaults
  BY <1>2, RotationAssumption DEF RotationInv, TypeOK, Upset, RotationAssumption
<1>6. struck' \subseteq Windows
  BY <1>3 DEF RotationInv, TypeOK, Windows, WindowOf, CrashWindow
<1> QED
  BY <1>4, <1>5, <1>6

-----------------------------------------------------------------------------
\* The invariant holds in every state of a rotation.
THEOREM RotationInvariant == Spec => []RotationInv
<1>1. RotationInv /\ [Next]_vars => RotationInv'
  <2> SUFFICES ASSUME RotationInv, [Next]_vars PROVE RotationInv'
    OBVIOUS
  <2>1. CASE Next
    <3>1. TypeOK'
      BY <2>1, DataStep, FaultStep DEF TypeOK, DataTyped
    <3> QED
      BY <2>1, <3>1, InvStep DEF RotationInv
  <2>2. CASE UNCHANGED vars
    <3> USE <2>2 DEF vars, disk, process, server, clock, RotationInv
    <3>1. TypeOK' /\ IdentityKeyHeld' /\ SupersededKeysTracked'
      BY DEF TypeOK, IdentityKeyHeld, SupersededKeysTracked
    <3>2. KeysInv' /\ JournalInv' /\ StaleInv' /\ PointInv' /\ LockInv'
      BY DEF KeysInv, JournalInv, StaleInv, PointInv, LockInv, Pending, Deletable
    <3> QED
      BY <3>1, <3>2
  <2> QED
    BY <2>1, <2>2
<1> QED
  BY <1>1, InitInv, PTL DEF Spec

\* Every variable keeps its type.
THEOREM RotationTyped == Spec => []TypeOK
<1>1. RotationInv => TypeOK
  BY DEF RotationInv
<1> QED
  BY <1>1, RotationInvariant, PTL

\* No clean-up ever deletes the key the identity file names, whatever is
\* retried, crashes or fails, but for a failed save of the identity.
THEOREM IdentityKeySafe == Spec => []IdentityKeyHeld
<1>1. RotationInv => IdentityKeyHeld
  BY DEF RotationInv
<1> QED
  BY <1>1, RotationInvariant, PTL

\* No crash or failed write makes the Worker forget a superseded key.
THEOREM SupersededKeysKnown == Spec => []SupersededKeysTracked
<1>1. RotationInv => SupersededKeysTracked
  BY DEF RotationInv
<1> QED
  BY <1>1, RotationInvariant, PTL

\* A surviving journal never contradicts the active identity, nor the one of a
\* process whose maintenance is retried.
THEOREM JournalAgrees == Spec => []JournalMatchesIdentity
<1>1. RotationInv => JournalMatchesIdentity
  BY DEF RotationInv, JournalInv, JournalMatchesIdentity
<1> QED
  BY <1>1, RotationInvariant, PTL

\* Outside the unprotected window no fault locks the Worker out.
THEOREM NoOtherLockout == Spec => []ReconnectsUnlessStruck
<1>1. RotationInv => ReconnectsUnlessStruck
  BY DEF RotationInv, LockInv, ReconnectsUnlessStruck
<1> QED
  BY <1>1, RotationInvariant, PTL

\* A process that goes on with a superseded key never makes the controller
\* commit a rotation: whenever the ledger's key changes, the process works with
\* the identity on its disk.
THEOREM StaleNeverCommits == Spec => [][ledgerKey' # ledgerKey => current = identity]_vars
<1>1. RotationInv /\ [Next]_vars => [ledgerKey' # ledgerKey => current = identity]_vars
  <2> SUFFICES ASSUME RotationInv, Next, ledgerKey' # ledgerKey PROVE current = identity
    BY DEF vars, server
  <2>1. ServeRotate /\ Commits
    BY DEF Next, Maintenance, Rotation, Trouble, ServeRotate, server, Exit,
         Start, OpenSession, GivesUp, DayPasses, HalfLifePasses, CertificateExpires,
         RecoverSwitch, RecoverRetire, RecoverUnlink, NothingPending, CleanWrite,
         MaintainExpired, NotDue, CreateKey, OutOfKeys, GetChallenge, SendRotate,
         ServeRotate, RotateAnswered, RotateRefused, WriteJournal, SaveIdentity,
         RetireOld, Unlink, DropReplacement, RotationSwallowed, Reconnect,
         ReconnectFails, SessionLost, TerminalFails, ControllerRestarts,
         RecoverSwitchFails, RecoverRetireFails, RecoverFails, CleanWriteFails,
         CreateFails, ChallengeFails, ResponseLost, JournalFails, SaveFails,
         RetireFails, UnlinkFails, DropFails, Crash, CleanKey, CleanKeyMissing,
         CleanKeyFails
  <2> QED
    BY <2>1 DEF ServeRotate, Commits, RotationInv, StaleInv
<1> QED
  BY <1>1, RotationInvariant, PTL DEF Spec
=============================================================================
