------------------------ MODULE CertificateRotation ------------------------
(***************************************************************************)
(* A Worker's device certificate is replaced at its half life by a new key *)
(* and a new certificate: src/abt/worker/rotation.py on the Worker, the    *)
(* rotation and certificate endpoints of src/abt/controlplane/service.py   *)
(* and rotate_worker_certificate of src/abt/controlplane/ledger.py.        *)
(*                                                                         *)
(* The Worker keeps four things on disk: its device keys, the identity     *)
(* file that names the active one, the rotation journal and the list of    *)
(* retired keys.  Each file write is atomic; the process may stop between  *)
(* any two of them.  The controller keeps the Worker's public key, the     *)
(* certificates it still accepts for an hour after a rotation, and the     *)
(* open challenge in memory.  A session starts with the delivery of the    *)
(* certificate, which is proved with the key the ledger holds now; so the  *)
(* Worker is locked out as soon as its identity names another key.         *)
(*                                                                         *)
(* A session that raises a WorkerEnrollmentError runs its reconciliation,  *)
(* and with it the maintenance, again: twice, then the error is passed on  *)
(* (run_with_retries).  WorkerCertificateRotated is such an error, so the  *)
(* process usually goes on with the key it has just superseded, until the  *)
(* controller ends the session an hour later.                              *)
(*                                                                         *)
(* Keys are numbered in the order of their creation (uuid4 names), a       *)
(* certificate is named by its key, and the Worker stays active: its       *)
(* revocation is part of PairRoutes.  A session is opened with the         *)
(* certificate of the current key, so session.certificate needs no         *)
(* variable of its own.                                                    *)
(***************************************************************************)
EXTENDS Naturals, FiniteSets

CONSTANTS
    MaxKeys,      \* bound on the keys a Worker creates
    MaxFaults,    \* bound on crashes, failed steps and lost sessions
    CrashPoints,  \* the points of the Worker at which it may crash
    Failures      \* the steps that may fail

Points == {"down", "opening", "session", "recovered", "retiredAgain", "clean", "cleaned",
           "created", "challenged", "requested", "answered", "journaled", "switched",
           "retired", "failed", "rotated"}

FailureKinds == {"session", "terminal", "create", "challenge", "response", "journal", "save",
                 "resave", "retire", "unlink", "delete", "clean", "restart"}

ASSUME RotationAssumption ==
    /\ MaxKeys \in Nat /\ MaxFaults \in Nat
    /\ CrashPoints \subseteq Points \ {"down"}
    /\ Failures \subseteq FailureKinds

Keys == 0..MaxKeys

NoKey == MaxKeys + 1

\* The old and the new key of a journal, and of a rotate request.
NoJournal == [old |-> NoKey, new |-> NoKey]

NoRequest == NoJournal

Journals == [old : Keys \cup {NoKey}, new : Keys \cup {NoKey}]

VARIABLES
    \* The Worker's disk and key store
    keys,       \* the device keys that exist
    identity,   \* the key named by the identity file
    journal,    \* the rotation journal, or NoJournal
    retired,    \* the keys listed in the state file
    eligible,   \* the listed keys whose hour, or day after a failure, has passed
    used,       \* history: the keys that were the identity at some time
    \* The Worker's process
    pc,         \* where it is
    current,    \* current_identity and current_key
    new,        \* the replacement key, or NoKey
    todo,       \* the retired keys still to be deleted in this maintenance
    kept,       \* the retired keys whose deletion failed in this maintenance
    maintained, \* maintenance has run in this session, on this day
    attempt,    \* the attempts of run_with_retries this session has used up
    created,    \* how many keys were created
    \* The controller
    ledgerKey,  \* the public key of the enrollment
    overlap,    \* the older certificates that are still accepted
    challenge,  \* the key the open rotation challenge is for, or NoKey
    request,    \* the rotate request under way, or NoRequest
    reply,      \* its answer
    aged,       \* the certificates past their half life
    expired,    \* the certificates past their end
    faults,     \* the faults so far
    struck      \* history: the unprotected windows in which a fault hit the Worker

disk == <<keys, identity, journal, retired, eligible, used>>
process == <<current, new, todo, kept, maintained, attempt, created>>
server == <<ledgerKey, overlap, challenge, request, reply>>
clock == <<aged, expired>>
vars == <<disk, pc, process, server, clock, faults, struck>>

\* Between the request and the saved identity, and between the first deleted
\* key and the written list, no file tells what has been done.  A failed save
\* of the identity leaves, moreover, a journal that names the deleted key.
Windows == {"rotation", "save", "cleanup"}

WindowOf(kind) ==
    CASE kind \in {"response", "journal"} -> {"rotation"}
      [] kind = "save" -> {"rotation", "save"}
      [] OTHER -> {}

CrashWindow ==
    CASE pc \in {"requested", "answered", "journaled"} -> {"rotation"}
      [] pc = "clean" -> {"cleanup"}
      [] OTHER -> {}

TypeOK ==
    /\ keys \subseteq Keys /\ identity \in Keys /\ journal \in Journals
    /\ retired \subseteq Keys /\ eligible \subseteq Keys /\ used \subseteq Keys
    /\ pc \in Points
    /\ current \in Keys /\ new \in Keys \cup {NoKey}
    /\ todo \subseteq Keys /\ kept \subseteq Keys
    /\ maintained \in BOOLEAN /\ attempt \in 0..2 /\ created \in Keys
    /\ ledgerKey \in Keys /\ overlap \subseteq Keys
    /\ challenge \in Keys \cup {NoKey} /\ request \in Journals
    /\ reply \in {"none", "certificate", "refused"}
    /\ aged \subseteq Keys /\ expired \subseteq Keys
    /\ faults \in 0..MaxFaults /\ struck \subseteq Windows

Init ==
    /\ keys = {0} /\ identity = 0 /\ journal = NoJournal
    /\ retired = {} /\ eligible = {} /\ used = {0}
    /\ pc = "down" /\ current = 0 /\ new = NoKey
    /\ todo = {} /\ kept = {} /\ maintained = FALSE /\ attempt = 0 /\ created = 0
    /\ ledgerKey = 0 /\ overlap = {} /\ challenge = NoKey
    /\ request = NoRequest /\ reply = "none"
    /\ aged = {} /\ expired = {}
    /\ faults = 0 /\ struck = {}

Goto(point) == pc' = point

Upset ==
    /\ faults < MaxFaults
    /\ faults' = faults + 1

Fault(kind) ==
    /\ kind \in Failures
    /\ Upset
    /\ struck' = struck \cup WindowOf(kind)

-----------------------------------------------------------------------------
(* The session                                                             *)

\* The process starts: it loads the identity and opens its key.
Start ==
    /\ pc = "down" /\ identity \in keys
    /\ Goto("opening")
    /\ current' = identity
    /\ new' = NoKey /\ todo' = {} /\ kept' = {} /\ maintained' = FALSE /\ attempt' = 0
    /\ UNCHANGED <<disk, created, server, clock, faults, struck>>

\* The certificate is delivered to the holder of the key in the ledger, and
\* the session is authenticated with it.
OpenSession ==
    /\ pc = "opening" /\ current \in keys /\ current = ledgerKey /\ current \notin expired
    /\ Goto("session")
    /\ maintained' = FALSE /\ attempt' = 0
    /\ UNCHANGED <<disk, current, new, todo, kept, created, server, clock, faults, struck>>

\* Ten attempts with a key the ledger does not hold, or one in which an expired
\* certificate is delivered: the process exits.
GivesUp ==
    /\ pc = "opening" /\ (current # ledgerKey \/ current \in expired)
    /\ Goto("down")
    /\ UNCHANGED <<disk, process, server, clock, faults, struck>>

\* WorkerSessionDisconnected is not retried within the session, not even while
\* the escalation of an error is being sent.
SessionLost ==
    /\ pc \in {"session", "rotated"}
    /\ Fault("session")
    /\ Goto("opening")
    /\ UNCHANGED <<disk, process, server, clock>>

\* run_with_retries(): the reconciliation starts again in the same session, and
\* maintenance is due at once.
Retried ==
    /\ attempt < 2
    /\ attempt' = attempt + 1
    /\ maintained' = FALSE
    /\ Goto("session")

\* The third error is reported to a human and ends the process.
Escalated ==
    /\ attempt = 2
    /\ Goto("down")
    /\ UNCHANGED <<attempt, maintained>>

\* MT5, the account or the controller fails the reconciliation.
TerminalFails ==
    /\ pc = "session"
    /\ Fault("terminal")
    /\ Retried \/ Escalated
    /\ UNCHANGED <<disk, current, new, todo, kept, created, server, clock>>

\* Times at which days pass: the maintenance itself takes seconds.
Idle == pc \in {"down", "opening", "session"}

\* Fault: the controller does not look at the certificate of an open session.
DayPasses_KeepsSession ==
    /\ Idle
    /\ overlap' = {} /\ challenge' = NoKey
    /\ eligible' = retired
    /\ maintained' = FALSE
    /\ UNCHANGED <<keys, identity, journal, retired, used, pc, current, new, todo, kept, attempt,
                   created, ledgerKey, request, reply, clock, faults, struck>>

\* Fault: maintenance runs once per session only.
DayPasses_Once ==
    /\ Idle
    /\ overlap' = {} /\ challenge' = NoKey
    /\ eligible' = retired
    /\ Goto(IF pc = "session" /\ current # ledgerKey THEN "opening" ELSE pc)
    /\ UNCHANGED <<keys, identity, journal, retired, used, process,
                   ledgerKey, request, reply, clock, faults, struck>>

\* Fault: a failed deletion never becomes due again.
DayPasses_NoRetry ==
    /\ Idle
    /\ overlap' = {} /\ challenge' = NoKey
    /\ maintained' = FALSE
    /\ Goto(IF pc = "session" /\ current # ledgerKey THEN "opening" ELSE pc)
    /\ UNCHANGED <<disk, current, new, todo, kept, attempt, created,
                   ledgerKey, request, reply, clock, faults, struck>>

\* A day passes: overlaps and retries lapse, maintenance is due again, and the
\* session ends whose certificate is no longer accepted.
DayPasses ==
    /\ Idle
    /\ overlap' = {} /\ challenge' = NoKey
    /\ eligible' = retired
    /\ maintained' = FALSE
    /\ Goto(IF pc = "session" /\ current # ledgerKey THEN "opening" ELSE pc)
    /\ UNCHANGED <<keys, identity, journal, retired, used, current, new, todo, kept, attempt, created,
                   ledgerKey, request, reply, clock, faults, struck>>

HalfLifePasses ==
    /\ Idle /\ ledgerKey \notin aged /\ created < MaxKeys
    /\ aged' = aged \cup {ledgerKey}
    /\ UNCHANGED <<disk, pc, process, server, expired, faults, struck>>

\* The 30 days of the ledger's certificate, or of the one of the open session,
\* are over.
CertificateExpires ==
    /\ Idle
    /\ \E k \in {ledgerKey, current} \cap (aged \ expired) : expired' = expired \cup {k}
    /\ UNCHANGED <<disk, pc, process, server, aged, faults, struck>>

-----------------------------------------------------------------------------
(* maintain_worker_certificate(): recovery and clean-up                    *)

\* The process exits on anything but a WorkerRotationError.
Exit == Goto("down") /\ UNCHANGED <<disk, process, server, clock>>

\* Any other WorkerRotationError, or nothing to do: the session goes on.
MaintenanceEnds ==
    /\ Goto("session")
    /\ maintained' = TRUE
    /\ UNCHANGED attempt

\* _recover_pending_rotation(): a journal that finds its retired key active
\* switches the identity first.  (A journal of other keys would be refused;
\* JournalMatchesIdentity says that there never is one.)
Recovers == pc = "session" /\ ~maintained /\ journal # NoJournal

RecoverSwitch ==
    /\ Recovers
    /\ identity' = IF current = journal.old THEN journal.new ELSE identity
    /\ used' = used \cup {identity'}
    /\ Goto("recovered")
    /\ UNCHANGED <<keys, journal, retired, eligible, process, server, clock, faults, struck>>

\* The identity cannot be saved again: an error that maintain() passes on.
RecoverSwitchFails ==
    /\ Recovers /\ current = journal.old
    /\ Fault("resave")
    /\ Retried \/ Escalated
    /\ UNCHANGED <<disk, current, new, todo, kept, created, server, clock>>

\* The hour of the retired key may have passed while the journal waited.
RecoverRetire ==
    /\ pc = "recovered"
    /\ retired' = retired \cup {journal.old}
    /\ eligible' \in {eligible \cup {journal.old}, eligible \ {journal.old}}
    /\ Goto("retiredAgain")
    /\ UNCHANGED <<keys, identity, journal, used, process, server, clock, faults, struck>>

\* The journal cannot be removed: not a rotation error, the process exits.
RecoverFails ==
    /\ pc = "retiredAgain"
    /\ Fault("unlink")
    /\ Exit

\* The state file cannot be written: the journal stays.
RecoverRetireFails ==
    /\ pc = "recovered"
    /\ Fault("retire")
    /\ MaintenanceEnds
    /\ UNCHANGED <<disk, current, new, todo, kept, created, server, clock>>

\* The keys a clean-up deletes: not the one the process works with, even when
\* that is no longer the identity.
Deletable == eligible \ {current}

\* The journal is removed; a switched identity is reported as a rotation.
RecoverUnlink ==
    /\ pc = "retiredAgain"
    /\ journal' = NoJournal
    /\ Goto(IF current = journal.old THEN "rotated" ELSE "clean")
    /\ todo' = Deletable /\ kept' = {}
    /\ UNCHANGED <<keys, identity, retired, eligible, used, current, new, maintained, attempt, created,
                   server, clock, faults, struck>>

\* Fault: recovery does not look whether there is a journal.
NothingPending_Recovers ==
    /\ pc = "session" /\ ~maintained /\ journal = NoJournal
    /\ Goto("recovered")
    /\ UNCHANGED <<disk, process, server, clock, faults, struck>>

NothingPending ==
    /\ pc = "session" /\ ~maintained /\ journal = NoJournal
    /\ Goto("clean")
    /\ todo' = Deletable /\ kept' = {}
    /\ UNCHANGED <<disk, current, new, maintained, attempt, created, server, clock, faults, struck>>

\* _clean_retired_keys(): one key after the other is opened and deleted.
CleanKey(k) ==
    /\ pc = "clean" /\ k \in todo /\ k \in keys
    /\ keys' = keys \ {k}
    /\ todo' = todo \ {k}
    /\ UNCHANGED <<identity, journal, retired, eligible, used, pc, current, new, kept,
                   maintained, attempt, created, server, clock, faults, struck>>

\* The deletion fails and is retried in 24 hours.
CleanKeyFails(k) ==
    /\ pc = "clean" /\ k \in todo /\ k \in keys
    /\ Fault("delete")
    /\ todo' = todo \ {k} /\ kept' = kept \cup {k}
    /\ UNCHANGED <<disk, pc, current, new, maintained, attempt, created, server, clock>>

\* A key that no longer exists cannot be opened: the error is not caught.
CleanKeyMissing(k) ==
    /\ pc = "clean" /\ k \in todo /\ k \notin keys
    /\ Exit
    /\ UNCHANGED <<faults, struck>>

\* The state file is written once, after the last key.
CleanWrite ==
    /\ pc = "clean" /\ todo = {}
    /\ retired' = {k \in retired : k \notin eligible \/ k = current \/ k \in kept}
    /\ eligible' = {k \in retired' : k \in eligible \ kept}
    /\ Goto("cleaned")
    /\ UNCHANGED <<keys, identity, journal, used, process, server, clock, faults, struck>>

\* The write fails after keys were deleted: the session goes on, but the state
\* file still lists keys that no longer exist.
CleanWriteFails ==
    /\ pc = "clean" /\ todo = {} /\ Deletable # {}
    /\ "clean" \in Failures /\ Upset
    /\ struck' = struck \cup (IF Deletable \subseteq kept THEN {} ELSE {"cleanup"})
    /\ MaintenanceEnds
    /\ UNCHANGED <<disk, current, new, todo, kept, created, server, clock>>

\* ensure_worker_certificate_current(): WorkerCertificateExpired is retried like
\* any other error, and then ends the process.
MaintainExpired ==
    /\ pc = "cleaned" /\ current \in expired
    /\ Retried \/ Escalated
    /\ UNCHANGED <<disk, current, new, todo, kept, created, server, clock, faults, struck>>

NotDue ==
    /\ pc = "cleaned" /\ current \notin aged
    /\ MaintenanceEnds
    /\ UNCHANGED <<disk, current, new, todo, kept, created, server, clock, faults, struck>>

-----------------------------------------------------------------------------
(* The rotation                                                            *)

\* The certificate of the session has passed its half life.
RotationDue == pc = "cleaned" /\ current \in aged \ expired

CreateKey ==
    /\ RotationDue /\ created < MaxKeys
    /\ created' = created + 1
    /\ keys' = keys \cup {created'}
    /\ new' = created'
    /\ Goto("created")
    /\ UNCHANGED <<identity, journal, retired, eligible, used, current, todo, kept, maintained, attempt,
                   server, clock, faults, struck>>

\* The key store refuses.
CreateFails ==
    /\ RotationDue
    /\ Fault("create")
    /\ MaintenanceEnds
    /\ UNCHANGED <<disk, current, new, todo, kept, created, server, clock>>

\* There is no further key within the bound.
OutOfKeys ==
    /\ RotationDue /\ created = MaxKeys
    /\ MaintenanceEnds
    /\ UNCHANGED <<disk, current, new, todo, kept, created, server, clock, faults, struck>>

\* issue_worker_rotation_challenge() and its answer; a challenge replaces the
\* Worker's earlier one.
GetChallenge ==
    /\ pc = "created"
    /\ challenge' = new
    /\ Goto("challenged")
    /\ UNCHANGED <<disk, process, ledgerKey, overlap, request, reply, clock, faults, struck>>

ChallengeFails ==
    /\ pc = "created"
    /\ Fault("challenge")
    /\ Goto("failed")
    /\ UNCHANGED <<disk, process, server, clock>>

\* A restart of the controller forgets the challenge.
ControllerRestarts ==
    /\ challenge # NoKey
    /\ Fault("restart")
    /\ challenge' = NoKey
    /\ UNCHANGED <<disk, pc, process, ledgerKey, overlap, request, reply, clock>>

SendRotate ==
    /\ pc = "challenged"
    /\ request' = [old |-> current, new |-> new] /\ reply' = "none"
    /\ Goto("requested")
    /\ UNCHANGED <<disk, process, ledgerKey, overlap, challenge, clock, faults, struck>>

\* rotate_worker_certificate(): the challenge is used up whatever happens; the
\* proofs need the key the ledger holds.  The old certificate stays accepted
\* for an hour.
Commits == challenge = request.new /\ ledgerKey = request.old

ServeRotate ==
    /\ request # NoRequest
    /\ challenge' = NoKey /\ request' = NoRequest
    /\ IF Commits
       THEN /\ overlap' = overlap \cup {ledgerKey}
            /\ ledgerKey' = request.new
            /\ reply' = "certificate"
       ELSE /\ reply' = "refused"
            /\ UNCHANGED <<ledgerKey, overlap>>
    /\ UNCHANGED <<disk, pc, process, clock, faults, struck>>

RotateAnswered ==
    /\ pc = "requested" /\ reply = "certificate"
    /\ Goto("answered")
    /\ UNCHANGED <<disk, process, server, clock, faults, struck>>

\* Fault: the status of the answer is not looked at.
RotateRefused_Taken ==
    /\ pc = "requested" /\ reply = "refused"
    /\ Goto("answered")
    /\ UNCHANGED <<disk, process, server, clock, faults, struck>>

RotateRefused ==
    /\ pc = "requested" /\ reply = "refused"
    /\ Goto("failed")
    /\ UNCHANGED <<disk, process, server, clock, faults, struck>>

\* The request times out or its answer is lost, whether or not it was served.
ResponseLost ==
    /\ pc = "requested"
    /\ Fault("response")
    /\ Goto("failed")
    /\ UNCHANGED <<disk, process, server, clock>>

\* Fault: no journal is written.
WriteJournal_Skipped ==
    /\ pc = "answered"
    /\ Goto("journaled")
    /\ UNCHANGED <<disk, process, server, clock, faults, struck>>

\* Fault: the replacement's name is written in both places.
WriteJournal_WrongName ==
    /\ pc = "answered"
    /\ journal' = [old |-> new, new |-> new]
    /\ Goto("journaled")
    /\ UNCHANGED <<keys, identity, retired, eligible, used, process, server, clock, faults, struck>>

WriteJournal ==
    /\ pc = "answered"
    /\ journal' = [old |-> current, new |-> new]
    /\ Goto("journaled")
    /\ UNCHANGED <<keys, identity, retired, eligible, used, process, server, clock, faults, struck>>

JournalFails ==
    /\ pc = "answered"
    /\ Fault("journal")
    /\ Goto("failed")
    /\ UNCHANGED <<disk, process, server, clock>>

SaveIdentity ==
    /\ pc = "journaled"
    /\ identity' = new /\ used' = used \cup {new}
    /\ Goto("switched")
    /\ UNCHANGED <<keys, journal, retired, eligible, process, server, clock, faults, struck>>

SaveFails ==
    /\ pc = "journaled"
    /\ Fault("save")
    /\ Goto("failed")
    /\ UNCHANGED <<disk, process, server, clock>>

RetireOld ==
    /\ pc = "switched"
    /\ retired' = retired \cup {current}
    /\ eligible' = eligible \ {current}
    /\ Goto("retired")
    /\ UNCHANGED <<keys, identity, journal, used, process, server, clock, faults, struck>>

\* Fault: became_current is set only after the retired key is recorded.
RetireFails_DropsKey ==
    /\ pc = "switched"
    /\ Fault("retire")
    /\ Goto("failed")
    /\ UNCHANGED <<disk, process, server, clock>>

\* The state file cannot be written: the journal stays for the next start.
RetireFails ==
    /\ pc = "switched"
    /\ Fault("retire")
    /\ Goto("rotated")
    /\ UNCHANGED <<disk, process, server, clock>>

Unlink ==
    /\ pc = "retired"
    /\ journal' = NoJournal
    /\ Goto("rotated")
    /\ UNCHANGED <<keys, identity, retired, eligible, used, process, server, clock, faults, struck>>

\* The journal cannot be removed: reported as a failed rotation, after the
\* identity has been switched.
UnlinkFails ==
    /\ pc = "retired"
    /\ Fault("unlink")
    /\ MaintenanceEnds
    /\ UNCHANGED <<disk, current, new, todo, kept, created, server, clock>>

\* The clean-up of a failed rotation deletes the replacement key, and the
\* session goes on with the current identity.
DropReplacement ==
    /\ pc = "failed"
    /\ keys' = keys \ {new} /\ new' = NoKey
    /\ MaintenanceEnds
    /\ UNCHANGED <<identity, journal, retired, eligible, used, current, todo, kept, created,
                   server, clock, faults, struck>>

DropFails ==
    /\ pc = "failed"
    /\ Fault("delete")
    /\ Exit

\* WorkerCertificateRotated is retried like any other error: reconciliation
\* goes on in this session, with the key and the certificate it began with ...
RotationSwallowed ==
    /\ pc = "rotated"
    /\ Retried
    /\ new' = NoKey
    /\ UNCHANGED <<disk, current, todo, kept, created, server, clock, faults, struck>>

\* ... and only as the third error of the session does it reach the loop that
\* reconnects with the identity on disk.
Reconnect ==
    /\ pc = "rotated" /\ attempt = 2 /\ identity \in keys
    /\ Goto("opening")
    /\ current' = identity
    /\ new' = NoKey
    /\ UNCHANGED <<disk, todo, kept, maintained, attempt, created, server, clock, faults, struck>>

\* The key of that identity cannot be opened: the process exits.
ReconnectFails ==
    /\ pc = "rotated" /\ attempt = 2 /\ identity \notin keys
    /\ Exit
    /\ UNCHANGED <<faults, struck>>

Crash ==
    /\ pc \in CrashPoints
    /\ Upset
    /\ struck' = struck \cup CrashWindow
    /\ Goto("down")
    /\ UNCHANGED <<disk, process, server, clock>>

-----------------------------------------------------------------------------
Maintenance ==
    \/ RecoverSwitch \/ RecoverRetire \/ RecoverUnlink \/ NothingPending
    \/ \E k \in todo : CleanKey(k) \/ CleanKeyMissing(k)
    \/ CleanWrite \/ MaintainExpired \/ NotDue

Rotation ==
    \/ CreateKey \/ OutOfKeys \/ GetChallenge \/ SendRotate \/ ServeRotate
    \/ RotateAnswered \/ RotateRefused \/ WriteJournal \/ SaveIdentity \/ RetireOld \/ Unlink
    \/ DropReplacement \/ RotationSwallowed \/ Reconnect \/ ReconnectFails

Trouble ==
    \/ SessionLost \/ TerminalFails \/ ControllerRestarts
    \/ RecoverSwitchFails \/ RecoverRetireFails \/ RecoverFails
    \/ (\E k \in todo : CleanKeyFails(k)) \/ CleanWriteFails
    \/ CreateFails \/ ChallengeFails \/ ResponseLost \/ JournalFails \/ SaveFails
    \/ RetireFails \/ UnlinkFails \/ DropFails \/ Crash

Next ==
    \/ Start \/ OpenSession \/ GivesUp \/ DayPasses \/ HalfLifePasses \/ CertificateExpires
    \/ Maintenance \/ Rotation \/ Trouble

Spec == Init /\ [][Next]_vars

\* The loop of the Worker goes on, the controller answers, days pass, and a
\* process that exited is started again by its operator.
FairSpec ==
    /\ Spec
    /\ WF_vars(Start) /\ WF_vars(OpenSession) /\ WF_vars(GivesUp) /\ WF_vars(DayPasses)
    /\ WF_vars(Maintenance) /\ WF_vars(Rotation)

-----------------------------------------------------------------------------
(* Properties                                                              *)

\* The identity file always names a key that exists: neither the clean-up of a
\* failed rotation nor that of retired keys (_clean_retired_keys) deletes the
\* key a restarted Worker will open, even when they run in a process that goes
\* on with an older key.  (A rotation that failed to save the identity deletes
\* the replacement and leaves the journal; a retried maintenance then switches
\* to the deleted key.)
IdentityKeyHeld == identity \in keys \/ "save" \in struck

\* A key that was once the identity and is not any more is never forgotten
\* while it exists: the state file or the rotation journal names it, through
\* any stop between save_identity, _add_retired_key and the removal of the
\* journal, so that it will be deleted.
SupersededKeysTracked == (used \cap keys) \ {identity} \subseteq retired \cup {journal.old}

\* "Worker device certificate rotation failed safely" (rotation.py:129) and
\* "continuing with the current identity" (cli.py:560): whenever the Worker is
\* down, reconnecting or in a session, the key its identity names is the one
\* the controller will ask it to prove.
FailsSafely == pc \in {"down", "opening", "session", "failed"} => identity = ledgerKey

\* Outside the window from the request to the saved identity no fault locks the
\* Worker out: a process that is started can prove the identity on its disk.
ReconnectsUnlessStruck ==
    pc \in {"down", "opening", "session", "failed"} /\ "rotation" \notin struck =>
        identity = ledgerKey

\* The error "recovery journal does not match the active identity"
\* (rotation.py:238) is never raised: a journal that survives a stop, or is
\* found by a retried maintenance, names the identity on disk and the one the
\* process works with.
JournalMatchesIdentity ==
    journal # NoJournal => {identity, current} \subseteq {journal.old, journal.new}

\* A process that goes on with a superseded key after its rotation was
\* swallowed does not do so for ever: the controller ends its session, it can
\* open no other, and the process that is started in its place works with the
\* identity on disk.
SupersededProcessEnds ==
    (current # identity /\ pc # "down") ~> (current = identity \/ pc = "down")

\* A certificate past its half life is replaced in the end, as long as it does
\* not expire first (which nothing but the operator repairs) and no fault hits
\* an unprotected window: failed attempts are repeated.
CertificateReplaced ==
    ledgerKey \in aged ~> (ledgerKey \notin aged \/ ledgerKey \in expired \/ created = MaxKeys \/ struck # {})

\* A superseded key is deleted in the end, with the same exceptions: the process
\* that worked with it is replaced, and failed deletions are retried.
RetiredKeysDeleted ==
    \A k \in Keys :
        (k \in used /\ k # identity) ~> (k \notin keys \/ ledgerKey \in expired \/ struck # {})

=============================================================================
