----------------------------- MODULE Publisher -----------------------------
(* The two workers that publish finished recordings into one dataset, as   *)
(* they meet the recorder on disk and each other in the dataset:           *)
(*   - the training publisher (scripts/publish_yam_training.py with        *)
(*     YAM_control/lerobot_dataset.py) recovers the recordings of operator *)
(*     processes that died, exports a recording and appends it to the      *)
(*     LeRobot registry, one writer at a time (a file lock);               *)
(*   - the viewing publisher (scripts/publish_yam_viewing.py) adds a small *)
(*     video and a line to the catalog.                                    *)
(* Each pins a revision, reads all it needs at that revision and commits   *)
(* with it as parent.  A commit is a request in flight: the answer may be  *)
(* lost, and the request outlives the process that sent it.                *)
EXTENDS EpisodeRecorder, Sequences

CONSTANTS ViewingFirst   \* YAM_VIEWING_FIRST_SINCE is set, and before every recording

VARIABLES
    upload,   \* upload[e]: upload.json of e
    receipt,  \* receipt[e]: viewing-upload.json of e
    pub,      \* the training publisher
    view,     \* the viewing publisher
    hub,      \* the dataset at its head revision
    calls     \* commits on their way

pubVars == <<upload, receipt, pub, view, hub, calls>>
vars == <<rec, cur, proc, disk, faults, upload, receipt, pub, view, hub, calls>>

\* What a manifest says of a recording; as a hash, its source fingerprint.
DataOf(m) == [rows |-> m.rows, samples |-> m.samples, outcome |-> m.outcome]
Data == [rows: 0..MaxRows, samples: 0..MaxRows, outcome: Outcomes]
NoData == [outcome |-> "no data"]
OfConverter == [outcome |-> "hash of the bulk converter"]
Hashes == Data \cup {OfConverter}

\* Another recording archived under the same name.
OtherData == [rows |-> MaxRows, samples |-> MaxRows, outcome |-> "elsewhere"]

Entry(e, data, hash) == [episode |-> e, data |-> data, hash |-> hash]
NoHub == [rev |-> 0]

IdlePub == [pc |-> "idle", todo |-> {}, ep |-> 0, meta |-> NoManifest, snap |-> NoHub]
IdleView == [pc |-> "idle", ep |-> 0, data |-> NoData]

\* The archive holds a recording from before the registry under a legacy name,
\* this one or another, and the bulk converter may have registered it; its video
\* was shown.
Init ==
    /\ RecInit
    /\ receipt = [e \in Episodes |-> IF e \in Legacy
                                      THEN [status |-> "uploaded", samples |-> MaxRows]
                                      ELSE [status |-> "none", samples |-> 0]]
    /\ pub = IdlePub
    /\ view = IdleView
    /\ calls = {}
    /\ \E old \in [Legacy -> {DataOf(OldManifest), OtherData}] :
       \E registry \in {<<>>} \cup {<<Entry(e, old[e], old[e])>> : e \in Legacy}
                           \cup {<<Entry(e, old[e], OfConverter)>> : e \in Legacy} :
          /\ hub = [rev |-> 0,
                    registry |-> registry,
                    archive |-> [e \in Episodes |-> IF e \in Legacy THEN old[e] ELSE NoData],
                    catalog |-> [e \in Episodes |-> IF e \in Legacy THEN DataOf(OldManifest)
                                                    ELSE NoData]]
          /\ upload = [e \in Episodes |->
                          [status |-> IF e \in Legacy /\ old[e] # OtherData THEN "archived"
                                      ELSE "none",
                           index |-> 0]]

-----------------------------------------------------------------------------
(* The dataset. *)

\* A commit replaces the files it carries and leaves the others.
Applied(c) ==
    IF c.by = "training"
    THEN [hub EXCEPT !.rev = @ + 1, !.registry = c.registry, !.archive[c.ep] = c.data]
    ELSE [hub EXCEPT !.rev = @ + 1, !.catalog = c.catalog]

\* Mutant: without parent_commit a late request is applied over a newer head.
MayApplyLate(c) == c.parent <= hub.rev

\* parent_commit: the commit is refused when the head has moved on.
MayApply(c) == c.parent = hub.rev

\* Mutant: an answer that comes late is taken for the one awaited.
GivenUpNot(sender) == calls

\* The sender of c waits no longer; the request is not taken back.
GivenUp(sender) ==
    {IF c.by = sender THEN [c EXCEPT !.awaited = FALSE] ELSE c : c \in calls}

-----------------------------------------------------------------------------
(* The training publisher. *)

\* Mutant: the rows are not counted.
LoadsUncounted(e) ==
    LET m == disk[e].manifest IN m.status = "finalized" /\ m.samples = disk[e].lines

\* load_episode: what is on disk is what the recorder, or the recovery, sealed.
Loads(e) ==
    LET m == disk[e].manifest
    IN m.status = "finalized" /\ m.samples = disk[e].lines /\ m.rows = disk[e].lines

Scan(todo) == IF todo = {} THEN IdlePub ELSE [IdlePub EXCEPT !.pc = "scan", !.todo = todo]
NextEpisode == Scan(pub.todo \ {pub.ep})

\* main and publish_once: a pass over the recordings there are.
BeginPass ==
    /\ pub.pc = "idle"
    /\ pub' = Scan({e \in Episodes : disk[e].manifest # NoManifest})
    /\ UNCHANGED <<recVars, upload, receipt, view, hub, calls>>

ReadManifest ==
    /\ pub.pc = "scan"
    /\ \E e \in pub.todo :
          /\ \A x \in pub.todo : e <= x
          /\ pub' = [pub EXCEPT !.pc = "read", !.ep = e, !.meta = disk[e].manifest]
    /\ UNCHANGED <<recVars, upload, receipt, view, hub, calls>>

\* recover_orphan looks at the owner after the manifest was read.
CheckOwner ==
    /\ pub.pc = "read" /\ pub.meta.status = "recording"
    /\ pub' = IF pub.meta.owner = proc THEN NextEpisode ELSE [pub EXCEPT !.pc = "orphan"]
    /\ UNCHANGED <<recVars, upload, receipt, view, hub, calls>>

\* write_bytes empties samples.jsonl before it writes the rows that parse.
TruncateOrphan ==
    /\ pub.pc = "orphan"
    /\ pub' = [pub EXCEPT !.pc = "rewriting", !.meta.rows = disk[pub.ep].lines]
    /\ disk' = [disk EXCEPT ![pub.ep].lines = 0, ![pub.ep].torn = FALSE]
    /\ UNCHANGED <<rec, cur, proc, faults, upload, receipt, view, hub, calls>>

\* The rows, then the manifest: what was read of it before, with the verdict.
SealOrphan ==
    LET rows == pub.meta.rows
        m == [pub.meta EXCEPT !.status = IF rows > 0 THEN "finalized" ELSE "recording_failed",
                              !.outcome = "recorder_process_interrupted", !.samples = rows]
    IN /\ pub.pc = "rewriting"
       /\ disk' = [disk EXCEPT ![pub.ep].lines = rows, ![pub.ep].manifest = m]
       /\ pub' = [pub EXCEPT !.pc = "read", !.meta = m]
       /\ UNCHANGED <<rec, cur, proc, faults, upload, receipt, view, hub, calls>>

\* Mutant: an attempt that a crash cut short is taken for one under way.
PassedOnce(e, m) == m.status # "finalized" \/ upload[e].status \in {"uploading", "uploaded"}

\* Not to be published, or published already.
Passed(e, m) ==
    \/ m.status # "finalized"
    \/ upload[e].status = "uploaded"

\* With the gate of the viewing worker set, its test names what publish_once does
\* not know (RENDER_VERSION): the error ends the pass.
Consider ==
    /\ pub.pc = "read" /\ pub.meta.status # "recording"
    /\ IF Passed(pub.ep, pub.meta) THEN pub' = NextEpisode /\ UNCHANGED upload
       ELSE IF ViewingFirst THEN pub' = IdlePub /\ UNCHANGED upload
       ELSE IF upload[pub.ep].status = "backoff" THEN pub' = NextEpisode /\ UNCHANGED upload
       ELSE /\ pub' = [pub EXCEPT !.pc = "marked", !.meta = NoManifest]
            /\ upload' = [upload EXCEPT ![pub.ep].status = "uploading"]
    /\ UNCHANGED <<recVars, receipt, view, hub, calls>>

\* The entries of e in the registry of a revision.
Existing(snap, e) == {i \in DOMAIN snap.registry : snap.registry[i].episode = e}

\* The revision knows nothing of e, or exactly this recording of it.
Agrees(snap, e) ==
    LET d == DataOf(disk[e].manifest)
    IN /\ snap.archive[e] \in {NoData, d}
       /\ \A i \in Existing(snap, e) : snap.archive[e] = d /\ snap.registry[i].data = d

\* export_episode: what the archive will hold of e.
Exported(e) == DataOf(disk[e].manifest)

\* append_episode: the entry of e takes the next index, if it has none.
AppendEpisode(registry, e) ==
    Append(registry, Entry(e, Exported(e), DataOf(disk[e].manifest)))

\* The hashes of the bulk converter are put right.
RepairProvenance(registry, e) ==
    [i \in DOMAIN registry |->
        IF registry[i].episode = e
        THEN [registry[i] EXCEPT !.hash = DataOf(disk[e].manifest)] ELSE registry[i]]

\* upload_folder with the head as parent_commit.
Upload(registry) ==
    /\ calls' = calls \cup {[by |-> "training", parent |-> hub.rev, awaited |-> TRUE,
                             ep |-> pub.ep, registry |-> registry, data |-> Exported(pub.ep)]}
    /\ pub' = [pub EXCEPT !.pc = "sent"]

\* The head is pinned, every read is made at that revision, and what is new is
\* sent.  One step: a request slow to arrive stands for a slow export.
SendEpisode ==
    LET existing == Existing(hub, pub.ep)
        repaired == RepairProvenance(hub.registry, pub.ep)
    IN /\ pub.pc = "marked" /\ Loads(pub.ep) /\ Agrees(hub, pub.ep)
       /\ \/ /\ existing = {}
             /\ Upload(AppendEpisode(hub.registry, pub.ep))
          \/ /\ repaired # hub.registry
             /\ Upload(repaired)
          \/ /\ existing # {} /\ repaired = hub.registry
             /\ pub' = [pub EXCEPT !.pc = "verify", !.snap = hub]
             /\ UNCHANGED calls
       /\ UNCHANGED <<recVars, upload, receipt, view, hub>>

\* The committed revision holds the episode under index i.
Verified(snap, e, i) ==
    LET d == DataOf(disk[e].manifest)
    IN snap.archive[e] = d /\ snap.registry[i] = Entry(e, d, d)

MarkUploaded ==
    /\ pub.pc = "verify"
    /\ \E i \in Existing(pub.snap, pub.ep) :
          /\ Verified(pub.snap, pub.ep, i)
          /\ upload' = [upload EXCEPT ![pub.ep] = [status |-> "uploaded", index |-> i]]
    /\ pub' = NextEpisode
    /\ UNCHANGED <<recVars, receipt, view, hub, calls>>

\* An attempt raises, and the episode waits for its retry.
GiveUpAttempt ==
    /\ upload' = [upload EXCEPT ![pub.ep].status = "backoff"]
    /\ calls' = GivenUp("training")
    /\ pub' = NextEpisode
    /\ UNCHANGED <<rec, cur, proc, disk, receipt, view, hub>>

\* The recording is not what was sealed, or the dataset has another under its name.
AttemptRefused ==
    /\ pub.pc = "marked" /\ ~(Loads(pub.ep) /\ Agrees(hub, pub.ep))
    /\ GiveUpAttempt
    /\ UNCHANGED faults

\* The network fails, or an answer does not come.
AttemptFails ==
    /\ pub.pc \in {"marked", "sent", "verify"}
    /\ GiveUpAttempt
    /\ Fault

\* retry_at has passed.
BackoffEnds(e) ==
    /\ upload[e].status = "backoff"
    /\ upload' = [upload EXCEPT ![e].status = "retrying"]
    /\ UNCHANGED <<recVars, receipt, pub, view, hub, calls>>

\* The process is killed and started again; its lock goes with it.
PublisherCrashes ==
    /\ pub.pc # "idle"
    /\ Fault
    /\ pub' = IdlePub
    /\ calls' = GivenUp("training")
    /\ UNCHANGED <<rec, cur, proc, disk, upload, receipt, view, hub>>

-----------------------------------------------------------------------------
(* The viewing publisher. *)

\* The recording is there, unchanged, and has no receipt for its samples.
ToShow(e) ==
    LET m == disk[e].manifest
    IN /\ m.status = "finalized" /\ m.samples = disk[e].lines
       /\ receipt[e].status = "none" \/ receipt[e].samples # m.samples

Receipt(e, status, samples) ==
    receipt' = [receipt EXCEPT ![e] = [status |-> status, samples |-> samples]]

\* classify_motion finds no task in it: nothing is shown.
ArmCheck(e) ==
    /\ view.pc = "idle" /\ ToShow(e)
    /\ Receipt(e, "arm_check", disk[e].manifest.samples)
    /\ UNCHANGED <<recVars, upload, pub, view, hub, calls>>

RenderVideo(e) ==
    /\ view.pc = "idle" /\ ToShow(e)
    /\ view' = [pc |-> "rendered", ep |-> e, data |-> DataOf(disk[e].manifest)]
    /\ UNCHANGED <<recVars, upload, receipt, pub, hub, calls>>

\* One turn of the loop of publish_episode: the catalog at the head, and e in it.
SendVideo ==
    /\ view.pc = "rendered"
    /\ calls' = calls \cup {[by |-> "viewing", parent |-> hub.rev, awaited |-> TRUE,
                             catalog |-> [hub.catalog EXCEPT ![view.ep] = view.data]]}
    /\ view' = [view EXCEPT !.pc = "sent"]
    /\ UNCHANGED <<recVars, upload, receipt, pub, hub>>

MarkShown ==
    /\ view.pc = "committed"
    /\ Receipt(view.ep, "uploaded", view.data.samples)
    /\ view' = IdleView
    /\ UNCHANGED <<recVars, upload, pub, hub, calls>>

\* Any other error, or a kill: the next pass starts over.
ViewFails ==
    /\ view.pc # "idle"
    /\ Fault
    /\ view' = IdleView
    /\ calls' = GivenUp("viewing")
    /\ UNCHANGED <<rec, cur, proc, disk, upload, receipt, pub, hub>>

-----------------------------------------------------------------------------
(* A commit arrives; its sender learns of it when it still waits. *)

CommitApplied(c) ==
    /\ MayApply(c)
    /\ hub' = Applied(c)
    /\ calls' = calls \ {c}
    /\ pub' = IF c.awaited /\ c.by = "training"
              THEN [pub EXCEPT !.pc = "verify", !.snap = Applied(c)] ELSE pub
    /\ view' = IF c.awaited /\ c.by = "viewing" THEN [view EXCEPT !.pc = "committed"] ELSE view
    /\ UNCHANGED <<recVars, upload, receipt>>

\* The training publisher backs off, the viewing publisher pins the new head.
CommitRefused(c) ==
    /\ ~MayApply(c)
    /\ calls' = calls \ {c}
    /\ IF c.awaited /\ c.by = "training"
       THEN /\ upload' = [upload EXCEPT ![pub.ep].status = "backoff"]
            /\ pub' = NextEpisode
       ELSE UNCHANGED <<upload, pub>>
    /\ view' = IF c.awaited /\ c.by = "viewing" THEN [view EXCEPT !.pc = "rendered"] ELSE view
    /\ UNCHANGED <<recVars, receipt, hub>>

Serve == \E c \in calls : CommitApplied(c) \/ CommitRefused(c)

PubStep ==
    \/ BeginPass \/ ReadManifest \/ CheckOwner \/ TruncateOrphan \/ SealOrphan
    \/ Consider \/ SendEpisode \/ AttemptRefused \/ MarkUploaded

ViewStep ==
    \/ \E e \in Episodes : ArmCheck(e) \/ RenderVideo(e)
    \/ SendVideo \/ MarkShown

Recorder == RecNext /\ UNCHANGED pubVars

Next ==
    \/ Recorder
    \/ PubStep
    \/ AttemptFails
    \/ PublisherCrashes
    \/ ViewStep
    \/ ViewFails
    \/ Serve
    \/ \E e \in Episodes : BackoffEnds(e)

Spec == Init /\ [][Next]_vars

\* Both workers run for ever, a request arrives in the end, waits end.  Nothing
\* is asked of the operator process.
Fairness ==
    /\ WF_vars(PubStep)
    /\ WF_vars(ViewStep)
    /\ WF_vars(Serve)
    /\ \A e \in Episodes : WF_vars(BackoffEnds(e))

FairSpec == Spec /\ Fairness

-----------------------------------------------------------------------------
(* Properties. *)

\* The types: the publishers' places, and a reply is awaited by one sender only.
TypeOK ==
    /\ RecTypeOK
    /\ upload \in [Episodes -> [status: {"none", "archived", "uploading", "backoff",
                                         "retrying", "uploaded"},
                                index: 0..NumEpisodes]]
    /\ receipt \in [Episodes -> [status: {"none", "uploaded", "arm_check"}, samples: Nat]]
    /\ pub.pc \in {"idle", "scan", "read", "orphan", "rewriting", "marked", "sent",
                   "verify"}
    /\ pub.todo \subseteq Episodes /\ pub.ep \in Episodes \cup {0}
    /\ view.pc \in {"idle", "rendered", "sent", "committed"}
    /\ hub.archive \in [Episodes -> Data \cup {NoData}]
    /\ hub.catalog \in [Episodes -> Data \cup {NoData}]
    /\ hub.registry \in Seq([episode: Episodes, data: Data, hash: Hashes])
    /\ Cardinality({c \in calls : c.by = "training" /\ c.awaited})
           = (IF pub.pc = "sent" THEN 1 ELSE 0)
    /\ Cardinality({c \in calls : c.by = "viewing" /\ c.awaited})
           = (IF view.pc = "sent" THEN 1 ELSE 0)

\* A receipt on disk is true of the dataset as it is now: an episode marked
\* uploaded is a sealed recording, archived as it is on disk and registered under
\* the index the receipt names (publish_yam_training.py:290-304); one marked as
\* shown is in the catalog with its samples (publish_yam_viewing.py:76-79).
ReceiptsAreTrue ==
    \A e \in Episodes :
        LET d == DataOf(disk[e].manifest)
        IN /\ upload[e].status = "uploaded" =>
                 /\ disk[e].manifest.status = "finalized"
                 /\ {d.rows, d.samples} = {disk[e].lines}
                 /\ hub.archive[e] = d
                 /\ upload[e].index \in DOMAIN hub.registry
                 /\ hub.registry[upload[e].index] = Entry(e, d, d)
           /\ receipt[e].status = "uploaded" => hub.catalog[e].samples = receipt[e].samples

\* Whatever is lost, late, refused or killed, the dataset is an archive: one index
\* per episode, in order and for good, and nothing published is changed
\* (publish_yam_training.py:208-209, :224-225, lerobot_dataset.py:359).
Archive == INSTANCE EpisodeArchive WITH registry <- hub.registry, catalog <- hub.catalog
ImplementsArchive == Archive!Spec

\* A sealed recording that no other one has the name of.
Publishable(e) == Loads(e) /\ Agrees(hub, e)

\* Its recorder's process is gone, its manifest still says "recording".
Orphan(e) ==
    LET m == disk[e].manifest IN m.status = "recording" /\ m.owner # proc

\* What stays fit to be published is published and shown or found an arm check, and
\* an orphan is sealed, whatever attempts failed before (publish_yam_training.py:
\* 143-171, :301-304, :319-327; publish_yam_viewing.py:94-102).
RecordingsSettle ==
    \A e \in Episodes :
        /\ Orphan(e) ~> ~Orphan(e)
        /\ <>[]Publishable(e) => <>(upload[e].status = "uploaded" /\ receipt[e].status # "none")
=============================================================================
