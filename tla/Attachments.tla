---------------------------- MODULE Attachments ----------------------------
(***************************************************************************)
(* Files sent with the messages of one room: the upload that writes a file  *)
(* and then its row (messages.py), the task that makes a thumbnail          *)
(* (tasks.py), the download that looks row, message and membership up       *)
(* (files.py), and the room that is deleted or left meanwhile.  No code     *)
(* removes a file.  Sizes, names and types of content are left out.         *)
(***************************************************************************)
EXTENDS Naturals, FiniteSets

CONSTANTS
    Files,      \* one per call of upload_file
    Images,     \* those whose type is in ALLOWED_IMAGES
    Users,      \* who download
    MaxRetries, \* max_retries of process_attachment
    MaxFaults,  \* bound on lost processes and broker errors
    None

ASSUME ImagesAssumption == Images \subseteq Files
ASSUME BoundsAssumption == MaxRetries \in Nat /\ MaxFaults \in Nat
ASSUME NoneAssumption == None \notin Files

VARIABLES
    room,      \* the room, and with it the message of every file, exists
    members,   \* the Users in the room
    rows,      \* attachments: the files with a committed row
    disk,      \* what of a file is in UPLOAD_DIR
    thumb,     \* and in UPLOAD_DIR/thumbs
    upload,    \* where the call that uploads a file is
    task,      \* its process_attachment, and which try it is
    download,  \* the download of a user
    faults

database == <<room, members, rows>>
worker == <<thumb, task>>
vars == <<database, disk, worker, upload, download, faults>>

Contents == {"absent", "partial", "whole"}
Task == [at : {"none", "queued", "read", "saving", "done", "given up"},
         tries : 0..MaxRetries]
Download == [at : {"away", "row", "message", "allowed", "serving"},
             file : Files \cup {None}, seen : BOOLEAN]
NoTask == [at |-> "none", tries |-> 0]
Away == [at |-> "away", file |-> None, seen |-> FALSE]

Init ==
    /\ room = TRUE /\ members \in SUBSET Users /\ rows = {}
    /\ disk = [a \in Files |-> "absent"] /\ thumb = [a \in Files |-> "absent"]
    /\ upload = [a \in Files |-> "none"] /\ task = [a \in Files |-> NoTask]
    /\ download = [u \in Users |-> Away]
    /\ faults = 0

Goto(a, from, to) == upload[a] = from /\ upload' = [upload EXCEPT ![a] = to]

Fault == faults < MaxFaults /\ faults' = faults + 1

-----------------------------------------------------------------------------
(* upload_file, called by the author of the message *)

\* _load_message finds the message, whose author need not be a member.
LoadMessage(a) ==
    /\ room /\ Goto(a, "none", "loaded")
    /\ UNCHANGED <<database, disk, worker, download, faults>>

OpenFile(a) ==
    /\ Goto(a, "loaded", "writing")
    /\ disk' = [disk EXCEPT ![a] = "partial"]
    /\ UNCHANGED <<database, worker, download, faults>>

WriteFile(a) ==
    /\ Goto(a, "writing", "written")
    /\ disk' = [disk EXCEPT ![a] = "whole"]
    /\ UNCHANGED <<database, worker, download, faults>>

\* Error: the row is committed while the file is being written.
CommitRow_First(a) ==
    /\ IF room THEN Goto(a, "writing", "committed") /\ rows' = rows \cup {a}
       ELSE Goto(a, "writing", "failed") /\ UNCHANGED rows
    /\ UNCHANGED <<room, members, disk, worker, download, faults>>

\* The foreign key refuses a row whose message is gone: the file stays.
CommitRow(a) ==
    /\ IF room THEN Goto(a, "written", "committed") /\ rows' = rows \cup {a}
       ELSE Goto(a, "written", "failed") /\ UNCHANGED rows
    /\ UNCHANGED <<room, members, disk, worker, download, faults>>

\* Error: the task is handed over before the row is committed.
Enqueue_BeforeCommit(a) ==
    /\ upload[a] = "written" /\ task[a] = NoTask
    /\ task' = [task EXCEPT ![a].at = "queued"]
    /\ UNCHANGED <<database, disk, upload, thumb, download, faults>>

\* db.refresh, which raises when the row has gone since, and .delay.
Enqueue(a) ==
    /\ IF a \in rows
       THEN Goto(a, "committed", "done") /\ task' = [task EXCEPT ![a].at = "queued"]
       ELSE Goto(a, "committed", "failed") /\ UNCHANGED task
    /\ UNCHANGED <<database, disk, thumb, download, faults>>

\* The process dies, the disk is full, the broker is away: nothing of what
\* was done is taken back.
UploadFails(a) ==
    /\ Fault
    /\ upload[a] \in {"loaded", "writing", "written", "committed"}
    /\ upload' = [upload EXCEPT ![a] = "failed"]
    /\ UNCHANGED <<database, disk, worker, download>>

-----------------------------------------------------------------------------
(* process_attachment *)

Become(a, from, to) == task[a].at = from /\ task' = [task EXCEPT ![a].at = to]

\* A process takes the task and reads the row and whether the file exists.
ReadRow(a) ==
    /\ Become(a, "queued",
              IF a \in rows \cap Images /\ disk[a] # "absent" THEN "read" ELSE "done")
    /\ UNCHANGED <<database, disk, upload, thumb, download, faults>>

\* Image.open, thumbnail, and img.save begins.
OpenThumb(a) ==
    /\ Become(a, "read", "saving")
    /\ thumb' = [thumb EXCEPT ![a] = "partial"]
    /\ UNCHANGED <<database, disk, upload, download, faults>>

SaveThumb(a) ==
    /\ Become(a, "saving", "done")
    /\ thumb' = [thumb EXCEPT ![a] = "whole"]
    /\ UNCHANGED <<database, disk, upload, download, faults>>

\* Any exception, of the database, of the image or of the disk: self.retry,
\* or the end, after the last try or when the next one cannot be enqueued.
TaskFails(a) ==
    /\ task[a].at \in {"queued", "read", "saving"}
    /\ \/ /\ task[a].tries < MaxRetries
          /\ task' = [task EXCEPT ![a] = [at |-> "queued", tries |-> task[a].tries + 1]]
       \/ task' = [task EXCEPT ![a].at = "given up"]
    /\ UNCHANGED <<database, disk, upload, thumb, download, faults>>

\* The process is lost and the task, not yet acknowledged, queued again.
WorkerDies(a) ==
    /\ Fault
    /\ task[a].at \in {"read", "saving"}
    /\ task' = [task EXCEPT ![a].at = "queued"]
    /\ UNCHANGED <<database, disk, upload, thumb, download>>

-----------------------------------------------------------------------------
(* download_file: four looks, each at what is committed by then *)

Look(u, from, to) ==
    download[u].at = from /\ download' = [download EXCEPT ![u].at = to]
Refuse(u, from) == download[u].at = from /\ download' = [download EXCEPT ![u] = Away]

FindRow(u, a) ==
    /\ download[u].at = "away" /\ a \in rows
    /\ download' = [download EXCEPT ![u] =
          [at |-> "row", file |-> a, seen |-> u \in members]]
    /\ UNCHANGED <<database, disk, worker, upload, faults>>

\* Error: a message that is gone has no room to be a member of.
FindMessage_GoneIsOpen(u) ==
    /\ IF room THEN Look(u, "row", "message") ELSE Look(u, "row", "allowed")
    /\ UNCHANGED <<database, disk, worker, upload, faults>>

FindMessage(u) ==
    /\ IF room THEN Look(u, "row", "message") ELSE Refuse(u, "row")
    /\ UNCHANGED <<database, disk, worker, upload, faults>>

CheckMember(u) ==
    /\ IF u \in members THEN Look(u, "message", "allowed") ELSE Refuse(u, "message")
    /\ UNCHANGED <<database, disk, worker, upload, faults>>

\* os.path.exists, or 404 "File not found on disk".
FindFile(u) ==
    /\ download[u].at = "allowed"
    /\ IF disk[download[u].file] # "absent" THEN Look(u, "allowed", "serving")
       ELSE Refuse(u, "allowed")
    /\ UNCHANGED <<database, disk, worker, upload, faults>>

Serve(u) ==
    /\ Refuse(u, "serving")
    /\ UNCHANGED <<database, disk, worker, upload, faults>>

-----------------------------------------------------------------------------
(* What other endpoints do to the room meanwhile *)

Watch(now) ==
    download' = [u \in Users |->
        IF download[u].at = "away" THEN Away
        ELSE [download[u] EXCEPT !.seen = @ \/ u \in now]]

\* join, leave, ban, the acceptance of an invitation.
MemberChanges(u) ==
    /\ room
    /\ members' = IF u \in members THEN members \ {u} ELSE members \cup {u}
    /\ Watch(members')
    /\ UNCHANGED <<room, rows, disk, worker, upload, faults>>

\* Error: the rows of the attachments outlive their messages.
DeleteRoom_KeepsRows ==
    /\ room
    /\ room' = FALSE /\ members' = {} /\ UNCHANGED rows
    /\ UNCHANGED <<disk, worker, upload, download, faults>>

\* delete_room: members, messages and attachments by cascade, and no file.
DeleteRoom ==
    /\ room
    /\ room' = FALSE /\ members' = {} /\ rows' = {}
    /\ UNCHANGED <<disk, worker, upload, download, faults>>

-----------------------------------------------------------------------------
UploadStep(a) ==
    OpenFile(a) \/ WriteFile(a) \/ CommitRow(a) \/ Enqueue(a)
TaskStep(a) == ReadRow(a) \/ OpenThumb(a) \/ SaveThumb(a) \/ TaskFails(a)
DownloadStep(u) == FindMessage(u) \/ CheckMember(u) \/ FindFile(u) \/ Serve(u)

Next ==
    \/ \E a \in Files :
          LoadMessage(a) \/ UploadStep(a) \/ UploadFails(a) \/ TaskStep(a) \/ WorkerDies(a)
    \/ \E u \in Users :
          \/ \E a \in Files : FindRow(u, a)
          \/ DownloadStep(u) \/ MemberChanges(u)
    \/ DeleteRoom

Spec == Init /\ [][Next]_vars

-----------------------------------------------------------------------------
TypeOK ==
    /\ room \in BOOLEAN /\ members \subseteq Users /\ rows \subseteq Files
    /\ (~ room => members = {} /\ rows = {})
    /\ disk \in [Files -> Contents] /\ thumb \in [Files -> Contents]
    /\ upload \in [Files -> {"none", "loaded", "writing", "written", "committed",
                             "done", "failed"}]
    /\ task \in [Files -> Task] /\ download \in [Users -> Download]
    /\ faults \in 0..MaxFaults

\* A committed attachment has its whole file, and so has every download that
\* got past the row, whatever happens to row and room since: 404 "File not
\* found on disk" and half a file are out of reach (files.py:46,
\* messages.py:402-418).
RowHasFile ==
    /\ \A a \in rows : disk[a] = "whole"
    /\ \A u \in Users : download[u].at # "away" => disk[download[u].file] = "whole"

\* download_file gives a file to callers who were members at some moment of
\* their request, though the room may have been left or deleted between the
\* looks (files.py:29-38).
ServedToMembers ==
    \A u \in Users : download[u].at \in {"allowed", "serving"} => download[u].seen

\* A finished task of an image has left its whole thumbnail, unless the row
\* was already gone: the task never runs ahead of the row's commit, and what a
\* lost process had written in part is written again (messages.py:418-421,
\* tasks.py:117-129).
DoneMeansThumb ==
    \A a \in rows \cap Images : task[a].at = "done" => thumb[a] = "whole"
=============================================================================
