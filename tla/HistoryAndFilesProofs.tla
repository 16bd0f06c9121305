----------------------- MODULE HistoryAndFilesProofs -----------------------
(***************************************************************************)
(* Proofs about the two models of what messages.py serves from its tables:  *)
(* the files of Attachments and the pages of History.                       *)
(*                                                                          *)
(* Files: what a file needs to be served or thumbed was done before its row *)
(* was committed, and no step undoes it; the inductive invariant says how   *)
(* far the upload of a file must be for each place that knows the file.     *)
(*                                                                          *)
(* Pages: the order of (created_at, id) never changes between committed     *)
(* messages, and the only request that is still for the list at hand asked  *)
(* for what is before its first message; so an answer, however late, fits   *)
(* to the head of the list.                                                 *)
(***************************************************************************)
EXTENDS Attachments, History, SequenceTheorems, TLAPS

-----------------------------------------------------------------------------
(* Files *)

\* The upload of a is past its commit, or its last attempt.
Past(a) == upload[a] \in {"committed", "done", "failed"}
Stored(a) == Past(a) /\ disk[a] = "whole"

WrittenIsWhole == \A a \in Files : upload[a] = "written" => disk[a] = "whole"
RowsStored == \A a \in rows : Stored(a)
DownloadsStored == \A u \in Users : download[u].at # "away" =>
                      download[u].file \in Files /\ Stored(download[u].file)
MembersSeen == \A u \in Users : download[u].at # "away" /\ u \in members => download[u].seen
TaskAfterUpload == \A a \in Files : task[a].at # "none" => upload[a] = "done"

Inv == /\ TypeOK /\ WrittenIsWhole /\ RowsStored /\ DownloadsStored
       /\ MembersSeen /\ ServedToMembers /\ TaskAfterUpload /\ DoneMeansThumb

LEMMA InitInv == Init => Inv
  BY BoundsAssumption
  DEF Init, Inv, TypeOK, WrittenIsWhole, RowsStored, DownloadsStored, MembersSeen,
      ServedToMembers, TaskAfterUpload, DoneMeansThumb, Stored, Past, Contents, NoTask, Away,
      Task, Download

\* Every step keeps the types.
LEMMA StepTypeOK == TypeOK /\ [Next]_vars => TypeOK'
<1> SUFFICES ASSUME TypeOK, [Next]_vars PROVE TypeOK'
  OBVIOUS
<1> USE BoundsAssumption, NoneAssumption DEF TypeOK, Contents, database, worker, Goto
<1>1. ASSUME NEW a \in Files, LoadMessage(a) \/ OpenFile(a) \/ WriteFile(a) PROVE TypeOK'
  BY <1>1 DEF LoadMessage, OpenFile, WriteFile
<1>2. ASSUME NEW a \in Files, CommitRow(a) PROVE TypeOK'
  BY <1>2 DEF CommitRow
<1>3. ASSUME NEW a \in Files, UploadFails(a) PROVE TypeOK'
  BY <1>3 DEF UploadFails, Fault
<1>6. ASSUME NEW a \in Files, TaskStep(a) \/ WorkerDies(a) \/ Enqueue(a) PROVE task' \in [Files -> Task]
  <2>1. task[a] \in Task
    OBVIOUS
  <2>2. /\ [task[a] EXCEPT !.at = "queued"] \in Task
        /\ [task[a] EXCEPT !.at = "read"] \in Task
        /\ [task[a] EXCEPT !.at = "saving"] \in Task
        /\ [task[a] EXCEPT !.at = "done"] \in Task
    BY <2>1 DEF Task
  <2>3. CASE UNCHANGED task
    BY <2>3
  <2>4. CASE TaskFails(a)
    <3>1. task[a].tries \in 0..MaxRetries
      BY <2>1 DEF Task
    <3>2. [task[a] EXCEPT !.at = "given up"] \in Task
      BY <2>1 DEF Task
    <3>3. task[a].tries < MaxRetries => [at |-> "queued", tries |-> task[a].tries + 1] \in Task
      <4> DEFINE n == task[a].tries
      <4>1. n \in 0..MaxRetries
        BY <3>1
      <4> HIDE DEF n
      <4>2. n < MaxRetries => n + 1 \in 0..MaxRetries
        BY <4>1, BoundsAssumption
      <4>3. n < MaxRetries => [at |-> "queued", tries |-> n + 1] \in Task
        BY <4>2 DEF Task
      <4> QED
        BY <4>3 DEF n
    <3>4. CASE /\ task[a].tries < MaxRetries
               /\ task' = [task EXCEPT ![a] = [at |-> "queued", tries |-> task[a].tries + 1]]
      BY <3>3, <3>4
    <3>5. CASE task' = [task EXCEPT ![a].at = "given up"]
      BY <3>2, <3>5
    <3> QED
      BY <2>4, <3>4, <3>5 DEF TaskFails
  <2> QED
    BY <1>6, <2>2, <2>3, <2>4 DEF TaskStep, ReadRow, OpenThumb, SaveThumb, Become, WorkerDies, Enqueue
<1>7. ASSUME NEW a \in Files, TaskStep(a) \/ WorkerDies(a) PROVE TypeOK'
  <2>1. task' \in [Files -> Task]
    BY <1>6, <1>7
  <2>2. thumb' \in [Files -> Contents]
    BY <1>7 DEF TaskStep, ReadRow, OpenThumb, SaveThumb, TaskFails, WorkerDies
  <2>3. faults' \in 0..MaxFaults
    <3>1. CASE TaskStep(a)
      BY <3>1 DEF TaskStep, ReadRow, OpenThumb, SaveThumb, TaskFails
    <3>2. CASE WorkerDies(a)
      BY <3>2 DEF WorkerDies, Fault
    <3> QED
      BY <1>7, <3>1, <3>2
  <2> QED
    BY <1>7, <2>1, <2>2, <2>3 DEF TaskStep, ReadRow, OpenThumb, SaveThumb, TaskFails, WorkerDies
<1>4. ASSUME NEW a \in Files, Enqueue(a) PROVE TypeOK'
  BY <1>6, <1>4 DEF Enqueue
<1>8. ASSUME NEW u \in Users, NEW a \in Files, FindRow(u, a) PROVE TypeOK'
  <2>1. [at |-> "row", file |-> a, seen |-> u \in members] \in Download
    BY DEF Download
  <2> QED
    BY <1>8, <2>1 DEF FindRow
<1>9. ASSUME NEW u \in Users, DownloadStep(u) PROVE TypeOK'
  <2>1. download[u] \in Download /\ Away \in Download
    BY DEF Download, Away
  <2>2. [download[u] EXCEPT !.at = "message"] \in Download
        /\ [download[u] EXCEPT !.at = "allowed"] \in Download
        /\ [download[u] EXCEPT !.at = "serving"] \in Download
    BY <2>1 DEF Download
  <2> QED
    BY <1>9, <2>1, <2>2 DEF DownloadStep, FindMessage, CheckMember, FindFile, Serve, Look, Refuse
<1>10. ASSUME NEW u \in Users, MemberChanges(u) PROVE TypeOK'
  <2>1. \A v \in Users : [download[v] EXCEPT !.seen = @ \/ v \in members'] \in Download
                         /\ Away \in Download
    <3> SUFFICES ASSUME NEW v \in Users
                 PROVE  [download[v] EXCEPT !.seen = @ \/ v \in members'] \in Download
      BY DEF Download, Away
    <3>1. download[v] \in Download
      OBVIOUS
    <3>2. (download[v].seen \/ v \in members') \in BOOLEAN
      BY <3>1 DEF Download
    <3> QED
      BY <3>1, <3>2 DEF Download
  <2> QED
    BY <1>10, <2>1 DEF MemberChanges, Watch
<1>11. CASE DeleteRoom
  BY <1>11 DEF DeleteRoom
<1>12. CASE UNCHANGED vars
  BY <1>12 DEF vars
<1> QED
  BY <1>1, <1>2, <1>3, <1>4, <1>7, <1>8, <1>9, <1>10, <1>11, <1>12
  DEF Next, UploadStep, TaskStep

-----------------------------------------------------------------------------
\* The upload: a file that is written or whose row is committed is not
\* written to any more.
LEMMA UploadKeeps ==
    ASSUME Inv, TypeOK', NEW a \in Files,
           LoadMessage(a) \/ UploadStep(a) \/ UploadFails(a)
    PROVE  Inv'
<1> USE DEF Inv
<1>1. CASE LoadMessage(a) \/ OpenFile(a) \/ WriteFile(a)
  BY <1>1 DEF LoadMessage, OpenFile, WriteFile, Goto, database, worker, TypeOK,
      WrittenIsWhole, RowsStored, DownloadsStored, MembersSeen, ServedToMembers,
      TaskAfterUpload, DoneMeansThumb, Stored, Past
<1>2. CASE CommitRow(a)
  BY <1>2 DEF CommitRow, Goto, worker, TypeOK,
      WrittenIsWhole, RowsStored, DownloadsStored, MembersSeen, ServedToMembers,
      TaskAfterUpload, DoneMeansThumb, Stored, Past
<1>3. CASE Enqueue(a)
  <2>1. /\ UNCHANGED <<database, disk, thumb, download>>
        /\ upload[a] = "committed" /\ upload'[a] \in {"done", "failed"}
        /\ \A b \in Files \ {a} : upload'[b] = upload[b] /\ task'[b] = task[b]
    BY <1>3 DEF Enqueue, Goto, TypeOK
  <2>2. task'[a].at \in {"none", "queued"} /\ (task'[a].at # "none" => upload'[a] = "done")
    <3>1. task[a].at = "none" /\ task[a] \in Task
      BY <2>1 DEF TaskAfterUpload, TypeOK
    <3>2. [task[a] EXCEPT !.at = "queued"].at = "queued"
      BY <3>1 DEF Task
    <3>3. CASE a \in rows
      <4>1. task'[a] = [task[a] EXCEPT !.at = "queued"] /\ upload'[a] = "done"
        BY <1>3, <3>3 DEF Enqueue, Goto, TypeOK
      <4> QED
        BY <4>1, <3>2
    <3>4. CASE a \notin rows
      BY <1>3, <3>1, <3>4 DEF Enqueue, Goto, TypeOK
    <3> QED
      BY <3>3, <3>4
  <2>3. RowsStored' /\ DownloadsStored' /\ MembersSeen' /\ ServedToMembers'
    BY <2>1 DEF database, TypeOK, RowsStored, DownloadsStored, MembersSeen, ServedToMembers,
        Stored, Past
  <2>4. WrittenIsWhole' /\ TaskAfterUpload'
    BY <2>1, <2>2 DEF WrittenIsWhole, TaskAfterUpload
  <2>5. DoneMeansThumb'
    BY <2>1, <2>2, ImagesAssumption DEF DoneMeansThumb, database
  <2> QED
    BY <2>3, <2>4, <2>5
<1>4. CASE UploadFails(a)
  BY <1>4 DEF UploadFails, database, worker, TypeOK,
      WrittenIsWhole, RowsStored, DownloadsStored, MembersSeen, ServedToMembers,
      TaskAfterUpload, DoneMeansThumb, Stored, Past
<1> QED
  BY <1>1, <1>2, <1>3, <1>4 DEF UploadStep

\* The task: it runs after the commit, and is done only with a whole thumbnail
\* or without a row.
LEMMA TaskKeeps ==
    ASSUME Inv, TypeOK', NEW a \in Files, TaskStep(a) \/ WorkerDies(a)
    PROVE  Inv'
<1> USE DEF Inv
<1>1. UNCHANGED <<database, disk, upload, download>>
  BY DEF TaskStep, ReadRow, OpenThumb, SaveThumb, TaskFails, WorkerDies
<1>2. /\ WrittenIsWhole' /\ RowsStored' /\ DownloadsStored' /\ MembersSeen' /\ ServedToMembers'
  BY <1>1 DEF database, WrittenIsWhole, RowsStored, DownloadsStored, MembersSeen,
      ServedToMembers, Stored, Past
<1>3. task[a].at # "none" /\ \A b \in Files \ {a} : task'[b] = task[b] /\ thumb'[b] = thumb[b]
  BY DEF TaskStep, ReadRow, OpenThumb, SaveThumb, TaskFails, WorkerDies, Become, TypeOK
<1>4. TaskAfterUpload'
  BY <1>1, <1>3 DEF TaskAfterUpload
<1>5. a \in rows \cap Images /\ task'[a].at = "done" => thumb'[a] = "whole"
  <2>1. task[a] \in Task
    BY DEF TypeOK
  <2>2. CASE ReadRow(a)
    BY <2>1, <2>2 DEF ReadRow, Become, TypeOK, Task, RowsStored, Stored
  <2>3. CASE OpenThumb(a) \/ WorkerDies(a)
    <3>1. /\ [task[a] EXCEPT !.at = "saving"].at = "saving"
          /\ [task[a] EXCEPT !.at = "queued"].at = "queued"
      BY <2>1 DEF Task
    <3>2. \/ task'[a] = [task[a] EXCEPT !.at = "saving"]
          \/ task'[a] = [task[a] EXCEPT !.at = "queued"]
      BY <2>3 DEF OpenThumb, WorkerDies, Become, TypeOK
    <3> QED
      BY <3>1, <3>2
  <2>4. CASE SaveThumb(a)
    BY <2>4 DEF SaveThumb, TypeOK
  <2>5. CASE TaskFails(a)
    <3>1. [task[a] EXCEPT !.at = "given up"].at = "given up"
      BY <2>1 DEF Task
    <3> DEFINE again == [at |-> "queued", tries |-> task[a].tries + 1]
               end == [task[a] EXCEPT !.at = "given up"]
    <3>2. again.at = "queued" /\ end.at = "given up"
      BY <3>1
    <3>3. \/ task' = [task EXCEPT ![a] = again]
          \/ task' = [task EXCEPT ![a] = end]
      BY <2>5 DEF TaskFails
    <3>4. DOMAIN task = Files
      BY DEF TypeOK
    <3> HIDE DEF again, end
    <3>5. task'[a] = again \/ task'[a] = end
      BY <3>3, <3>4
    <3> QED
      BY <3>2, <3>5
  <2> QED
    BY <2>2, <2>3, <2>4, <2>5 DEF TaskStep
<1>6. DoneMeansThumb'
  BY <1>1, <1>3, <1>5, ImagesAssumption DEF DoneMeansThumb, database, TypeOK
<1> QED
  BY <1>2, <1>4, <1>6

\* The download: what it has found stays, and who is let in has been seen.
LEMMA DownloadKeeps ==
    ASSUME Inv, TypeOK', NEW u \in Users,
           (\E a \in Files : FindRow(u, a)) \/ DownloadStep(u)
    PROVE  Inv'
<1> USE DEF Inv
<1>1. UNCHANGED <<database, disk, worker, upload>>
  BY DEF FindRow, DownloadStep, FindMessage, CheckMember, FindFile, Serve, Look, Refuse
<1>2. WrittenIsWhole' /\ RowsStored' /\ TaskAfterUpload' /\ DoneMeansThumb'
  BY <1>1 DEF database, worker, WrittenIsWhole, RowsStored, TaskAfterUpload, DoneMeansThumb,
      Stored, Past
<1>3. DownloadsStored' /\ MembersSeen' /\ ServedToMembers'
  <2>1. CASE \E a \in Files : FindRow(u, a)
    BY <1>1, <2>1 DEF FindRow, database, TypeOK, RowsStored, DownloadsStored, MembersSeen,
        ServedToMembers, Stored, Past
  <2>2. CASE DownloadStep(u)
    <3>1. download[u] \in Download /\ download[u].at # "away"
      BY <2>2 DEF DownloadStep, FindMessage, CheckMember, FindFile, Serve, Look, Refuse, TypeOK
    <3>2. /\ \A v \in Users \ {u} : download'[v] = download[v]
          /\ \/ download'[u] = Away
             \/ /\ download'[u].file = download[u].file /\ download'[u].seen = download[u].seen
                /\ download'[u].at \in {"allowed", "serving"} =>
                      u \in members \/ download[u].at \in {"allowed", "serving"}
      BY <2>2, <3>1 DEF DownloadStep, FindMessage, CheckMember, FindFile, Serve, Look, Refuse,
          TypeOK, Download
    <3>3. DownloadsStored'
      BY <1>1, <3>1, <3>2 DEF DownloadsStored, Stored, Past, Away
    <3>4. MembersSeen' /\ ServedToMembers'
      BY <1>1, <3>1, <3>2 DEF MembersSeen, ServedToMembers, Away, database
    <3> QED
      BY <3>3, <3>4
  <2> QED
    BY <2>1, <2>2
<1> QED
  BY <1>2, <1>3

\* The room: a member is seen by every download of theirs, and the rows only go.
LEMMA RoomKeeps ==
    ASSUME Inv, TypeOK', (\E u \in Users : MemberChanges(u)) \/ DeleteRoom
    PROVE  Inv'
<1> USE DEF Inv
<1>1. CASE \E u \in Users : MemberChanges(u)
  <2>1. UNCHANGED <<rows, disk, worker, upload>>
    BY <1>1 DEF MemberChanges
  <2>2. \A v \in Users :
           /\ download'[v].at = download[v].at
           /\ download[v].at # "away" =>
                 /\ download'[v].file = download[v].file
                 /\ download'[v].seen = (download[v].seen \/ v \in members')
    <3>1. \A v \in Users : download[v] \in Download
      BY DEF TypeOK
    <3>2. download' = [v \in Users |->
              IF download[v].at = "away" THEN Away
              ELSE [download[v] EXCEPT !.seen = @ \/ v \in members']]
      BY <1>1 DEF MemberChanges, Watch
    <3> QED
      BY <3>1, <3>2 DEF Away, Download
  <2>3. WrittenIsWhole' /\ RowsStored' /\ TaskAfterUpload' /\ DoneMeansThumb'
    BY <2>1 DEF worker, WrittenIsWhole, RowsStored, TaskAfterUpload, DoneMeansThumb, Stored, Past
  <2>4. DownloadsStored'
    BY <2>1, <2>2 DEF DownloadsStored, Stored, Past
  <2>5. MembersSeen' /\ ServedToMembers'
    BY <2>2 DEF MembersSeen, ServedToMembers
  <2> QED
    BY <2>3, <2>4, <2>5
<1>2. CASE DeleteRoom
  BY <1>2 DEF DeleteRoom, worker, WrittenIsWhole, RowsStored, DownloadsStored, MembersSeen,
      ServedToMembers, TaskAfterUpload, DoneMeansThumb, Stored, Past
<1> QED
  BY <1>1, <1>2

LEMMA StepInv == Inv /\ [Next]_vars => Inv'
<1> SUFFICES ASSUME Inv, [Next]_vars PROVE Inv'
  OBVIOUS
<1>1. TypeOK'
  BY StepTypeOK DEF Inv
<1>2. CASE UNCHANGED vars
  BY <1>2 DEF vars, database, worker, Inv, TypeOK, WrittenIsWhole, RowsStored, DownloadsStored,
      MembersSeen, ServedToMembers, TaskAfterUpload, DoneMeansThumb, Stored, Past
<1> QED
  BY <1>1, <1>2, UploadKeeps, TaskKeeps, DownloadKeeps, RoomKeeps DEF Next

LEMMA Invariance == Spec => []Inv
  BY InitInv, StepInv, PTL DEF Spec

\* Rows, files and the steps of every request keep their types.
THEOREM FilesTypeCorrect == Spec => []TypeOK
<1>1. Inv => TypeOK
  BY DEF Inv
<1> QED
  BY Invariance, <1>1, PTL

\* For any number of files, users, retries and faults, a committed row and a
\* download under way have the whole file.
THEOREM RowsHaveFiles == Spec => []RowHasFile
<1>1. Inv => RowHasFile
  BY DEF Inv, RowsStored, DownloadsStored, Stored, RowHasFile
<1> QED
  BY Invariance, <1>1, PTL

\* Every download that is let in was seen as a member's.
THEOREM FilesServedToMembers == Spec => []ServedToMembers
<1>1. Inv => ServedToMembers
  BY DEF Inv
<1> QED
  BY Invariance, <1>1, PTL

\* A task that is done has left the whole thumbnail of an image that has a row.
THEOREM DoneTasksLeaveThumbs == Spec => []DoneMeansThumb
<1>1. Inv => DoneMeansThumb
  BY DEF Inv
<1> QED
  BY Invariance, <1>1, PTL

-----------------------------------------------------------------------------
(* The order of messages, which commits keep *)

\* Every m of S is in the list, or older than its first message.
Covers(s, S) == \A m \in S : m \in Elements(s) \/ (s # <<>> /\ Older(m, s[1]))

\* A committed message has its time.
Stamped == \A m \in committed : time[m] # 0

\* A list that is empty was loaded when there was nothing.
ListFine ==
    /\ base \subseteq committed /\ Elements(list) \subseteq committed
    /\ list = <<>> => base = {}
    /\ NothingSkipped /\ PagesInOrder

\* What an answer holds.
Answered(r) ==
    /\ Ordered(req[r].rows)
    /\ req[r].before = Nothing => Covers(req[r].rows, req[r].had)
    /\ req[r].before # Nothing => \A m \in Elements(req[r].rows) : Older(m, req[r].before)
    /\ req[r].fresh => Covers(req[r].rows, {m \in base : Older(m, req[r].before)})

\* A request that is still for this list asked for what is before its first
\* message, and is the only one.
StillFresh(r) ==
    /\ req[r].at \in {"asked", "answered"} /\ req[r].before # Nothing
    /\ loading = r /\ list # <<>>
    /\ ~ crossed => req[r].before = list[1]

RequestFine(r) ==
    /\ req[r].before # Nothing => req[r].before \in committed
    /\ Elements(req[r].rows) \subseteq committed /\ req[r].had \subseteq committed
    /\ req[r].fresh => StillFresh(r)
    /\ req[r].at = "answered" => Answered(r)

HistoryInv ==
    /\ HistoryTypeOK /\ Stamped /\ ListFine
    /\ \A r \in Requests : RequestFine(r)

LEMMA OlderIsOrder ==
    ASSUME HistoryTypeOK, NEW a \in Messages, NEW b \in Messages, NEW c \in Messages
    PROVE  /\ Older(a, b) /\ Older(b, c) => Older(a, c)
           /\ a = b \/ Older(a, b) \/ Older(b, a)
BY MessagesAssumption, PageAssumption DEF HistoryTypeOK, Older

LEMMA ElementsOf ==
    ASSUME NEW S, NEW s \in Seq(S), NEW t \in Seq(S)
    PROVE  /\ Elements(<<>>) = {}
           /\ Elements(s \o t) = Elements(s) \cup Elements(t)
           /\ \A e \in S : Elements(Append(s, e)) = Elements(s) \cup {e}
           /\ s # <<>> => Len(s) # 0 /\ s[1] \in Elements(s) /\ s[1] \in S
           /\ s # <<>> => \A e \in S : Append(s, e)[1] = s[1]
           /\ s # <<>> => (s \o t)[1] = s[1]
           /\ Elements(s) \subseteq S
<1>1. Elements(<<>>) = {}
  BY DEF Elements
<1>2. Elements(s \o t) = Elements(s) \cup Elements(t)
  <2>1. /\ Len(s \o t) = Len(s) + Len(t) /\ DOMAIN (s \o t) = 1..Len(s \o t)
        /\ \A i \in 1..Len(s) : (s \o t)[i] = s[i]
        /\ \A i \in 1..Len(t) : (s \o t)[Len(s) + i] = t[i]
        /\ Len(s) \in Nat /\ Len(t) \in Nat
    BY ConcatProperties, LenProperties
  <2>2. \A x \in Elements(s \o t) : x \in Elements(s) \cup Elements(t)
    <3> SUFFICES ASSUME NEW i \in 1..Len(s \o t)
                 PROVE  (s \o t)[i] \in Elements(s) \cup Elements(t)
      BY <2>1 DEF Elements
    <3>1. i \in 1..Len(s) \/ i - Len(s) \in 1..Len(t)
      BY <2>1
    <3>2. i \in 1..Len(s) => (s \o t)[i] \in Elements(s)
      BY <2>1, LenProperties DEF Elements
    <3>3. i - Len(s) \in 1..Len(t) => (s \o t)[i] \in Elements(t)
      <4> SUFFICES ASSUME i - Len(s) \in 1..Len(t) PROVE (s \o t)[i] \in Elements(t)
        OBVIOUS
      <4>1. (s \o t)[Len(s) + (i - Len(s))] = t[i - Len(s)] /\ Len(s) + (i - Len(s)) = i
        BY <2>1
      <4> QED
        BY <4>1, LenProperties DEF Elements
    <3> QED
      BY <3>1, <3>2, <3>3
  <2>3. \A x \in Elements(s) : x \in Elements(s \o t)
    BY <2>1, LenProperties DEF Elements
  <2>4. \A x \in Elements(t) : x \in Elements(s \o t)
    <3> SUFFICES ASSUME NEW i \in 1..Len(t) PROVE t[i] \in Elements(s \o t)
      BY LenProperties DEF Elements
    <3>1. Len(s) + i \in DOMAIN (s \o t) /\ (s \o t)[Len(s) + i] = t[i]
      BY <2>1
    <3> QED
      BY <3>1 DEF Elements
  <2> QED
    BY <2>2, <2>3, <2>4
<1>3. \A e \in S : Elements(Append(s, e)) = Elements(s) \cup {e}
  BY AppendProperties, LenProperties DEF Elements
<1>4. s # <<>> => Len(s) # 0 /\ 1 \in 1..Len(s) /\ s[1] \in Elements(s) /\ s[1] \in S
  BY LenProperties, EmptySeq DEF Elements
<1>5. s # <<>> => (\A e \in S : Append(s, e)[1] = s[1]) /\ (s \o t)[1] = s[1]
  BY <1>4, AppendProperties, ConcatProperties
<1>6. Elements(s) \subseteq S
  BY LenProperties, ElementOfSeq DEF Elements
<1> QED
  BY <1>1, <1>2, <1>3, <1>4, <1>5, <1>6

\* Once committed, a message stays so and keeps its place in the order.
LEMMA OrderKept ==
    ASSUME HistoryTypeOK, Stamped, [HistoryNext]_historyVars
    PROVE  /\ committed \subseteq committed'
           /\ \A m \in committed : time'[m] = time[m]
           /\ \A m, n \in committed : Older(m, n)' <=> Older(m, n)
<1>1. committed \subseteq committed' /\ \A m \in committed : time'[m] = time[m]
  <2>1. CASE UNCHANGED tableVars
    BY <2>1 DEF tableVars
  <2>2. ASSUME NEW m \in Messages, Flush(m)
        PROVE  committed' = committed /\ \A n \in committed : time'[n] = time[n]
    BY <2>2 DEF Flush, HistoryTypeOK, Stamped
  <2>3. ASSUME NEW m \in Messages, Commit(m)
        PROVE  committed \subseteq committed' /\ time' = time
    BY <2>3 DEF Commit
  <2> QED
    BY <2>1, <2>2, <2>3 DEF HistoryNext, historyVars, Leave, Hear, Open, Scroll, Answer,
       FirstPageArrives, OlderPageArrives, Fails
<1> QED
  BY <1>1 DEF Older

-----------------------------------------------------------------------------
(* What a step leaves alone stays fine *)

LEMMA CoversKept ==
    ASSUME NEW s \in Seq(Messages), NEW S,
           Elements(s) \subseteq committed, S \subseteq committed,
           \A m \in committed : time'[m] = time[m], Covers(s, S)
    PROVE  \A m \in S : m \in Elements(s) \/ (s # <<>> /\ Older(m, s[1])')
<1>1. s # <<>> => s[1] \in committed
  BY LenProperties, EmptySeq DEF Elements
<1> QED
  BY <1>1 DEF Covers, Older

\* The list, while only the tables change.
LEMMA ListKept ==
    ASSUME HistoryInv, committed \subseteq committed',
           \A m \in committed : time'[m] = time[m], UNCHANGED listVars
    PROVE  ListFine'
<1>1. list' = list /\ paged' = paged /\ base' = base /\ crossed' = crossed
  BY DEF listVars
<1>2. /\ list \in Seq(Messages) /\ paged \in 0..Len(list)
      /\ base \subseteq committed /\ Elements(list) \subseteq committed
      /\ list = <<>> => base = {}
  BY DEF HistoryInv, HistoryTypeOK, ListFine
<1>3. NothingSkipped'
  <2>1. ~ crossed /\ list # <<>> => Covers(list, base)
    BY DEF HistoryInv, ListFine, NothingSkipped, Covers
  <2> QED
    BY <1>1, <1>2, <2>1, CoversKept DEF NothingSkipped, Elements
<1>4. PagesInOrder'
  <2>1. \A i \in 1..paged : list[i] \in committed
    BY <1>2, LenProperties DEF Elements
  <2> QED
    BY <1>1, <2>1 DEF HistoryInv, ListFine, PagesInOrder, Older
<1> QED
  BY <1>1, <1>2, <1>3, <1>4 DEF ListFine, Elements

\* A request that the step may at most make stale.
LEMMA RequestKept ==
    ASSUME HistoryInv, committed \subseteq committed',
           \A m \in committed : time'[m] = time[m],
           NEW r \in Requests,
           req'[r].at = req[r].at, req'[r].before = req[r].before,
           req'[r].rows = req[r].rows, req'[r].had = req[r].had,
           req'[r].fresh => req[r].fresh /\ StillFresh(r)' /\ base' = base
    PROVE  RequestFine(r)'
<1> DEFINE h == req[r]
<1>1. /\ h \in Request /\ base \subseteq committed /\ RequestFine(r)
      /\ committed \subseteq Messages
  BY DEF HistoryInv, HistoryTypeOK, ListFine
<1>2. /\ h.rows \in Seq(Messages) /\ Elements(h.rows) \subseteq committed
      /\ h.had \subseteq committed /\ (h.before # Nothing => h.before \in committed)
  BY <1>1 DEF RequestFine, Request
<1>3. h.at = "answered" => Answered(r)'
  <2> SUFFICES ASSUME Answered(r) PROVE Answered(r)'
    BY <1>1 DEF RequestFine
  <2>1. Ordered(h.rows)'
    <3>1. \A i \in DOMAIN h.rows : h.rows[i] \in committed
      BY <1>2 DEF Elements
    <3> QED
      BY <3>1 DEF Answered, Ordered, Older
  <2>2. h.before = Nothing => Covers(req[r].rows, req[r].had)'
    <3>1. h.before = Nothing => Covers(h.rows, h.had)
      BY DEF Answered
    <3> QED
      BY <1>2, <3>1, CoversKept DEF Covers, Elements
  <2>3. h.before # Nothing => \A m \in Elements(h.rows) : Older(m, h.before)'
    BY <1>2 DEF Answered, Older
  <2>4. req'[r].fresh => Covers(req[r].rows, {m \in base : Older(m, req[r].before)})'
    <3> SUFFICES ASSUME req'[r].fresh
                 PROVE  Covers(req[r].rows, {m \in base : Older(m, req[r].before)})'
      OBVIOUS
    <3> DEFINE S == {m \in base : Older(m, h.before)}
    <3>1. Covers(h.rows, S) /\ base' = base /\ S \subseteq committed
      BY <1>1 DEF Answered
    <3>2. h.before \in committed
      BY <1>2 DEF StillFresh
    <3>3. \A m \in base : Older(m, h.before)' <=> Older(m, h.before)
      BY <1>1, <3>2 DEF Older
    <3>4. \A m \in S : m \in Elements(h.rows) \/ (h.rows # <<>> /\ Older(m, h.rows[1])')
      BY <1>2, <3>1, CoversKept
    <3> QED
      BY <3>1, <3>3, <3>4 DEF Covers, Elements, Older
  <2> QED
    BY <2>1, <2>2, <2>3, <2>4 DEF Answered, Ordered, Elements, Older
<1> QED
  BY <1>1, <1>2, <1>3 DEF RequestFine, Elements

-----------------------------------------------------------------------------
(* The steps *)

LEMMA HistoryInitInv == HistoryInit => HistoryInv
<1> SUFFICES ASSUME HistoryInit
             PROVE  HistoryInv
  OBVIOUS
<1>1. HistoryTypeOK
  <2>1. <<>> \in Seq(Messages) /\ Len(<<>>) = 0
    BY EmptySeq
  <2>2. Unused \in Request
    BY <2>1 DEF Request, Unused
  <2>3. 1 \in 1..MaxTime /\ 0 \in 0..MaxTime
    BY PageAssumption
  <2>4. paged \in 0..Len(list) /\ list \in Seq(Messages)
    BY <2>1 DEF HistoryInit
  <2>5. req \in [Requests -> Request] /\ time \in [Messages -> 0..MaxTime]
    BY <2>2, <2>3 DEF HistoryInit
  <2> QED
    BY <2>3, <2>4, <2>5 DEF HistoryInit, HistoryTypeOK
<1>2. Stamped /\ ListFine
  BY DEF HistoryInit, Stamped, ListFine, NothingSkipped, PagesInOrder, Elements
<1>3. \A r \in Requests : RequestFine(r)
  BY DEF HistoryInit, Unused, RequestFine, Elements
<1> QED
  BY <1>1, <1>2, <1>3 DEF HistoryInv

\* The types, action by action.
LEMMA HistoryStepTypeOK == HistoryTypeOK /\ [HistoryNext]_historyVars => HistoryTypeOK'
<1> SUFFICES ASSUME HistoryTypeOK, [HistoryNext]_historyVars
             PROVE  HistoryTypeOK'
  OBVIOUS
<1> USE DEF HistoryTypeOK, tableVars, listVars
<1>1. CASE UNCHANGED historyVars
  BY <1>1 DEF historyVars
<1>2. CASE Leave
  BY <1>2 DEF Leave
<1>3. ASSUME NEW m \in Messages, Flush(m)
      PROVE  HistoryTypeOK'
  <2>1. clock' \in clock..MaxTime /\ clock' \in 1..MaxTime /\ clock' \in 0..MaxTime
    BY <1>3, PageAssumption DEF Flush
  <2> QED
    BY <1>3, <2>1 DEF Flush
<1>4. ASSUME NEW m \in Messages, Commit(m)
      PROVE  HistoryTypeOK'
  BY <1>4 DEF Commit
<1>5. ASSUME NEW m \in Messages, Hear(m)
      PROVE  HistoryTypeOK'
  <2>1. list' \in Seq(Messages) /\ Len(list') = Len(list) + 1
    BY <1>5, AppendProperties DEF Hear
  <2>2. paged \in 0..Len(list')
    BY <2>1, LenProperties
  <2> QED
    BY <1>5, <2>1, <2>2 DEF Hear
<1>6. ASSUME NEW r \in Requests, Open(r) \/ Scroll(r) \/ Answer(r) \/ Fails(r)
      PROVE  HistoryTypeOK'
  <2>1. req[r] \in Request /\ Unused \in Request /\ Used \in Request
    BY EmptySeq DEF Request, Unused, Used
  <2>2. CASE Open(r)
    <3>1. \A q \in Requests : Stale[q] \in Request
      BY DEF Stale, Request
    <3>2. [Stale[r] EXCEPT !.at = "asked"] \in Request
      BY <3>1 DEF Request
    <3>3. req' = [Stale EXCEPT ![r] = [Stale[r] EXCEPT !.at = "asked"]]
      BY <2>2 DEF Open
    <3>4. Stale \in [Requests -> Request]
      BY <3>1 DEF Stale
    <3> QED
      BY <2>2, <3>2, <3>3, <3>4 DEF Open
  <2>3. CASE Scroll(r)
    <3>1. list[1] \in Messages
      <4>1. 1 \in 1..Len(list)
        BY <2>3, PageAssumption, LenProperties DEF Scroll
      <4> QED
        BY <4>1, ElementOfSeq
    <3>2. [req[r] EXCEPT !.at = "asked", !.before = list[1], !.fresh = TRUE] \in Request
      BY <2>1, <3>1 DEF Request
    <3>3. req' = [req EXCEPT ![r] =
             [req[r] EXCEPT !.at = "asked", !.before = list[1], !.fresh = TRUE]]
      BY <2>3 DEF Scroll, Ask
    <3> QED
      BY <2>3, <3>2, <3>3 DEF Scroll
  <2>4. CASE Answer(r)
    <3>1. PICK page \in Lists :
             req' = [req EXCEPT ![r].at = "answered", ![r].rows = page,
                        ![r].had = IF req[r].before = Nothing THEN committed ELSE {}]
      BY <2>4 DEF Answer
    <3>2. page \in Seq(Messages)
      <4>1. PICK n \in 0..PageSize : page \in [1..n -> committed]
        BY DEF Lists
      <4>2. n \in Nat /\ \A i \in 1..n : page[i] \in Messages
        BY <4>1, PageAssumption
      <4> QED
        BY <4>1, <4>2, IsASeq
    <3> DEFINE had == IF req[r].before = Nothing THEN committed ELSE {}
               h == [req[r] EXCEPT !.at = "answered", !.rows = page, !.had = had]
    <3>3. h \in Request
      BY <2>1, <3>2 DEF Request
    <3>4. req' = [req EXCEPT ![r] = h]
      BY <3>1
    <3> QED
      BY <2>4, <3>3, <3>4 DEF Answer
  <2>5. CASE Fails(r)
    BY <2>1, <2>5 DEF Fails, Use
  <2> QED
    BY <1>6, <2>2, <2>3, <2>4, <2>5
<1>7. ASSUME NEW r \in Requests, FirstPageArrives(r)
      PROVE  HistoryTypeOK'
  <2>1. \A q \in Requests : Stale[q] \in Request
    BY DEF Stale, Request
  <2>2. Used \in Request /\ req[r] \in Request
    BY EmptySeq DEF Request, Unused, Used
  <2>3. req' \in [Requests -> Request]
    BY <1>7, <2>1, <2>2 DEF FirstPageArrives, Stale
  <2>4. list' \in Seq(Messages) /\ paged' \in 0..Len(list') /\ base' \subseteq Messages
    BY <1>7, <2>2, LenProperties DEF FirstPageArrives, Request
  <2> QED
    BY <1>7, <2>3, <2>4 DEF FirstPageArrives
<1>8. ASSUME NEW r \in Requests, OlderPageArrives(r)
      PROVE  HistoryTypeOK'
  <2>1. Used \in Request /\ req[r].rows \in Seq(Messages)
    BY EmptySeq DEF Request, Unused, Used
  <2>2. list' \in Seq(Messages) /\ Len(list') = Len(req[r].rows) + Len(list)
    BY <1>8, <2>1, ConcatProperties DEF OlderPageArrives
  <2>3. paged' \in 0..Len(list')
    BY <1>8, <2>1, <2>2, LenProperties DEF OlderPageArrives
  <2> QED
    BY <1>8, <2>1, <2>2, <2>3 DEF OlderPageArrives, Use
<1> QED
  BY <1>1, <1>2, <1>3, <1>4, <1>5, <1>6, <1>7, <1>8 DEF HistoryNext

\* Steps of the tables, and of a page that only leaves.
LEMMA TablesInv ==
    ASSUME HistoryInv, HistoryTypeOK', committed \subseteq committed',
           \A m \in committed : time'[m] = time[m], Stamped',
           UNCHANGED <<listVars, loading, req>>
    PROVE  HistoryInv'
<1>1. ListFine'
  BY ListKept
<1>2. ASSUME NEW r \in Requests
      PROVE  RequestFine(r)'
  <2>1. req'[r].fresh => StillFresh(r)'
    BY DEF HistoryInv, RequestFine, StillFresh, listVars
  <2> QED
    BY <2>1, RequestKept DEF listVars
<1> QED
  BY <1>1, <1>2 DEF HistoryInv

LEMMA FlushStamps ==
    ASSUME HistoryInv, NEW m \in Messages, Flush(m) \/ Commit(m)
    PROVE  Stamped'
BY PageAssumption DEF HistoryInv, HistoryTypeOK, Stamped, Flush, Commit

LEMMA HearInv ==
    ASSUME HistoryInv, HistoryTypeOK', NEW m \in Messages, Hear(m)
    PROVE  HistoryInv'
<1>1. /\ list \in Seq(Messages) /\ paged \in 0..Len(list) /\ m \in committed
      /\ list' = Append(list, m) /\ UNCHANGED <<tableVars, paged, base, crossed, loading, req>>
  BY DEF HistoryInv, HistoryTypeOK, Hear
<1>2. time' = time /\ committed' = committed
  BY <1>1 DEF tableVars
<1>3. /\ Elements(list') = Elements(list) \cup {m} /\ list' # <<>>
      /\ list # <<>> => list'[1] = list[1]
  BY <1>1, ElementsOf, AppendProperties
<1>4. ListFine'
  <2>1. NothingSkipped'
    <3>1. CASE list = <<>>
      BY <1>1, <3>1 DEF HistoryInv, ListFine, NothingSkipped
    <3>2. CASE list # <<>>
      BY <1>1, <1>2, <1>3, <3>2 DEF HistoryInv, ListFine, NothingSkipped, Elements, Older
    <3> QED
      BY <3>1, <3>2
  <2>2. PagesInOrder'
    <3>1. \A i \in 1..paged : list'[i] = list[i]
      BY <1>1, AppendProperties, LenProperties
    <3> QED
      BY <1>1, <1>2, <3>1 DEF HistoryInv, ListFine, PagesInOrder, Older
  <2> QED
    BY <1>1, <1>2, <1>3, <2>1, <2>2 DEF HistoryInv, ListFine, Elements
<1>5. ASSUME NEW r \in Requests
      PROVE  RequestFine(r)'
  <2>1. req'[r].fresh => StillFresh(r)'
    BY <1>1, <1>3 DEF HistoryInv, RequestFine, StillFresh
  <2> QED
    BY <1>1, <1>2, <2>1, RequestKept
<1> QED
  BY <1>2, <1>4, <1>5 DEF HistoryInv, Stamped

\* Steps that only use a request; what was fresh may become stale.
LEMMA UseInv ==
    ASSUME HistoryInv, HistoryTypeOK', NEW r \in Requests,
           UNCHANGED <<tableVars, listVars>>, RequestFine(r)',
           \A q \in Requests \ {r} :
              /\ req'[q].at = req[q].at /\ req'[q].before = req[q].before
              /\ req'[q].rows = req[q].rows /\ req'[q].had = req[q].had
              /\ req'[q].fresh => req[q].fresh /\ loading' = loading
    PROVE  HistoryInv'
<1>1. time' = time /\ committed' = committed
  BY DEF tableVars
<1>2. ListFine'
  BY <1>1, ListKept
<1>3. ASSUME NEW q \in Requests \ {r}
      PROVE  RequestFine(q)'
  <2>1. req'[q].fresh => StillFresh(q)'
    BY DEF HistoryInv, RequestFine, StillFresh, listVars
  <2> QED
    BY <1>1, <2>1, RequestKept DEF listVars
<1> QED
  BY <1>1, <1>2, <1>3 DEF HistoryInv, Stamped

\* No other request is fresh beside the one behind loadingMore.
LEMMA OneFresh ==
    ASSUME HistoryInv, NEW r \in Requests, loading = Nothing \/ loading # r
    PROVE  ~ req[r].fresh
BY RequestsAssumption DEF HistoryInv, RequestFine, StillFresh, HistoryTypeOK, Request

LEMMA OpenInv ==
    ASSUME HistoryInv, HistoryTypeOK', NEW r \in Requests, Open(r)
    PROVE  HistoryInv'
<1>1. /\ req' = [Stale EXCEPT ![r].at = "asked"] /\ UNCHANGED <<tableVars, listVars>>
      /\ req[r].at = "unused" /\ \A q \in Requests : req[q] \in Request
  BY DEF Open, Upcoming, HistoryInv, HistoryTypeOK
<1>2. \A q \in Requests :
         /\ Stale[q].at = req[q].at /\ Stale[q].before = req[q].before
         /\ Stale[q].rows = req[q].rows /\ Stale[q].had = req[q].had
         /\ Stale[q].fresh = FALSE
  BY <1>1 DEF Stale, Request
<1> DEFINE h == [Stale[r] EXCEPT !.at = "asked"]
<1>3. Stale[r] \in Request
  BY <1>1 DEF Stale, Request
<1>4. /\ h.at = "asked" /\ h.before = req[r].before /\ h.fresh = FALSE
      /\ h.rows = req[r].rows /\ h.had = req[r].had
  BY <1>3, <1>2 DEF Request
<1>5. req' = [Stale EXCEPT ![r] = h] /\ DOMAIN Stale = Requests
  BY <1>1 DEF Stale
<1>6. req'[r] = h /\ \A q \in Requests \ {r} : req'[q] = Stale[q]
  BY <1>5
<1> HIDE DEF h
<1>7. \A q \in Requests :
         /\ q # r => req'[q].at = req[q].at
         /\ req'[q].before = req[q].before
         /\ req'[q].rows = req[q].rows /\ req'[q].had = req[q].had
         /\ req'[q].fresh = FALSE
  BY <1>2, <1>4, <1>6
<1>8. req'[r].at = "asked"
  BY <1>4, <1>6
<1>9. RequestFine(r)'
  BY <1>1, <1>7, <1>8 DEF HistoryInv, RequestFine, tableVars, Elements
<1> QED
  BY <1>1, <1>7, <1>9, UseInv

LEMMA ScrollInv ==
    ASSUME HistoryInv, HistoryTypeOK', NEW r \in Requests, Scroll(r)
    PROVE  HistoryInv'
<1> DEFINE h == [req[r] EXCEPT !.at = "asked", !.before = list[1], !.fresh = TRUE]
<1>1. /\ req' = [req EXCEPT ![r] = h] /\ UNCHANGED <<tableVars, listVars>>
      /\ loading = Nothing /\ loading' = r /\ list # <<>>
      /\ req[r] \in Request /\ list \in Seq(Messages)
  <2>1. req' = [req EXCEPT ![r] = h]
    BY DEF Scroll, Ask
  <2>2. list # <<>>
    BY PageAssumption, EmptySeq DEF Scroll
  <2> QED
    BY <2>1, <2>2 DEF Scroll, HistoryInv, HistoryTypeOK
<1>2. /\ h.at = "asked" /\ h.before = list[1] /\ h.fresh = TRUE
      /\ h.rows = req[r].rows /\ h.had = req[r].had
  BY <1>1 DEF Request
<1>3. list[1] \in committed /\ list[1] # Nothing
  <2>1. list[1] \in Elements(list) /\ list[1] \in Messages
    BY <1>1, LenProperties, EmptySeq DEF Elements
  <2> QED
    BY <2>1, MessagesAssumption DEF HistoryInv, ListFine
<1>4. req'[r] = h /\ \A q \in Requests \ {r} : req'[q] = req[q]
  BY <1>1 DEF HistoryInv, HistoryTypeOK
<1> HIDE DEF h
<1>5. RequestFine(r)'
  BY <1>1, <1>2, <1>3, <1>4 DEF HistoryInv, RequestFine, StillFresh, tableVars, listVars, Elements
<1>6. \A q \in Requests \ {r} : ~ req'[q].fresh
  BY <1>1, <1>4, OneFresh
<1> QED
  BY <1>1, <1>4, <1>5, <1>6, UseInv

LEMMA AnswerInv ==
    ASSUME HistoryInv, HistoryTypeOK', NEW r \in Requests, Answer(r)
    PROVE  HistoryInv'
<1> DEFINE before == req[r].before
           had == IF before = Nothing THEN committed ELSE {}
<1>1. PICK page \in Lists :
         /\ Page(page, before)
         /\ req' = [req EXCEPT ![r].at = "answered", ![r].rows = page, ![r].had = had]
  BY DEF Answer
<1> DEFINE h == [req[r] EXCEPT !.at = "answered", !.rows = page, !.had = had]
<1>2. /\ req[r] \in Request /\ UNCHANGED <<tableVars, listVars>> /\ loading' = loading
      /\ req[r].at = "asked" /\ RequestFine(r)
      /\ base \subseteq committed /\ committed \subseteq Messages
  BY DEF Answer, HistoryInv, HistoryTypeOK, ListFine
<1>3. /\ h.at = "answered" /\ h.before = before /\ h.fresh = req[r].fresh
      /\ h.rows = page /\ h.had = had
  BY <1>2 DEF Request
<1>4. req'[r] = h /\ \A q \in Requests \ {r} : req'[q] = req[q]
  BY <1>1 DEF HistoryInv, HistoryTypeOK
<1>5. PICK n \in 0..PageSize : page \in [1..n -> committed]
  BY DEF Lists
<1>6. Len(page) = n /\ page \in Seq(committed) /\ (page = <<>> => n = 0)
  <2>1. n \in Nat /\ \A i \in 1..n : page[i] \in committed
    BY <1>5, PageAssumption
  <2>2. page \in Seq(committed) /\ DOMAIN page = 1..n
    BY <1>5, <2>1, IsASeq
  <2>3. Len(page) = n
    BY <2>1, <2>2, LenProperties
  <2> QED
    BY <2>2, <2>3, EmptySeq
<1>7. /\ Ordered(page) /\ Elements(page) \subseteq committed
      /\ \A m \in Elements(page) : BeforeCursor(m, before)
      /\ \A m \in committed : BeforeCursor(m, before) =>
            m \in Elements(page) \/ (page # <<>> /\ Older(m, page[1]))
  BY <1>1, <1>6, PageAssumption DEF Page, Asked
<1>8. /\ before = Nothing => \A m \in committed : BeforeCursor(m, before)
      /\ before # Nothing => \A m \in committed : BeforeCursor(m, before) <=> Older(m, before)
  BY DEF BeforeCursor, Older
<1> HIDE DEF h
<1>9. RequestFine(r)'
  <2>1. /\ before # Nothing => before \in committed
        /\ req[r].fresh => StillFresh(r)
    BY <1>2 DEF RequestFine
  <2>2. time' = time /\ committed' = committed /\ base' = base /\ list' = list /\ crossed' = crossed
    BY <1>2 DEF tableVars, listVars
  <2>3. req'[r].fresh => StillFresh(r)'
    BY <1>2, <1>3, <1>4, <2>1, <2>2 DEF StillFresh
  <2>4. Answered(r)'
    <3>1. req[r].fresh => before # Nothing
      BY <2>1 DEF StillFresh
    <3>2. /\ before = Nothing => Covers(page, had)
          /\ before # Nothing => \A m \in Elements(page) : Older(m, before)
          /\ req[r].fresh => Covers(page, {m \in base : Older(m, before)})
      BY <1>2, <1>7, <1>8, <3>1 DEF Covers
    <3> QED
      BY <1>3, <1>4, <2>2, <1>7, <3>2 DEF Answered, Covers, Ordered, Older, Elements
  <2> QED
    BY <1>3, <1>4, <1>7, <2>1, <2>2, <2>3, <2>4 DEF RequestFine, Elements
<1> QED
  BY <1>2, <1>4, <1>9, UseInv

\* A request that is over has nothing to be wrong about.
LEMMA UsedFine ==
    ASSUME NEW r \in Requests, req'[r] = Used
    PROVE  RequestFine(r)'
<1>1. /\ Used.at = "used" /\ Used.before = Nothing /\ Used.rows = <<>>
      /\ Used.had = {} /\ Used.fresh = FALSE
  BY DEF Used, Unused
<1> QED
  BY <1>1 DEF RequestFine, Elements

LEMMA FailsInv ==
    ASSUME HistoryInv, HistoryTypeOK', NEW r \in Requests, Fails(r)
    PROVE  HistoryInv'
<1>1. /\ req'[r] = Used /\ \A q \in Requests \ {r} : req'[q] = req[q]
      /\ UNCHANGED <<tableVars, listVars>> /\ loading' = loading
  BY DEF Fails, Use, HistoryInv, HistoryTypeOK
<1>2. RequestFine(r)'
  BY <1>1, UsedFine
<1> QED
  BY <1>1, <1>2, UseInv

LEMMA FirstPageArrivesInv ==
    ASSUME HistoryInv, HistoryTypeOK', NEW r \in Requests, FirstPageArrives(r)
    PROVE  HistoryInv'
<1> DEFINE page == req[r].rows
<1>1. /\ req' = [Stale EXCEPT ![r] = Used] /\ UNCHANGED tableVars
      /\ list' = page /\ paged' = Len(page) /\ base' = req[r].had /\ crossed' = FALSE
      /\ \A q \in Requests : req[q] \in Request
      /\ req[r].at = "answered" /\ req[r].before = Nothing /\ RequestFine(r)
  BY DEF FirstPageArrives, HistoryInv, HistoryTypeOK
<1>2. time' = time /\ committed' = committed
  BY <1>1 DEF tableVars
<1>3. /\ Ordered(page) /\ Covers(page, req[r].had) /\ page \in Seq(Messages)
      /\ Elements(page) \subseteq committed /\ req[r].had \subseteq committed
  BY <1>1 DEF RequestFine, Answered, Request
<1>4. ListFine'
  <2>1. NothingSkipped'
    BY <1>1, <1>2, <1>3 DEF NothingSkipped, Covers, Elements, Older
  <2>2. PagesInOrder'
    BY <1>1, <1>2, <1>3, LenProperties DEF PagesInOrder, Ordered, Older
  <2>3. page = <<>> => req[r].had = {}
    BY <1>3 DEF Covers, Elements
  <2> QED
    BY <1>1, <1>2, <1>3, <2>1, <2>2, <2>3 DEF ListFine, Elements
<1>5. ASSUME NEW q \in Requests \ {r}
      PROVE  RequestFine(q)'
  <2>1. /\ Stale[q].at = req[q].at /\ Stale[q].before = req[q].before
        /\ Stale[q].rows = req[q].rows /\ Stale[q].had = req[q].had
        /\ Stale[q].fresh = FALSE
    BY <1>1 DEF Stale, Request
  <2>2. req'[q] = Stale[q]
    BY <1>1 DEF Stale
  <2> QED
    BY <1>2, <2>1, <2>2, RequestKept
<1>6. RequestFine(r)'
  <2>1. req'[r] = Used
    BY <1>1 DEF Stale
  <2> QED
    BY <2>1, UsedFine
<1> QED
  BY <1>2, <1>4, <1>5, <1>6 DEF HistoryInv, Stamped

\* A page goes before the list it belongs to, or the list is crossed.
LEMMA OlderPageArrivesInv ==
    ASSUME HistoryInv, HistoryTypeOK', NEW r \in Requests, OlderPageArrives(r)
    PROVE  HistoryInv'
<1> DEFINE page == req[r].rows
<1>1. /\ req'[r] = Used /\ \A q \in Requests \ {r} : req'[q] = req[q]
      /\ req[r].at = "answered" /\ req[r].before # Nothing
      /\ list' = page \o list /\ paged' = paged + Len(page)
      /\ crossed' = (crossed \/ ~ req[r].fresh) /\ base' = base
      /\ loading' = IF loading = r THEN Nothing ELSE loading
  BY DEF OlderPageArrives, Use, HistoryInv, HistoryTypeOK
<1>2. time' = time /\ committed' = committed
  BY DEF OlderPageArrives, tableVars
<1>3. /\ RequestFine(r) /\ page \in Seq(Messages) /\ list \in Seq(Messages)
      /\ paged \in 0..Len(list) /\ Elements(page) \subseteq committed
      /\ Elements(list) \subseteq committed /\ base \subseteq committed
      /\ committed \subseteq Messages
      /\ list = <<>> => base = {}
  BY DEF HistoryInv, HistoryTypeOK, Request, RequestFine, ListFine
<1>4. /\ Elements(list') = Elements(page) \cup Elements(list)
      /\ page # <<>> => list' # <<>> /\ list'[1] = page[1] /\ page[1] \in committed
      /\ page = <<>> => list' = list
      /\ list # <<>> => list' # <<>> /\ list[1] \in committed
  <2> HIDE DEF page
  <2>1. Elements(list') = Elements(page) \cup Elements(list)
    BY <1>1, <1>3, ElementsOf
  <2>2. Len(list') = Len(page) + Len(list) /\ Len(page) \in Nat /\ Len(list) \in Nat
    BY <1>1, <1>3, ConcatProperties, LenProperties
  <2>3. /\ page # <<>> => Len(page) # 0 /\ list'[1] = page[1] /\ page[1] \in Elements(page)
        /\ list # <<>> => Len(list) # 0 /\ list[1] \in Elements(list)
    BY <1>1, <1>3, ElementsOf
  <2>4. page = <<>> => list' = list
    BY <1>1, <1>3
  <2> QED
    BY <1>3, <2>1, <2>2, <2>3, <2>4, EmptySeq
<1>5. /\ Ordered(page) /\ \A m \in Elements(page) : Older(m, req[r].before)
      /\ req[r].fresh => Covers(page, {m \in base : Older(m, req[r].before)})
      /\ req[r].fresh => StillFresh(r)
  BY <1>1, <1>3 DEF RequestFine, Answered
<1>6. ASSUME ~ crossed'
      PROVE  /\ ~ crossed /\ req[r].fresh /\ list # <<>> /\ req[r].before = list[1]
  BY <1>1, <1>5, <1>6 DEF StillFresh
<1>7. NothingSkipped'
  <2> SUFFICES ASSUME ~ crossed', NEW m \in base
               PROVE  m \in Elements(list') \/ Older(m, list'[1])
    BY <1>1, <1>2 DEF NothingSkipped, Elements, Older
  <2>1. m \in Elements(list) \/ Older(m, list[1])
    BY <1>6 DEF HistoryInv, ListFine, NothingSkipped
  <2>2. Older(m, list[1]) => m \in Elements(page) \/ (page # <<>> /\ Older(m, page[1]))
    BY <1>5, <1>6 DEF Covers
  <2> QED
    BY <1>4, <2>1, <2>2
<1>8. PagesInOrder'
  <2> SUFFICES ASSUME ~ crossed', NEW i \in 1..paged', NEW j \in 1..paged', i < j
               PROVE  Older(list'[i], list'[j])
    BY <1>2 DEF PagesInOrder, Older
  <2> DEFINE n == Len(page)
  <2>1. /\ n \in Nat /\ DOMAIN page = 1..n /\ paged \in Nat /\ paged \in 0..Len(list)
        /\ DOMAIN list = 1..Len(list) /\ Len(list) \in Nat
    BY <1>3, LenProperties
  <2>2. /\ \A k \in 1..n : list'[k] = page[k]
        /\ \A k \in 1..Len(list) : list'[n + k] = list[k]
    BY <1>1, <1>3, ConcatProperties
  <2>3. i \in 1..(paged + n) /\ j \in 1..(paged + n)
    BY <1>1
  <2> HIDE DEF n
  <2>4. CASE i \in 1..n /\ j \in 1..n
    BY <1>5, <2>1, <2>2, <2>4 DEF Ordered
  <2>5. CASE i \notin 1..n /\ j \notin 1..n
    <3>1. i - n \in 1..paged /\ j - n \in 1..paged /\ i - n < j - n
      BY <2>1, <2>3, <2>5
    <3>2. list'[i] = list[i - n] /\ list'[j] = list[j - n]
      <4>1. n + (i - n) = i /\ n + (j - n) = j /\ i - n \in 1..Len(list) /\ j - n \in 1..Len(list)
        BY <2>1, <2>3, <3>1
      <4> QED
        BY <2>2, <4>1
    <3> QED
      BY <1>6, <3>1, <3>2 DEF HistoryInv, ListFine, PagesInOrder
  <2>6. CASE i \in 1..n /\ j \notin 1..n
    <3>1. Older(list'[i], list[1]) /\ list'[i] \in Messages
      BY <1>3, <1>5, <1>6, <2>1, <2>2, <2>6 DEF Elements
    <3>2. j - n \in 1..paged /\ j - n \in 1..Len(list) /\ n + (j - n) = j /\ 1 \in 1..paged
      BY <2>1, <2>3, <2>6
    <3>3. list'[j] = list[j - n] /\ list[j - n] \in Messages /\ list[1] \in Messages
      BY <1>3, <1>4, <1>6, <2>1, <2>2, <3>2 DEF Elements
    <3>4. j - n = 1 \/ Older(list[1], list[j - n])
      BY <1>6, <3>2 DEF HistoryInv, ListFine, PagesInOrder
    <3> QED
      BY <3>1, <3>3, <3>4, OlderIsOrder DEF HistoryInv
  <2>7. ~ (i \notin 1..n /\ j \in 1..n)
    BY <2>1, <2>3
  <2> QED
    BY <2>4, <2>5, <2>6, <2>7
<1>9. ListFine'
  BY <1>1, <1>2, <1>3, <1>4, <1>7, <1>8 DEF ListFine, Elements
<1>10. ASSUME NEW q \in Requests \ {r}
       PROVE  RequestFine(q)'
  <2>1. req[q].fresh => StillFresh(q)'
    <3> SUFFICES ASSUME req[q].fresh PROVE StillFresh(q)'
      OBVIOUS
    <3>1. StillFresh(q)
      BY DEF HistoryInv, RequestFine
    <3>2. ~ req[r].fresh /\ loading' = loading /\ crossed' /\ list' # <<>>
      BY <1>1, <1>4, <1>5, <3>1 DEF StillFresh
    <3> QED
      BY <1>1, <3>1, <3>2 DEF StillFresh
  <2> QED
    BY <1>1, <1>2, <2>1, RequestKept
<1>11. RequestFine(r)'
  BY <1>1, UsedFine
<1> QED
  BY <1>2, <1>9, <1>10, <1>11 DEF HistoryInv, Stamped

-----------------------------------------------------------------------------
(* The theorems *)

LEMMA HistoryNextInv == HistoryInv /\ [HistoryNext]_historyVars => HistoryInv'
<1> SUFFICES ASSUME HistoryInv, [HistoryNext]_historyVars
             PROVE  HistoryInv'
  OBVIOUS
<1>1. HistoryTypeOK'
  BY HistoryStepTypeOK DEF HistoryInv
<1>2. committed \subseteq committed' /\ \A m \in committed : time'[m] = time[m]
  BY OrderKept DEF HistoryInv
<1>3. CASE Leave \/ UNCHANGED historyVars
  <2>1. UNCHANGED <<tableVars, listVars, loading, req>>
    BY <1>3 DEF Leave, historyVars
  <2>2. Stamped'
    BY <2>1 DEF HistoryInv, Stamped, tableVars
  <2> QED
    BY <1>1, <1>2, <2>1, <2>2, TablesInv
<1>4. ASSUME NEW m \in Messages, Flush(m) \/ Commit(m)
      PROVE  HistoryInv'
  <2>1. UNCHANGED <<listVars, loading, req>>
    BY <1>4 DEF Flush, Commit
  <2> QED
    BY <1>1, <1>2, <1>4, <2>1, FlushStamps, TablesInv
<1> QED
  BY <1>1, <1>3, <1>4, HearInv, OpenInv, ScrollInv, AnswerInv, FirstPageArrivesInv,
     OlderPageArrivesInv, FailsInv DEF HistoryNext

LEMMA HistoryInvHolds == HistorySpec => []HistoryInv
<1>1. HistoryInit => HistoryInv
  BY HistoryInitInv
<1>2. HistoryInv /\ [HistoryNext]_historyVars => HistoryInv'
  BY HistoryNextInv
<1> QED
  BY <1>1, <1>2, PTL DEF HistorySpec

\* Types: the head that came in pages is a part of the list, and loadingMore
\* belongs to a request (chat.js:20, MessageList.vue:38).
THEOREM HistoryTypeCorrect == HistorySpec => []HistoryTypeOK
<1>1. HistoryInv => HistoryTypeOK
  BY DEF HistoryInv
<1> QED
  BY <1>1, HistoryInvHolds, PTL

\* Nothing is skipped: of what was stored when the list was loaded, all that is
\* not older than its first message is on it, for every page size and however
\* many messages have the same time (messages.py:131-153, README.md:237).
THEOREM PagesSkipNothing == HistorySpec => []NothingSkipped
<1>1. HistoryInv => NothingSkipped
  BY DEF HistoryInv, ListFine
<1> QED
  BY <1>1, HistoryInvHolds, PTL

\* The pages of a list are in the order of (created_at, id), and none of them
\* repeats a message (messages.py:139-153, chat.js prependMessages).
THEOREM PagesAreOrdered == HistorySpec => []PagesInOrder
<1>1. HistoryInv => PagesInOrder
  BY DEF HistoryInv, ListFine
<1> QED
  BY <1>1, HistoryInvHolds, PTL
=============================================================================
