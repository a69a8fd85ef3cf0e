---------------------------- MODULE StudioVideos ----------------------------
(***************************************************************************)
(* The videos of one concept of the map: English, and a translation of it. *)
(*                                                                         *)
(* An administrator asks for a video or for a translation only; a Cloud    *)
(* Run execution makes it over an hour or two and puts it on the map, and  *)
(* keeps in the bucket what it was made from.  Meanwhile the job may be    *)
(* given up on, another asked for, and a whole map imported from a file.   *)
(***************************************************************************)
EXTENDS Integers, FiniteSets

CONSTANTS
  StudioJobs,       \* rows of mimir_studio_jobs; also the English video each would make
  Brought,            \* a video that came with an imported file
  NoVideo,
  MaxImports,       \* imports of a map
  MaxStudioFaults   \* calls refused or unanswered, errors, executions killed

ASSUME StudioConstants ==
  /\ Brought # NoVideo /\ {Brought, NoVideo} \cap StudioJobs = {}
  /\ MaxImports \in Nat /\ MaxStudioFaults \in Nat

Videos == StudioJobs \cup {Brought}

VARIABLES
  videos,      \* mimir_concept_videos: the English, and what the translation was made from
  sources,     \* the English video that the files kept in the bucket belong to
  bucket,      \* English videos in the bucket, which a file may name
  studioJob,   \* the rows of the jobs
  ask,         \* the request that made the job and starts its execution
  studio,      \* the execution: where it is, the English it translates, what it makes that from
  rowLock,     \* whose transaction holds the row of the English video
  studioLeft,  \* imports and faults still to come
  strayed,     \* history: a translation was begun from the files of another video
  crossed      \* history: rows were deleted by a statement older than the translation

studioVars == <<videos, sources, bucket, studioJob, ask, studio, rowLock, studioLeft, strayed, crossed>>

StudioInit ==
  /\ videos \in {[en |-> NoVideo, es |-> NoVideo], [en |-> Brought, es |-> NoVideo], [en |-> Brought, es |-> Brought]}
  /\ sources \in {videos.en, NoVideo}
  /\ bucket = {Brought}
  /\ \E status \in {"none", "succeeded"} : studioJob = [j \in StudioJobs |-> [status |-> status, only |-> FALSE]]
  /\ ask = [j \in StudioJobs |-> "none"]
  /\ studio = [j \in StudioJobs |-> [pc |-> "off", english |-> NoVideo, from |-> NoVideo]]
  /\ rowLock = NoVideo
  /\ \E imports \in {0, MaxImports} : studioLeft = [imports |-> imports, faults |-> MaxStudioFaults]
  /\ strayed = FALSE /\ crossed = FALSE

StudioAt(j, pc) == studio[j].pc = pc
Working(j) == studio[j].pc \in {"begin", "make", "show", "commit", "translate", "insert", "end", "throw"}
Active(j) == studioJob[j].status \in {"queued", "running"}
StudioFault == studioLeft.faults > 0 /\ studioLeft' = [studioLeft EXCEPT !.faults = @ - 1]

(* The row of the English video is read "for update": nothing to wait for   *)
(* when there is no such row.                                               *)
RowFree == videos.en = NoVideo \/ rowLock = NoVideo
Released(j) == IF rowLock = j THEN NoVideo ELSE rowLock

-----------------------------------------------------------------------------
(* The job's row.                                                           *)

(* Four hours without a report, of which an execution at work (three hours  *)
(* at most, a heartbeat every five minutes) has none.                       *)
Silent == {j \in StudioJobs : Active(j) /\ ~Working(j)}

(* expireStale, for those of the silent whose time is up.                   *)
GivenUp(dead) == [j \in StudioJobs |-> IF j \in dead THEN [studioJob[j] EXCEPT !.status = "failed"] ELSE studioJob[j]]

(* createVideoJob: the index on the concept admits one job under way.       *)
AskFor(j, only) ==
  /\ studioJob[j].status = "none"
  /\ \E dead \in SUBSET Silent :
       /\ \A i \in StudioJobs \ dead : ~Active(i)
       /\ studioJob' = [GivenUp(dead) EXCEPT ![j] = [status |-> "queued", only |-> only]]
  /\ ask' = [ask EXCEPT ![j] = "sending"]
  /\ UNCHANGED <<videos, sources, bucket, studio, rowLock, studioLeft, strayed, crossed>>

(* The pages that list jobs, and a request turned away as busy.             *)
LookAtJobs ==
  /\ \E dead \in SUBSET Silent \ {{}} : studioJob' = GivenUp(dead)
  /\ UNCHANGED <<videos, sources, bucket, ask, studio, rowLock, studioLeft, strayed, crossed>>

(* runStudioJob: the call is carried out or not, and answered or not.       *)
StartExecution(j) ==
  /\ ask[j] = "sending"
  /\ \/ studio' = [studio EXCEPT ![j].pc = "waiting"] /\ ask' = [ask EXCEPT ![j] = "done"] /\ UNCHANGED studioLeft
     \/ /\ StudioFault
        /\ studio' \in {studio, [studio EXCEPT ![j].pc = "waiting"]}
        /\ ask' \in {[ask EXCEPT ![j] = "refused"], [ask EXCEPT ![j] = "done"]}
  /\ UNCHANGED <<videos, sources, bucket, studioJob, rowLock, strayed, crossed>>

(* failJob, of the app and of the studio.                                   *)
FailJob(j) ==
  studioJob' = IF Active(j) THEN [studioJob EXCEPT ![j].status = "failed"] ELSE studioJob

StartRefused(j) ==
  /\ ask[j] = "refused"
  /\ FailJob(j)
  /\ ask' = [ask EXCEPT ![j] = "done"]
  /\ UNCHANGED <<videos, sources, bucket, studio, rowLock, studioLeft, strayed, crossed>>

-----------------------------------------------------------------------------
(* The execution.                                                           *)

ClaimJob(j) ==
  /\ StudioAt(j, "waiting")
  /\ IF studioJob[j].status = "queued"
     THEN /\ studioJob' = [studioJob EXCEPT ![j].status = "running"]
          /\ studio' = [studio EXCEPT ![j].pc = "begin"]
     ELSE studio' = [studio EXCEPT ![j].pc = "off"] /\ UNCHANGED studioJob
  /\ UNCHANGED <<videos, sources, bucket, ask, rowLock, studioLeft, strayed, crossed>>

(* runVideo reads the live video and fetches what is kept of it.            *)
BeginVideo(j) ==
  /\ StudioAt(j, "begin")
  /\ LET pc == IF ~studioJob[j].only THEN "make"
               ELSE IF videos.en = NoVideo \/ sources = NoVideo THEN "throw" ELSE "translate"
     IN /\ studio' = [studio EXCEPT ![j] = [pc |-> pc, english |-> videos.en, from |-> sources]]
        /\ strayed' = (strayed \/ (pc = "translate" /\ sources # videos.en))
  /\ UNCHANGED <<videos, sources, bucket, studioJob, ask, rowLock, studioLeft, crossed>>

(* makeVideo, then uploadVideo: under a new name, and what it was made from *)
(* over what was kept before.                                               *)
MakeVideo(j) ==
  /\ StudioAt(j, "make")
  /\ bucket' = bucket \cup {j}
  /\ sources' = j
  /\ studio' = [studio EXCEPT ![j] = [pc |-> "show", english |-> j, from |-> j]]
  /\ UNCHANGED <<videos, studioJob, ask, rowLock, studioLeft, strayed, crossed>>

(* publishVideo takes the English row, replaces all rows, and looks last    *)
(* whether the job is still wanted.                                         *)
ShowBegin(j) ==
  /\ StudioAt(j, "show") /\ RowFree
  /\ rowLock' = IF videos.en = NoVideo THEN rowLock ELSE j
  /\ studio' = [studio EXCEPT ![j].pc = "commit"]
  /\ UNCHANGED <<videos, sources, bucket, studioJob, ask, studioLeft, strayed, crossed>>

ShowCommit(j) ==
  /\ StudioAt(j, "commit") /\ (RowFree \/ rowLock = j)
  /\ IF studioJob[j].status = "running"
     THEN /\ videos' = [en |-> j, es |-> NoVideo]
          /\ studio' = [studio EXCEPT ![j].pc = "translate"]
     ELSE studio' = [studio EXCEPT ![j].pc = "throw"] /\ UNCHANGED videos
  /\ rowLock' = Released(j)
  /\ UNCHANGED <<sources, bucket, studioJob, ask, studioLeft, strayed, crossed>>

(* addTranslation, with the English row locked: as long as that is still    *)
(* the video it was translated from.                                        *)
AnyEnglish(j) == videos.en # NoVideo                     \* mutant: any English will do
SameEnglish(j) == videos.en = studio[j].english

TranslationBegin(j) ==
  /\ StudioAt(j, "translate") /\ RowFree
  /\ IF SameEnglish(j)
     THEN rowLock' = j /\ studio' = [studio EXCEPT ![j].pc = "insert"]
     ELSE studio' = [studio EXCEPT ![j].pc = "throw"] /\ UNCHANGED rowLock
  /\ UNCHANGED <<videos, sources, bucket, studioJob, ask, studioLeft, strayed, crossed>>

TranslationCommit(j) ==
  /\ StudioAt(j, "insert")
  /\ videos' = [videos EXCEPT !.es = studio[j].from]
  /\ studio' = [studio EXCEPT ![j].pc = "end"]
  /\ rowLock' = NoVideo
  /\ UNCHANGED <<sources, bucket, studioJob, ask, studioLeft, strayed, crossed>>

(* The same, while a delete of the concept's rows waits for the English     *)
(* one: it does not see the translation, which stays beside the new rows.   *)
TranslationCrossed(j) ==
  /\ StudioAt(j, "insert")
  /\ \/ /\ studioLeft.imports > 0
        /\ studioLeft' = [studioLeft EXCEPT !.imports = @ - 1]
        /\ \E en \in bucket \cup {NoVideo} : videos' = [en |-> en, es |-> studio[j].from]
        /\ studio' = [studio EXCEPT ![j].pc = "end"]
     \/ \E i \in StudioJobs :
        /\ StudioAt(i, "commit") /\ studioJob[i].status = "running"
        /\ videos' = [en |-> i, es |-> studio[j].from]
        /\ studio' = [studio EXCEPT ![j].pc = "end", ![i].pc = "translate"]
        /\ UNCHANGED studioLeft
  /\ rowLock' = NoVideo
  /\ crossed' = TRUE
  /\ UNCHANGED <<sources, bucket, studioJob, ask, strayed>>

EndVideoJob(j) ==
  /\ StudioAt(j, "end")
  /\ studioJob' = IF studioJob[j].status = "running" THEN [studioJob EXCEPT ![j].status = "succeeded"] ELSE studioJob
  /\ studio' = [studio EXCEPT ![j].pc = "off"]
  /\ UNCHANGED <<videos, sources, bucket, ask, rowLock, studioLeft, strayed, crossed>>

StudioFails(j) ==
  /\ StudioAt(j, "throw")
  /\ FailJob(j)
  /\ studio' = [studio EXCEPT ![j].pc = "off"]
  /\ UNCHANGED <<videos, sources, bucket, ask, rowLock, studioLeft, strayed, crossed>>

(* A step throws (its transaction is rolled back), or the execution is      *)
(* killed.                                                                  *)
StudioMishap(j) ==
  /\ Working(j) /\ StudioFault
  /\ \E pc \in {"throw", "off"} : studio' = [studio EXCEPT ![j].pc = pc]
  /\ rowLock' = Released(j)
  /\ UNCHANGED <<videos, sources, bucket, studioJob, ask, strayed, crossed>>

-----------------------------------------------------------------------------
(* importMap: the videos of the file, or none, instead of those there.      *)
ImportMap ==
  /\ studioLeft.imports > 0 /\ RowFree
  /\ studioLeft' = [studioLeft EXCEPT !.imports = @ - 1]
  /\ \E en \in bucket \cup {NoVideo} : \E es \in {NoVideo, en} : videos' = [en |-> en, es |-> es]
  /\ UNCHANGED <<sources, bucket, studioJob, ask, studio, rowLock, strayed, crossed>>

StudioNext ==
  \/ LookAtJobs \/ ImportMap
  \/ \E j \in StudioJobs :
       \/ \E only \in BOOLEAN : AskFor(j, only)
       \/ StartExecution(j) \/ StartRefused(j) \/ ClaimJob(j) \/ BeginVideo(j) \/ MakeVideo(j)
       \/ ShowBegin(j) \/ ShowCommit(j) \/ TranslationBegin(j) \/ TranslationCommit(j) \/ TranslationCrossed(j)
       \/ EndVideoJob(j) \/ StudioFails(j) \/ StudioMishap(j)

StudioSpec == StudioInit /\ [][StudioNext]_studioVars

-----------------------------------------------------------------------------
StudioTypeOK ==
  /\ videos \in [en : Videos \cup {NoVideo}, es : Videos \cup {NoVideo}]
  /\ sources \in Videos \cup {NoVideo}
  /\ bucket \in SUBSET Videos
  /\ studioJob \in [StudioJobs -> [status : {"none", "queued", "running", "succeeded", "failed"}, only : BOOLEAN]]
  /\ ask \in [StudioJobs -> {"none", "sending", "refused", "done"}]
  /\ studio \in [StudioJobs -> [pc : {"off", "waiting", "begin", "make", "show", "commit", "translate", "insert", "end", "throw"},
                                english : Videos \cup {NoVideo}, from : Videos \cup {NoVideo}]]
  /\ rowLock \in StudioJobs \cup {NoVideo}
  /\ studioLeft \in [imports : 0 .. MaxImports, faults : 0 .. MaxStudioFaults]
  /\ strayed \in BOOLEAN /\ crossed \in BOOLEAN

(* Nobody is shown a translation of another video than the one it stands    *)
(* beside: not after a regeneration, not when the execution of a job given  *)
(* up on adds its translation late, not after an import.  It may happen     *)
(* only through files kept of another video, or a delete that missed it.    *)
TranslationsMatch ==
  (videos.en # NoVideo /\ videos.es # NoVideo /\ ~strayed /\ ~crossed) => videos.es = videos.en
=============================================================================
