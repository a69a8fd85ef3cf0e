--------------------------- MODULE LearningProofs ---------------------------
(***************************************************************************)
(* What learners are shown and what is recorded of them: the videos of a   *)
(* concept, for any number of jobs, imports and faults; the upload of a    *)
(* recording, for any number of tabs, requests, chunks and mishaps; the    *)
(* sitting of an adaptive test, over any banks, pages and answers.         *)
(***************************************************************************)
EXTENDS StudioVideos, RecordingUpload, IrisSitting, TLAPS

-----------------------------------------------------------------------------
(* StudioVideos.                                                           *)
Shown == Videos \cup {NoVideo}
StudioPcs == {"off", "waiting", "begin", "make", "show", "commit", "translate", "insert", "end", "throw"}
StudioRow == [pc : StudioPcs, english : Shown, from : Shown]

(* What is true of an execution at each of its steps: who adds a            *)
(* translation holds the English row, which is the one it looked for, and   *)
(* works from files of that video unless it strayed.                        *)
Fits(j, w, en, holder, lax) ==
  /\ w \in StudioRow
  /\ w.pc \in {"show", "commit"} => w.english = j /\ w.from = j
  /\ w.pc \in {"translate", "insert"} => w.english # NoVideo /\ (w.from = w.english \/ lax)
  /\ w.pc = "insert" => holder = j /\ en = w.english

AllFit == studio \in [StudioJobs -> StudioRow] /\ \A j \in StudioJobs : Fits(j, studio[j], videos.en, rowLock, strayed)

StudioInv ==
  /\ videos \in [en : Shown, es : Shown] /\ sources \in Shown /\ bucket \in SUBSET Videos
  /\ strayed \in BOOLEAN
  /\ AllFit
  /\ TranslationsMatch

LEMMA JobsAreVideos == NoVideo \notin StudioJobs /\ StudioJobs \subseteq Shown /\ NoVideo \in Shown
  BY StudioConstants DEF Shown, Videos

(* The row of the English is held for as long as a translation is added.    *)
LEMMA OneInserts ==
  ASSUME AllFit, NEW j \in StudioJobs, StudioAt(j, "insert")
  PROVE  rowLock = j /\ ~RowFree /\ \A i \in StudioJobs : StudioAt(i, "insert") => i = j
  BY JobsAreVideos DEF AllFit, Fits, StudioAt, RowFree

(* One execution moves, and whoever adds a translation keeps its row.       *)
LEMMA OneMoves ==
  ASSUME AllFit, NEW j \in StudioJobs, NEW w, studio' = [studio EXCEPT ![j] = w],
         Fits(j, w, videos'.en, rowLock', strayed'), strayed => strayed',
         \A i \in StudioJobs \ {j} : StudioAt(i, "insert") => videos'.en = videos.en /\ rowLock' = rowLock
  PROVE  AllFit'
<1>1. w \in StudioRow
  BY DEF Fits
<1>2. studio' \in [StudioJobs -> StudioRow] /\ studio'[j] = w /\ \A i \in StudioJobs \ {j} : studio'[i] = studio[i]
  BY <1>1 DEF AllFit
<1>3. \A i \in StudioJobs \ {j} : Fits(i, studio[i], videos.en, rowLock, strayed)'
  <2> SUFFICES ASSUME NEW i \in StudioJobs \ {j}
               PROVE  Fits(i, studio[i], videos'.en, rowLock', strayed')
    BY <1>2 DEF Fits
  <2> QED
    BY DEF AllFit, Fits, StudioAt
<1> QED
  BY <1>2, <1>3 DEF AllFit, Fits

(* The same for a step that touches neither the rows nor the lock.          *)
LEMMA OneMovesAlone ==
  ASSUME AllFit, NEW j \in StudioJobs, NEW w \in StudioRow, studio' = [studio EXCEPT ![j] = w],
         UNCHANGED <<videos, rowLock, strayed>>,
         w.pc \notin {"show", "commit", "translate", "insert"}
  PROVE  AllFit'
  BY OneMoves DEF Fits

LEMMA StudioInvInitially == StudioInit => StudioInv
<1> SUFFICES ASSUME StudioInit PROVE StudioInv
  OBVIOUS
<1>1. videos \in [en : Shown, es : Shown] /\ sources \in Shown /\ bucket \in SUBSET Videos
  BY DEF StudioInit, Shown, Videos
<1>2. strayed \in BOOLEAN
  BY DEF StudioInit
<1>4. TranslationsMatch
  <2>1. videos \in {[en |-> NoVideo, es |-> NoVideo], [en |-> Brought, es |-> NoVideo], [en |-> Brought, es |-> Brought]}
    BY DEF StudioInit
  <2> QED
    BY <2>1 DEF TranslationsMatch
<1>3. AllFit
  BY JobsAreVideos DEF StudioInit, AllFit, Fits, StudioRow, StudioPcs
<1> QED
  BY <1>1, <1>2, <1>3, <1>4 DEF StudioInv

(* The rows of the jobs and the requests that made them touch no video.     *)
LEMMA StudioJobsStep ==
  ASSUME StudioInv, NEW j \in StudioJobs,
         LookAtJobs \/ (\E only \in BOOLEAN : AskFor(j, only)) \/ StartExecution(j) \/ StartRefused(j)
           \/ ClaimJob(j) \/ EndVideoJob(j) \/ StudioFails(j)
  PROVE  StudioInv'
<1>1. UNCHANGED <<videos, sources, bucket, rowLock, strayed, crossed>>
  BY DEF LookAtJobs, AskFor, StartExecution, StartRefused, ClaimJob, EndVideoJob, StudioFails
<1>2. \/ UNCHANGED studio
      \/ \E pc \in {"waiting", "begin", "off"} : studio' = [studio EXCEPT ![j].pc = pc]
  BY DEF LookAtJobs, AskFor, StartExecution, StartRefused, ClaimJob, EndVideoJob, StudioFails
<1>3. AllFit'
  <2>1. CASE UNCHANGED studio
    BY <1>1, <2>1 DEF StudioInv, AllFit, Fits
  <2>2. CASE \E pc \in {"waiting", "begin", "off"} : studio' = [studio EXCEPT ![j].pc = pc]
    <3>1. PICK pc \in {"waiting", "begin", "off"} : studio' = [studio EXCEPT ![j].pc = pc]
      BY <2>2
    <3> DEFINE w == [studio[j] EXCEPT !.pc = pc]
    <3>2. w \in StudioRow /\ w.pc = pc /\ studio' = [studio EXCEPT ![j] = w]
      BY <3>1 DEF StudioInv, AllFit, StudioRow, StudioPcs
    <3> HIDE DEF w
    <3> QED
      BY <1>1, <3>2, OneMovesAlone DEF StudioInv
  <2> QED
    BY <1>2, <2>1, <2>2
<1> QED
  BY <1>1, <1>3 DEF StudioInv, TranslationsMatch

LEMMA MakingStep ==
  ASSUME StudioInv, NEW j \in StudioJobs, BeginVideo(j) \/ MakeVideo(j) \/ ShowBegin(j) \/ ShowCommit(j)
  PROVE  StudioInv'
<1> USE JobsAreVideos
<1>0. /\ AllFit /\ studio \in [StudioJobs -> StudioRow] /\ studio[j] \in StudioRow
      /\ Fits(j, studio[j], videos.en, rowLock, strayed) /\ TranslationsMatch
      /\ videos \in [en : Shown, es : Shown] /\ sources \in Shown /\ bucket \in SUBSET Videos /\ strayed \in BOOLEAN
  BY DEF StudioInv, AllFit
<1>1. CASE BeginVideo(j)
  <2> DEFINE pc == IF ~studioJob[j].only THEN "make"
                   ELSE IF videos.en = NoVideo \/ sources = NoVideo THEN "throw" ELSE "translate"
             w == [pc |-> pc, english |-> videos.en, from |-> sources]
  <2>1. /\ studio' = [studio EXCEPT ![j] = w] /\ UNCHANGED <<videos, sources, bucket, rowLock, crossed>>
        /\ strayed' = (strayed \/ (pc = "translate" /\ sources # videos.en))
    BY <1>1 DEF BeginVideo
  <2>2. w \in StudioRow /\ w.pc = pc /\ w.english = videos.en /\ w.from = sources
    BY <1>0 DEF StudioRow, StudioPcs
  <2>3. pc \in {"make", "throw", "translate"} /\ (pc = "translate" => videos.en # NoVideo)
    OBVIOUS
  <2> HIDE DEF w, pc
  <2>4. strayed' \in BOOLEAN /\ (strayed => strayed') /\ (pc = "translate" => sources = videos.en \/ strayed')
    BY <1>0, <2>1
  <2>5. Fits(j, w, videos'.en, rowLock', strayed')
    BY <2>1, <2>2, <2>3, <2>4 DEF Fits
  <2>6. AllFit'
    BY <1>0, <2>1, <2>4, <2>5, OneMoves
  <2> QED
    BY <1>0, <2>1, <2>4, <2>6 DEF StudioInv, TranslationsMatch
<1>2. CASE MakeVideo(j)
  <2> DEFINE w == [pc |-> "show", english |-> j, from |-> j]
  <2>1. /\ studio' = [studio EXCEPT ![j] = w] /\ UNCHANGED <<videos, rowLock, strayed, crossed>>
        /\ sources' = j /\ bucket' = bucket \cup {j}
    BY <1>2 DEF MakeVideo
  <2>2. w \in StudioRow /\ w.pc = "show" /\ w.english = j /\ w.from = j
    BY DEF StudioRow, StudioPcs
  <2> HIDE DEF w
  <2>3. AllFit'
    BY <1>0, <2>1, <2>2, OneMoves DEF Fits
  <2>4. sources' \in Shown /\ bucket' \in SUBSET Videos
    BY <1>0, <2>1 DEF Videos
  <2> QED
    BY <1>0, <2>1, <2>3, <2>4 DEF StudioInv, TranslationsMatch
<1>3. CASE ShowBegin(j)
  <2> DEFINE w == [studio[j] EXCEPT !.pc = "commit"]
  <2>1. /\ studio' = [studio EXCEPT ![j] = w] /\ UNCHANGED <<videos, sources, bucket, strayed, crossed>>
        /\ studio[j].pc = "show" /\ RowFree
    BY <1>3 DEF ShowBegin, StudioAt
  <2>2. w \in StudioRow /\ w.pc = "commit" /\ w.english = studio[j].english /\ w.from = studio[j].from
    BY <1>0 DEF StudioRow, StudioPcs
  <2> HIDE DEF w
  <2>3. \A i \in StudioJobs : ~StudioAt(i, "insert")
    BY <1>0, <2>1, OneInserts
  <2>4. Fits(j, w, videos'.en, rowLock', strayed')
    BY <1>0, <2>1, <2>2 DEF Fits
  <2>5. AllFit'
    BY <1>0, <2>1, <2>3, <2>4, OneMoves
  <2> QED
    BY <1>0, <2>1, <2>5 DEF StudioInv, TranslationsMatch
<1>4. CASE ShowCommit(j)
  <2>1. \A i \in StudioJobs : ~StudioAt(i, "insert")
    BY <1>0, <1>4, OneInserts DEF ShowCommit, StudioAt
  <2>2. UNCHANGED <<sources, bucket, strayed, crossed>> /\ studio[j].pc = "commit"
    BY <1>4 DEF ShowCommit, StudioAt
  <2>3. studio[j].english = j /\ studio[j].from = j
    BY <1>0, <2>2 DEF Fits
  <2>4. \E pc \in {"translate", "throw"} : studio' = [studio EXCEPT ![j].pc = pc]
    BY <1>4 DEF ShowCommit
  <2>5. PICK pc \in {"translate", "throw"} : studio' = [studio EXCEPT ![j].pc = pc]
    BY <2>4
  <2> DEFINE w == [studio[j] EXCEPT !.pc = pc]
  <2>6. studio' = [studio EXCEPT ![j] = w]
    BY <2>5
  <2>7. w \in StudioRow /\ w.pc = pc /\ w.english = j /\ w.from = j
    BY <1>0, <2>3 DEF StudioRow, StudioPcs
  <2> HIDE DEF w
  <2>8. AllFit'
    BY <1>0, <2>1, <2>2, <2>6, <2>7, OneMoves DEF Fits
  <2>9. videos' = [en |-> j, es |-> NoVideo] \/ UNCHANGED videos
    BY <1>4 DEF ShowCommit
  <2>10. videos' \in [en : Shown, es : Shown] /\ TranslationsMatch'
    BY <1>0, <2>2, <2>9 DEF TranslationsMatch
  <2> QED
    BY <1>0, <2>2, <2>8, <2>10 DEF StudioInv
<1> QED
  BY <1>1, <1>2, <1>3, <1>4

LEMMA TranslatingStep ==
  ASSUME StudioInv, NEW j \in StudioJobs,
         TranslationBegin(j) \/ TranslationCommit(j) \/ TranslationCrossed(j)
  PROVE  StudioInv'
<1> USE JobsAreVideos
<1>0. /\ AllFit /\ studio \in [StudioJobs -> StudioRow] /\ studio[j] \in StudioRow
      /\ Fits(j, studio[j], videos.en, rowLock, strayed) /\ TranslationsMatch
      /\ videos \in [en : Shown, es : Shown] /\ sources \in Shown /\ bucket \in SUBSET Videos /\ strayed \in BOOLEAN
  BY DEF StudioInv, AllFit
<1>1. CASE TranslationBegin(j)
  <2>1. UNCHANGED <<videos, sources, bucket, strayed, crossed>> /\ studio[j].pc = "translate" /\ RowFree
    BY <1>1 DEF TranslationBegin, StudioAt
  <2>2. \A i \in StudioJobs : ~StudioAt(i, "insert")
    BY <1>0, <2>1, OneInserts
  <2>3. PICK pc \in {"insert", "throw"} :
          studio' = [studio EXCEPT ![j].pc = pc] /\ (pc = "insert" => rowLock' = j /\ videos.en = studio[j].english)
    BY <1>1 DEF TranslationBegin, SameEnglish
  <2> DEFINE w == [studio[j] EXCEPT !.pc = pc]
  <2>4. studio' = [studio EXCEPT ![j] = w]
    BY <2>3
  <2>5. w \in StudioRow /\ w.pc = pc /\ w.english = studio[j].english /\ w.from = studio[j].from
    BY <1>0 DEF StudioRow, StudioPcs
  <2> HIDE DEF w
  <2>6. Fits(j, w, videos'.en, rowLock', strayed')
    BY <1>0, <2>1, <2>3, <2>5 DEF Fits
  <2>7. AllFit'
    BY <1>0, <2>1, <2>2, <2>4, <2>6, OneMoves
  <2> QED
    BY <1>0, <2>1, <2>7 DEF StudioInv, TranslationsMatch
<1>2. CASE TranslationCommit(j)
  <2>1. /\ UNCHANGED <<sources, bucket, strayed, crossed>> /\ StudioAt(j, "insert") /\ studio[j].pc = "insert"
        /\ videos' = [videos EXCEPT !.es = studio[j].from] /\ studio' = [studio EXCEPT ![j].pc = "end"]
    BY <1>2 DEF TranslationCommit, StudioAt
  <2>2. \A i \in StudioJobs \ {j} : ~StudioAt(i, "insert")
    BY <1>0, <2>1, OneInserts
  <2> DEFINE w == [studio[j] EXCEPT !.pc = "end"]
  <2>3. studio' = [studio EXCEPT ![j] = w]
    BY <2>1
  <2>4. w \in StudioRow /\ w.pc = "end"
    BY <1>0 DEF StudioRow, StudioPcs
  <2> HIDE DEF w
  <2>5. AllFit'
    BY <1>0, <2>1, <2>2, <2>3, <2>4, OneMoves DEF Fits
  <2>6. studio[j].from \in Shown /\ (studio[j].from = videos.en \/ strayed)
    BY <1>0, <2>1 DEF Fits, StudioRow
  <2>7. videos' \in [en : Shown, es : Shown] /\ videos'.en = videos.en /\ videos'.es = studio[j].from
    BY <1>0, <2>1, <2>6
  <2>8. TranslationsMatch'
    BY <2>1, <2>6, <2>7 DEF TranslationsMatch
  <2> QED
    BY <1>0, <2>1, <2>5, <2>7, <2>8 DEF StudioInv
<1>3. CASE TranslationCrossed(j)
  <2>1. UNCHANGED <<sources, bucket, strayed>> /\ crossed' = TRUE /\ StudioAt(j, "insert") /\ studio[j].pc = "insert"
    BY <1>3 DEF TranslationCrossed, StudioAt
  <2>2. \A i \in StudioJobs \ {j} : ~StudioAt(i, "insert")
    BY <1>0, <2>1, OneInserts
  <2> DEFINE w == [studio[j] EXCEPT !.pc = "end"]
  <2>3. w \in StudioRow /\ w.pc = "end"
    BY <1>0 DEF StudioRow, StudioPcs
  <2>4. studio[j].from \in Shown
    BY <1>0 DEF StudioRow
  <2>5. CASE /\ studio' = [studio EXCEPT ![j].pc = "end"]
             /\ \E en \in bucket \cup {NoVideo} : videos' = [en |-> en, es |-> studio[j].from]
    <3>1. studio' = [studio EXCEPT ![j] = w]
      BY <2>5
    <3> HIDE DEF w
    <3>2. AllFit'
      BY <1>0, <2>1, <2>2, <2>3, <3>1, OneMoves DEF Fits
    <3>3. videos' \in [en : Shown, es : Shown]
      BY <1>0, <2>4, <2>5 DEF Shown
    <3> QED
      BY <1>0, <2>1, <3>2, <3>3 DEF StudioInv, TranslationsMatch
  <2>6. ASSUME NEW i \in StudioJobs, StudioAt(i, "commit"), videos' = [en |-> i, es |-> studio[j].from],
               studio' = [studio EXCEPT ![j].pc = "end", ![i].pc = "translate"]
        PROVE  StudioInv'
    <3> DEFINE v == [studio[i] EXCEPT !.pc = "translate"]
    <3>1. i # j /\ studio[i] \in StudioRow /\ studio[i].english = i /\ studio[i].from = i
      BY <1>0, <2>1, <2>6 DEF StudioAt, AllFit, Fits
    <3>2. v \in StudioRow /\ v.pc = "translate" /\ v.english = i /\ v.from = i
      BY <3>1 DEF StudioRow, StudioPcs
    <3>3. studio' = [studio EXCEPT ![j] = w, ![i] = v]
      BY <2>6, <3>1
    <3> HIDE DEF w, v
    <3>4. /\ studio' \in [StudioJobs -> StudioRow] /\ studio'[i] = v /\ studio'[j] = w
          /\ \A k \in StudioJobs \ {i, j} : studio'[k] = studio[k]
      BY <1>0, <2>3, <3>1, <3>2, <3>3
    <3>5. Fits(i, v, videos'.en, rowLock', strayed') /\ Fits(j, w, videos'.en, rowLock', strayed')
      BY <2>3, <3>2 DEF Fits
    <3>6. \A k \in StudioJobs \ {i, j} : Fits(k, studio[k], videos'.en, rowLock', strayed')
      BY <1>0, <2>1, <2>2 DEF AllFit, Fits, StudioAt
    <3>7. AllFit'
      BY <3>4, <3>5, <3>6 DEF AllFit, Fits
    <3>8. videos' \in [en : Shown, es : Shown]
      BY <2>4, <2>6
    <3> QED
      BY <1>0, <2>1, <3>7, <3>8 DEF StudioInv, TranslationsMatch
  <2> QED
    BY <1>3, <2>5, <2>6 DEF TranslationCrossed
<1> QED
  BY <1>1, <1>2, <1>3

LEMMA MishapStep ==
  ASSUME StudioInv, NEW j \in StudioJobs, StudioMishap(j)
  PROVE  StudioInv'
<1>1. UNCHANGED <<videos, sources, bucket, strayed, crossed>> /\ rowLock' = Released(j)
  BY DEF StudioMishap
<1>2. PICK pc \in {"throw", "off"} : studio' = [studio EXCEPT ![j].pc = pc]
  BY DEF StudioMishap
<1> DEFINE w == [studio[j] EXCEPT !.pc = pc]
<1>3. w \in StudioRow /\ w.pc = pc /\ studio' = [studio EXCEPT ![j] = w]
  BY <1>2 DEF StudioInv, AllFit, StudioRow, StudioPcs
<1> HIDE DEF w
<1>4. \A i \in StudioJobs \ {j} : StudioAt(i, "insert") => rowLock' = rowLock
  BY <1>1, OneInserts DEF StudioInv, Released
<1>5. Fits(j, w, videos'.en, rowLock', strayed')
  BY <1>3 DEF Fits
<1>6. AllFit'
  BY <1>1, <1>3, <1>4, <1>5, OneMoves DEF StudioInv
<1> QED
  BY <1>1, <1>6 DEF StudioInv, TranslationsMatch

LEMMA ImportStep ==
  ASSUME StudioInv, ImportMap
  PROVE  StudioInv'
<1>1. UNCHANGED <<sources, bucket, studio, rowLock, strayed, crossed>> /\ RowFree
  BY DEF ImportMap
<1>2. \A i \in StudioJobs : ~StudioAt(i, "insert")
  BY <1>1, OneInserts DEF StudioInv
<1>3. AllFit'
  BY <1>1, <1>2 DEF StudioInv, AllFit, Fits, StudioAt
<1>4. PICK en \in bucket \cup {NoVideo} : \E es \in {NoVideo, en} : videos' = [en |-> en, es |-> es]
  BY DEF ImportMap
<1>5. en \in Shown /\ NoVideo \in Shown
  BY <1>4 DEF StudioInv, Shown
<1>6. videos' \in [en : Shown, es : Shown] /\ TranslationsMatch'
  BY <1>4, <1>5 DEF TranslationsMatch
<1> QED
  BY <1>1, <1>3, <1>6 DEF StudioInv

LEMMA StudioInvInductive == StudioInv /\ [StudioNext]_studioVars => StudioInv'
<1> SUFFICES ASSUME StudioInv, [StudioNext]_studioVars PROVE StudioInv'
  OBVIOUS
<1>1. CASE UNCHANGED studioVars
  BY <1>1 DEF studioVars, StudioInv, AllFit, Fits, TranslationsMatch
<1>2. CASE StudioNext
  <2>1. CASE LookAtJobs
    <3>1. UNCHANGED <<videos, sources, bucket, studio, rowLock, strayed, crossed>>
      BY <2>1 DEF LookAtJobs
    <3> QED
      BY <3>1 DEF StudioInv, AllFit, Fits, TranslationsMatch
  <2> QED
    BY <1>2, <2>1, StudioJobsStep, MakingStep, TranslatingStep, MishapStep, ImportStep DEF StudioNext
<1> QED
  BY <1>1, <1>2

(* However many jobs are asked for, given up on and carried out late, and   *)
(* whenever a map is imported, the translation beside a video is that       *)
(* video's, unless it was made from the files of another or a delete missed *)
(* it.                                                                      *)
THEOREM TranslationsAreTheirs == StudioSpec => []TranslationsMatch
<1>1. StudioInv => TranslationsMatch
  BY DEF StudioInv
<1> QED
  BY <1>1, StudioInvInitially, StudioInvInductive, PTL DEF StudioSpec

-----------------------------------------------------------------------------
(* The rows of the jobs, their requests and the lock.                       *)
StudioJobRow == [status : {"none", "queued", "running", "succeeded", "failed"}, only : BOOLEAN]

StudioRest ==
  /\ studioJob \in [StudioJobs -> StudioJobRow]
  /\ ask \in [StudioJobs -> {"none", "sending", "refused", "done"}]
  /\ rowLock \in StudioJobs \cup {NoVideo}
  /\ studioLeft \in [imports : 0 .. MaxImports, faults : 0 .. MaxStudioFaults]
  /\ crossed \in BOOLEAN

LEMMA StudioRowsKept ==
  ASSUME StudioRest, NEW j \in StudioJobs
  PROVE  /\ FailJob(j) => studioJob' \in [StudioJobs -> StudioJobRow]
         /\ \A dead \in SUBSET StudioJobs : GivenUp(dead) \in [StudioJobs -> StudioJobRow]
<1>1. \A i \in StudioJobs : [studioJob[i] EXCEPT !.status = "failed"] \in StudioJobRow
  BY DEF StudioRest, StudioJobRow
<1>2. FailJob(j) => studioJob' \in [StudioJobs -> StudioJobRow]
  BY <1>1 DEF FailJob, StudioRest
<1>3. ASSUME NEW dead \in SUBSET StudioJobs PROVE GivenUp(dead) \in [StudioJobs -> StudioJobRow]
  BY <1>1 DEF GivenUp, StudioRest
<1> QED
  BY <1>2, <1>3

LEMMA StudioRestStep ==
  ASSUME StudioInv, StudioRest, StudioNext
  PROVE  StudioRest'
<1> USE DEF StudioRest
<1>0. ASSUME NEW j \in StudioJobs PROVE Released(j) \in StudioJobs \cup {NoVideo}
  BY DEF Released
<1>1. CASE LookAtJobs
  <2>1. PICK dead \in SUBSET StudioJobs : studioJob' = GivenUp(dead)
    BY <1>1 DEF LookAtJobs, Silent
  <2>2. UNCHANGED <<ask, rowLock, studioLeft, crossed>>
    BY <1>1 DEF LookAtJobs
  <2>3. GivenUp(dead) \in [StudioJobs -> StudioJobRow]
    <3>1. CASE StudioJobs = {}
      BY <3>1 DEF GivenUp
    <3>2. CASE StudioJobs # {}
      BY <3>2, StudioRowsKept
    <3> QED
      BY <3>1, <3>2
  <2> QED
    BY <2>1, <2>2, <2>3
<1>2. CASE ImportMap
  BY <1>2, StudioConstants DEF ImportMap
<1>3. ASSUME NEW j \in StudioJobs, NEW only \in BOOLEAN, AskFor(j, only) PROVE StudioRest'
  <2>1. PICK dead \in SUBSET StudioJobs : studioJob' = [GivenUp(dead) EXCEPT ![j] = [status |-> "queued", only |-> only]]
    BY <1>3 DEF AskFor, Silent
  <2>2. GivenUp(dead) \in [StudioJobs -> StudioJobRow] /\ [status |-> "queued", only |-> only] \in StudioJobRow
    BY StudioRowsKept DEF StudioJobRow
  <2> QED
    BY <1>3, <2>1, <2>2 DEF AskFor
<1>4. ASSUME NEW j \in StudioJobs, StartExecution(j) PROVE StudioRest'
  BY <1>4, StudioConstants DEF StartExecution, StudioFault
<1>5. ASSUME NEW j \in StudioJobs, StartRefused(j) PROVE StudioRest'
  BY <1>5, StudioRowsKept DEF StartRefused
<1>6. ASSUME NEW j \in StudioJobs, ClaimJob(j) PROVE StudioRest'
  BY <1>6 DEF ClaimJob, StudioJobRow
<1>7. ASSUME NEW j \in StudioJobs, BeginVideo(j) \/ MakeVideo(j) PROVE StudioRest'
  BY <1>7 DEF BeginVideo, MakeVideo
<1>8. ASSUME NEW j \in StudioJobs, ShowBegin(j) \/ ShowCommit(j) PROVE StudioRest'
  BY <1>0, <1>8 DEF ShowBegin, ShowCommit
<1>9. ASSUME NEW j \in StudioJobs, TranslationBegin(j) \/ TranslationCommit(j) PROVE StudioRest'
  BY <1>9 DEF TranslationBegin, TranslationCommit
<1>10. ASSUME NEW j \in StudioJobs, TranslationCrossed(j) PROVE StudioRest'
  BY <1>10, StudioConstants DEF TranslationCrossed
<1>11. ASSUME NEW j \in StudioJobs, EndVideoJob(j) PROVE StudioRest'
  BY <1>11 DEF EndVideoJob, StudioJobRow
<1>12. ASSUME NEW j \in StudioJobs, StudioFails(j) PROVE StudioRest'
  BY <1>12, StudioRowsKept DEF StudioFails
<1>13. ASSUME NEW j \in StudioJobs, StudioMishap(j) PROVE StudioRest'
  BY <1>0, <1>13, StudioConstants DEF StudioMishap, StudioFault
<1> QED
  BY <1>1, <1>2, <1>3, <1>4, <1>5, <1>6, <1>7, <1>8, <1>9, <1>10, <1>11, <1>12, <1>13 DEF StudioNext

(* The types of the map's videos, of the jobs and of their executions.      *)
THEOREM StudioTypeCorrect == StudioSpec => []StudioTypeOK
<1>1. StudioInit => StudioRest
  <2> SUFFICES ASSUME StudioInit PROVE StudioRest
    OBVIOUS
  <2>1. /\ rowLock = NoVideo /\ crossed = FALSE
        /\ ask \in [StudioJobs -> {"none", "sending", "refused", "done"}]
    BY DEF StudioInit
  <2>2. studioJob \in [StudioJobs -> StudioJobRow]
    BY DEF StudioInit, StudioJobRow
  <2>3. studioLeft \in [imports : 0 .. MaxImports, faults : 0 .. MaxStudioFaults]
    BY StudioConstants DEF StudioInit
  <2> QED
    BY <2>1, <2>2, <2>3 DEF StudioRest
<1>2. StudioInv /\ StudioRest /\ [StudioNext]_studioVars => StudioRest'
  <2>1. UNCHANGED studioVars /\ StudioRest => StudioRest'
    BY DEF studioVars, StudioRest
  <2> QED
    BY <2>1, StudioRestStep
<1>3. StudioInv /\ StudioRest => StudioTypeOK
  BY DEF StudioInv, AllFit, StudioRow, StudioPcs, Shown, StudioRest, StudioJobRow, StudioTypeOK
<1> QED
  BY <1>1, <1>2, <1>3, StudioInvInitially, StudioInvInductive, PTL DEF StudioSpec

-----------------------------------------------------------------------------
(* RecordingUpload.                                                        *)
TakeRow == [state : {"recording", "stopped", "cut"}, saved : 0 .. MaxChunks, kept : BOOLEAN]
TrackRow == [status : {"absent", "uploading", "assembling", "ready", "failed"},
             aged : BOOLEAN, file : 0 .. MaxChunks, id : 0 .. 2]
TabRow == [pc : {"idle", "load", "file", "send", "wait", "answer", "gone"}, ended : BOOLEAN,
           kept : 0 .. MaxChunks, up : SUBSET Chunks, filed : BOOLEAN, urls : BOOLEAN,
           joined : BOOLEAN, answer : Answers]
HandlerRow == [pc : {"free", "read", "empty", "list", "claim", "join", "clean"},
               tab : Tabs \cup {NoTab}, chunks : 0 .. MaxChunks, id : 0 .. 2]

(* A track is filed once, and once more after the take was deleted.         *)
IdsFit == track.id = (IF deleted THEN 1 ELSE 0) + (IF track.status = "absent" THEN 0 ELSE 1)
RecordingTyped == RecordingTypeOK /\ IdsFit

LEMMA RecordingTypes ==
  RecordingTypeOK <=>
    /\ take \in TakeRow /\ sent \subseteq Chunks /\ track \in TrackRow
    /\ chunkStore \subseteq Chunks /\ late \subseteq Chunks
    /\ tab \in [Tabs -> TabRow] /\ handler \in [Handlers -> HandlerRow]
    /\ direct \in BOOLEAN /\ mishaps \in 0 .. MaxMishaps /\ deleted \in BOOLEAN
  BY DEF RecordingTypeOK, TakeRow, TrackRow, TabRow, HandlerRow

LEMMA AnswerTyped ==
  ASSUME NEW status \in {"missing", "ready", "assembling", "failed", "gone", "none"}
  PROVE  Answer(status) \in Answers
  BY DEF Answer, Answers

LEMMA ClosedTyped == Closed \in TabRow /\ Free \in HandlerRow
<1>1. 0 \in 0 .. MaxChunks /\ 0 \in 0 .. 2
  BY RecordingConstants
<1> QED
  BY <1>1, AnswerTyped DEF Closed, Free, TabRow, HandlerRow

LEMMA FiledTyped ==
  ASSUME track \in TrackRow, deleted \in BOOLEAN, IdsFit
  PROVE  /\ Filed \in TrackRow /\ Filed.status # "absent"
         /\ Filed.id = (IF deleted THEN 1 ELSE 0) + 1
<1>1. CASE track.status # "absent"
  BY <1>1 DEF Filed, IdsFit
<1>2. CASE track.status = "absent"
  <2>1. track.id + 1 \in 0 .. 2 /\ track.id + 1 = (IF deleted THEN 1 ELSE 0) + 1 /\ 0 \in 0 .. MaxChunks
    BY <1>2, RecordingConstants DEF IdsFit
  <2> QED
    BY <1>2, <2>1 DEF Filed, TrackRow
<1> QED
  BY <1>1, <1>2

LEMMA EndPassTyped ==
  ASSUME NEW t \in Tabs, tab \in [Tabs -> TabRow]
  PROVE  EndPass(t) \in TabRow
<1>1. 0 \in 0 .. MaxChunks
  BY RecordingConstants
<1> QED
  BY <1>1, AnswerTyped DEF EndPass, TabRow

LEMMA RecordingTypeStep ==
  ASSUME RecordingTyped, RecordingNext
  PROVE  RecordingTyped'
<1>0. /\ take \in TakeRow /\ sent \subseteq Chunks /\ track \in TrackRow
      /\ chunkStore \subseteq Chunks /\ late \subseteq Chunks
      /\ tab \in [Tabs -> TabRow] /\ handler \in [Handlers -> HandlerRow]
      /\ direct \in BOOLEAN /\ mishaps \in 0 .. MaxMishaps /\ deleted \in BOOLEAN
      /\ IdsFit
  BY RecordingTypes DEF RecordingTyped
<1> USE DEF browser, server
<1>1. ASSUME Mishap PROVE mishaps' \in 0 .. MaxMishaps
  BY <1>0, <1>1, RecordingConstants DEF Mishap
<1>2. ASSUME take' \in TakeRow, UNCHANGED <<sent, server, tab, handler, direct, deleted>>, mishaps' \in 0 .. MaxMishaps
      PROVE  RecordingTyped'
  BY <1>0, <1>2, RecordingTypes DEF RecordingTyped, IdsFit, RecordingTypeOK, TakeRow, TrackRow, TabRow, HandlerRow
<1>3. CASE SaveChunk
  <2>1. take.saved + 1 \in 0 .. MaxChunks
    BY <1>0, <1>3, RecordingConstants DEF SaveChunk, TakeRow
  <2> QED
    BY <1>0, <1>2, <1>3, <2>1 DEF SaveChunk, TakeRow
<1>4. CASE StopRecorder \/ RecorderDies
  BY <1>0, <1>1, <1>2, <1>4 DEF StopRecorder, RecorderDies, TakeRow
<1>5. CASE ChunkLands \/ AssemblyAges
  <2>1. track' \in TrackRow /\ track'.id = track.id /\ track'.status = track.status
    BY <1>0, <1>5 DEF ChunkLands, AssemblyAges, TrackRow
  <2>2. /\ chunkStore' \subseteq Chunks /\ late' \subseteq Chunks
        /\ UNCHANGED <<browser, tab, handler, direct, mishaps, deleted>>
    BY <1>0, <1>5 DEF ChunkLands, AssemblyAges
  <2> QED
    BY <1>0, <2>1, <2>2 DEF RecordingTyped, RecordingTypeOK, IdsFit, TakeRow, TrackRow, TabRow, HandlerRow
<1>6. CASE DeleteTake
  <2>1. /\ track' = [track EXCEPT !.status = "absent", !.file = 0] /\ chunkStore' = {} /\ deleted' = TRUE
        /\ UNCHANGED <<browser, late, tab, handler, direct>> /\ ~deleted /\ track.status # "absent" /\ Mishap
    BY <1>6 DEF DeleteTake
  <2>2. 0 \in 0 .. MaxChunks
    BY RecordingConstants
  <2>3. track' \in TrackRow /\ track'.id = track.id /\ track'.status = "absent"
    BY <1>0, <2>1, <2>2 DEF TrackRow
  <2>4. IdsFit'
    <3>1. track.id = 1
      BY <1>0, <2>1 DEF IdsFit
    <3> QED
      BY <2>1, <2>3, <3>1 DEF IdsFit
  <2> QED
    BY <2>4, <1>0, <1>1, <2>1, <2>3 DEF RecordingTyped, RecordingTypeOK, TakeRow, TrackRow, TabRow, HandlerRow
<1>7. ASSUME NEW t \in Tabs, PassStart(t) \/ PassStep(t) \/ SendFails(t) \/ RequestFails(t) \/ TabReopens(t)
      PROVE  RecordingTyped'
  <2>1. EndPass(t) \in TabRow /\ tab[t] \in TabRow /\ 0 \in 0 .. MaxChunks
    BY <1>0, EndPassTyped, RecordingConstants
  <2>2. ASSUME NEW w \in TabRow, Set(t, w) PROVE tab' \in [Tabs -> TabRow]
    BY <1>0, <2>2 DEF Set
  <2>3. ASSUME take' \in TakeRow, sent' \subseteq Chunks, track' \in {track, Filed},
               chunkStore' \subseteq Chunks, late' \subseteq Chunks,
               tab' \in [Tabs -> TabRow], handler' \in [Handlers -> HandlerRow],
               mishaps' \in 0 .. MaxMishaps, UNCHANGED <<direct, deleted>>
        PROVE  RecordingTyped'
    <3>1. track' \in TrackRow /\ IdsFit'
      BY <1>0, <2>3, FiledTyped DEF IdsFit
    <3> QED
      BY <1>0, <2>3, <3>1 DEF RecordingTyped, RecordingTypeOK, TakeRow, TrackRow, TabRow, HandlerRow
  <2>4. CASE PassStart(t) \/ PassLoad(t) \/ PassEnd(t)
    <3>1. take.saved \in 0 .. MaxChunks
      BY <1>0 DEF TakeRow
    <3>2. ListedEnds \subseteq BOOLEAN
      BY DEF ListedEnds
    <3>3. tab' \in [Tabs -> TabRow]
      <4>1. CASE PassStart(t)
        <5>1. PICK over \in BOOLEAN : Set(t, [tab[t] EXCEPT !.pc = "load", !.ended = over])
          BY <3>2, <4>1 DEF PassStart
        <5> QED
          BY <2>1, <2>2, <5>1 DEF TabRow
      <4>2. CASE PassLoad(t)
        <5>1. [tab[t] EXCEPT !.pc = "file", !.kept = IF take.kept THEN take.saved ELSE 0,
                             !.up = IF take.kept THEN sent ELSE {}] \in TabRow
          BY <1>0, <2>1, <3>1 DEF TabRow
        <5> QED
          BY <2>2, <4>2, <5>1 DEF PassLoad
      <4>3. CASE PassEnd(t)
        BY <2>1, <2>2, <4>3 DEF PassEnd
      <4> QED
        BY <2>4, <4>1, <4>2, <4>3
    <3> QED
      BY <1>0, <2>3, <2>4, <3>3 DEF PassStart, PassLoad, PassEnd
  <2>5. CASE Register(t)
    <3>1. [tab[t] EXCEPT !.pc = "send", !.filed = TRUE] \in TabRow
      BY <2>1 DEF TabRow
    <3>2. tab' \in [Tabs -> TabRow] /\ track' \in {track, Filed}
      BY <2>2, <2>5, <3>1 DEF Register
    <3> QED
      BY <1>0, <2>3, <2>5, <3>2 DEF Register
  <2>6. CASE SendNothing(t) \/ SendChunk(t)
    <3>1. PICK c \in Unsent(t) : chunkStore' \in {chunkStore, chunkStore \cup {c}} /\ Mark(t, c)
      BY <2>6 DEF SendNothing, SendChunk
    <3>2. c \in Chunks
      BY <2>1, RecordingConstants DEF Unsent, TabRow, Chunks
    <3>3. [tab[t] EXCEPT !.up = @ \cup {c}] \in TabRow
      BY <2>1, <3>2 DEF TabRow
    <3>4. sent' \subseteq Chunks /\ tab' \in [Tabs -> TabRow] /\ chunkStore' \subseteq Chunks
      BY <1>0, <2>2, <3>1, <3>2, <3>3 DEF Mark
    <3> QED
      BY <1>0, <2>3, <2>6, <3>4 DEF SendNothing, SendChunk
  <2>7. CASE SendUnfiled(t) \/ AskUrls(t)
    <3>1. CASE Refile(t)
      BY <1>0, <2>1, <2>2, <2>3, <3>1 DEF Refile
    <3>2. CASE ~Refile(t)
      <4>1. [tab[t] EXCEPT !.urls = TRUE] \in TabRow /\ [tab[t] EXCEPT !.joined = TRUE] \in TabRow
        BY <2>1 DEF TabRow
      <4>2. tab' \in [Tabs -> TabRow]
        BY <2>2, <2>7, <3>2, <4>1 DEF SendUnfiled, AskUrls
      <4> QED
        BY <1>0, <2>3, <2>7, <3>2, <4>2 DEF SendUnfiled, AskUrls
    <3> QED
      BY <3>1, <3>2
  <2>8. CASE AskFinish(t)
    <3>1. PICK h \in Handlers :
            handler' = [handler EXCEPT ![h] = [pc |-> "read", tab |-> t, chunks |-> tab[t].kept, id |-> 0]]
      BY <2>8 DEF AskFinish
    <3>2. [pc |-> "read", tab |-> t, chunks |-> tab[t].kept, id |-> 0] \in HandlerRow
      BY <2>1 DEF TabRow, HandlerRow
    <3>3. handler' \in [Handlers -> HandlerRow]
      BY <1>0, <3>1, <3>2
    <3>4. [tab[t] EXCEPT !.pc = "wait"] \in TabRow
      BY <2>1 DEF TabRow
    <3>5. tab' \in [Tabs -> TabRow]
      BY <2>2, <2>8, <3>4 DEF AskFinish
    <3> QED
      BY <1>0, <2>3, <2>8, <3>3, <3>5 DEF AskFinish
  <2>9. CASE HandleAnswer(t)
    <3>1. /\ take' \in {take, [take EXCEPT !.kept = FALSE]} /\ sent' \subseteq Chunks
          /\ UNCHANGED <<server, handler, direct, mishaps, deleted>>
      BY <1>0, <2>9 DEF HandleAnswer, Forget
    <3>2. take' \in TakeRow
      BY <1>0, <3>1 DEF TakeRow
    <3>3. tab' \in [Tabs -> TabRow]
      <4>1. [EndPass(t) EXCEPT !.pc = "gone"] \in TabRow
        BY <2>1 DEF TabRow
      <4>2. \A filed \in BOOLEAN, urls \in BOOLEAN : [EndPass(t) EXCEPT !.filed = filed, !.urls = urls] \in TabRow
        BY <2>1 DEF TabRow
      <4>3. /\ (EndPass(t).filed /\ tab[t].kept = 0) \in BOOLEAN
            /\ (EndPass(t).urls /\ tab[t].kept = 0) \in BOOLEAN
        OBVIOUS
      <4>4. \/ Set(t, [EndPass(t) EXCEPT !.pc = "gone"])
            \/ Set(t, [EndPass(t) EXCEPT !.filed = (@ /\ tab[t].kept = 0), !.urls = (@ /\ tab[t].kept = 0)])
            \/ Set(t, EndPass(t))
        BY <2>9 DEF HandleAnswer
      <4> QED
        BY <2>1, <2>2, <4>1, <4>2, <4>3, <4>4
    <3> QED
      BY <1>0, <2>3, <3>1, <3>2, <3>3
  <2>10. CASE SendFails(t)
    <3>1. late' \subseteq Chunks
      <4>1. Unsent(t) \subseteq Chunks
        BY <2>1, RecordingConstants DEF Unsent, TabRow, Chunks
      <4> QED
        BY <1>0, <2>10, <4>1 DEF SendFails
    <3>2. [EndPass(t) EXCEPT !.urls = FALSE] \in TabRow
      BY <2>1 DEF TabRow
    <3>3. tab' \in [Tabs -> TabRow]
      BY <2>2, <2>10, <3>2 DEF SendFails
    <3> QED
      BY <1>0, <1>1, <2>3, <2>10, <3>1, <3>3 DEF SendFails
  <2>11. CASE RequestFails(t) \/ TabReopens(t)
    <3>1. tab' \in [Tabs -> TabRow]
      BY <2>1, <2>2, <2>11, ClosedTyped DEF RequestFails, TabReopens
    <3>2. handler' \in [Handlers -> HandlerRow]
      <4>1. \A h \in Handlers : handler[h] \in HandlerRow /\ [handler[h] EXCEPT !.tab = NoTab] \in HandlerRow
        BY <1>0 DEF HandlerRow
      <4>2. handler' = [h \in Handlers |-> IF handler[h].tab = t THEN [handler[h] EXCEPT !.tab = NoTab] ELSE handler[h]]
        BY <2>11 DEF RequestFails, TabReopens
      <4> QED
        BY <4>1, <4>2
    <3> QED
      BY <1>0, <1>1, <2>3, <2>11, <3>1, <3>2 DEF RequestFails, TabReopens
  <2> QED
    BY <1>7, <2>4, <2>5, <2>6, <2>7, <2>8, <2>9, <2>10, <2>11 DEF PassStep
<1>8. ASSUME NEW h \in Handlers, FinishStep(h) \/ FinishJoinFails(h) \/ ServerDies(h)
      PROVE  RecordingTyped'
  <2>1. handler[h] \in HandlerRow /\ handler[h].chunks \in 0 .. MaxChunks
    BY <1>0 DEF HandlerRow
  <2>2. ASSUME NEW a \in Answers, Reply(h, a) PROVE tab' \in [Tabs -> TabRow]
    <3>1. \A t \in Tabs : tab[t] \in TabRow /\ [tab[t] EXCEPT !.pc = "answer", !.answer = a] \in TabRow
      BY <1>0 DEF TabRow
    <3> QED
      BY <2>2, <3>1 DEF Reply
  <2>3. ASSUME Done(h) PROVE handler' \in [Handlers -> HandlerRow]
    BY <1>0, <2>3, ClosedTyped DEF Done
  <2>5. ASSUME track' \in TrackRow, track'.id = track.id, (track'.status = "absent" <=> track.status = "absent"),
               tab' \in [Tabs -> TabRow], handler' \in [Handlers -> HandlerRow],
               chunkStore' \subseteq Chunks, mishaps' \in 0 .. MaxMishaps,
               UNCHANGED <<browser, late, direct, deleted>>
        PROVE  RecordingTyped'
    <3>1. IdsFit'
      BY <1>0, <2>5 DEF IdsFit
    <3> QED
      BY <1>0, <2>5, <3>1 DEF RecordingTyped, RecordingTypeOK, TakeRow, TrackRow, TabRow, HandlerRow
  <2>6. CASE FinishRead(h)
    <3>1. tab' \in [Tabs -> TabRow]
      BY <1>0, <2>2, <2>6, AnswerTyped DEF FinishRead
    <3>2. handler' \in [Handlers -> HandlerRow]
      <4>1. CASE Done(h)
        BY <2>3, <4>1
      <4>2. CASE ~Done(h)
        <5>1. handler' = [handler EXCEPT ![h].pc = IF handler[h].chunks = 0 THEN "empty" ELSE "list", ![h].id = track.id]
          BY <2>6, <4>2 DEF FinishRead
        <5>2. PICK pc \in {"empty", "list"} : handler' = [handler EXCEPT ![h].pc = pc, ![h].id = track.id]
          BY <5>1
        <5>3. track.id \in 0 .. 2
          BY <1>0 DEF TrackRow
        <5>4. [handler[h] EXCEPT !.pc = pc, !.id = track.id] \in HandlerRow
          BY <2>1, <5>3 DEF HandlerRow
        <5>5. handler' = [handler EXCEPT ![h] = [handler[h] EXCEPT !.pc = pc, !.id = track.id]]
          BY <1>0, <5>2
        <5> QED
          BY <1>0, <5>4, <5>5
      <4> QED
        BY <4>1, <4>2
    <3> QED
      BY <1>0, <2>5, <2>6, <3>1, <3>2 DEF FinishRead
  <2>7. CASE FinishEmpty(h)
    <3>1. track' \in TrackRow /\ track'.id = track.id /\ (track'.status = "absent" <=> track.status = "absent")
      BY <1>0, <2>7 DEF FinishEmpty, TrackRow, Accepts
    <3> QED
      BY <1>0, <2>2, <2>3, <2>5, <2>7, <3>1, AnswerTyped DEF FinishEmpty
  <2>8. CASE FinishList(h)
    <3> DEFINE missing == (1 .. handler[h].chunks) \ chunkStore
    <3>1. [status |-> "missing", missing |-> missing] \in Answers
      BY <2>1, RecordingConstants DEF Answers, Chunks
    <3>2. tab' \in [Tabs -> TabRow]
      BY <1>0, <2>2, <2>8, <3>1 DEF FinishList
    <3>3. handler' \in [Handlers -> HandlerRow]
      <4>1. Done(h) \/ Go(h, "claim")
        BY <2>8 DEF FinishList
      <4>2. CASE Go(h, "claim")
        BY <1>0, <4>2 DEF Go, HandlerRow
      <4> QED
        BY <2>3, <4>1, <4>2
    <3> QED
      BY <1>0, <2>5, <2>8, <3>2, <3>3 DEF FinishList
  <2>9. CASE FinishClaim(h)
    <3>1. track' \in TrackRow /\ track'.id = track.id /\ (track'.status = "absent" <=> track.status = "absent")
      BY <1>0, <2>9 DEF FinishClaim, TrackRow, Mine
    <3>2. tab' \in [Tabs -> TabRow]
      BY <1>0, <2>2, <2>9, AnswerTyped DEF FinishClaim
    <3>3. handler' \in [Handlers -> HandlerRow]
      <4>1. CASE Go(h, "join")
        BY <1>0, <4>1 DEF Go, HandlerRow
      <4>2. CASE ~Go(h, "join")
        <5>1. handler' = [handler EXCEPT ![h].pc = "join", ![h].tab = NoTab]
          BY <2>9, <4>2 DEF FinishClaim
        <5> QED
          BY <1>0, <5>1 DEF HandlerRow
      <4> QED
        BY <4>1, <4>2
    <3> QED
      BY <1>0, <2>5, <2>9, <3>1, <3>2, <3>3 DEF FinishClaim
  <2>10. CASE FinishUnclaimed(h)
    BY <1>0, <2>2, <2>3, <2>5, <2>10, AnswerTyped DEF FinishUnclaimed
  <2>11. CASE FinishJoin(h)
    <3>1. track' \in TrackRow /\ track'.id = track.id /\ (track'.status = "absent" <=> track.status = "absent")
      BY <1>0, <2>1, <2>11 DEF FinishJoin, TrackRow, Mine
    <3>2. handler' \in [Handlers -> HandlerRow]
      BY <1>0, <2>11 DEF FinishJoin, HandlerRow
    <3> QED
      BY <1>0, <2>2, <2>5, <2>11, <3>1, <3>2, AnswerTyped DEF FinishJoin
  <2>12. CASE FinishJoinGap(h) \/ FinishJoinFails(h)
    <3>1. JoinFailed(h) /\ mishaps' \in 0 .. MaxMishaps
      BY <1>0, <1>1, <2>12 DEF FinishJoinGap, FinishJoinFails
    <3>2. track' \in TrackRow /\ track'.id = track.id /\ (track'.status = "absent" <=> track.status = "absent")
      BY <1>0, <3>1 DEF JoinFailed, TrackRow, Mine
    <3> QED
      BY <1>0, <2>2, <2>3, <2>5, <3>1, <3>2, AnswerTyped DEF JoinFailed
  <2>13. CASE FinishClean(h)
    BY <1>0, <2>3, <2>5, <2>13 DEF FinishClean
  <2>14. CASE ServerDies(h)
    <3>1. tab' \in [Tabs -> TabRow]
      BY <1>0, <2>14, EndPassTyped DEF ServerDies
    <3> QED
      BY <1>0, <1>1, <2>3, <2>5, <2>14, <3>1 DEF ServerDies
  <2> QED
    BY <1>8, <2>6, <2>7, <2>8, <2>9, <2>10, <2>11, <2>12, <2>13, <2>14 DEF FinishStep
<1> QED
  BY <1>3, <1>4, <1>5, <1>6, <1>7, <1>8 DEF RecordingNext

(* Types, for any numbers of tabs, requests, chunks and mishaps; a track is *)
(* filed at most twice.                                                     *)
THEOREM RecordingTypeCorrect == RecordingSpec => []RecordingTyped
<1>1. RecordingInit => RecordingTyped
  <2> SUFFICES ASSUME RecordingInit PROVE RecordingTyped
    OBVIOUS
  <2>1. 0 \in 0 .. MaxChunks /\ MaxMishaps \in 0 .. MaxMishaps /\ 0 \in 0 .. 2
    BY RecordingConstants
  <2>2. take \in TakeRow
    <3>1. take \in {[state |-> "recording", saved |-> 0, kept |-> TRUE],
                   [state |-> "stopped", saved |-> 0, kept |-> FALSE]}
      BY DEF RecordingInit
    <3>2. ASSUME NEW state \in {"recording", "stopped"}, NEW kept \in BOOLEAN
          PROVE  [state |-> state, saved |-> 0, kept |-> kept] \in TakeRow
      BY <2>1 DEF TakeRow
    <3> QED
      BY <3>1, <3>2
  <2>3. track \in TrackRow /\ IdsFit
    BY <2>1 DEF RecordingInit, TrackRow, IdsFit
  <2>4. tab \in [Tabs -> TabRow] /\ handler \in [Handlers -> HandlerRow]
    BY ClosedTyped DEF RecordingInit
  <2>5. /\ sent \subseteq Chunks /\ chunkStore \subseteq Chunks /\ late \subseteq Chunks
        /\ mishaps \in 0 .. MaxMishaps /\ deleted \in BOOLEAN
    BY <2>1 DEF RecordingInit
  <2>6. direct \in BOOLEAN
    BY <2>2 DEF RecordingInit, TakeRow
  <2> QED
    BY <2>2, <2>3, <2>4, <2>5, <2>6, RecordingTypes DEF RecordingTyped
<1>2. RecordingTyped /\ [RecordingNext]_recordingVars => RecordingTyped'
  <2>1. ASSUME RecordingTyped, UNCHANGED recordingVars PROVE RecordingTyped'
    BY <2>1 DEF recordingVars, browser, server, RecordingTyped, RecordingTypeOK, IdsFit
  <2> QED
    BY <2>1, RecordingTypeStep
<1> QED
  BY <1>1, <1>2, PTL DEF RecordingSpec

-----------------------------------------------------------------------------
(* What makes FileIsWhole and HandoverKept inductive, where a recorder at   *)
(* work saves something every STALE_MS and a join ends within its limit.    *)

(* A pass that takes the stream for ended has read all that was saved, or   *)
(* found it dropped; a request of its is answered once, by the handler it   *)
(* waits for.                                                               *)
PassFits(w) ==
  /\ w.pc \in {"wait", "answer"} => w.ended
  /\ w.ended => ~Growing
  /\ w.ended /\ w.pc \in {"file", "send", "wait", "answer"} =>
       /\ w.kept \in {0, take.saved}
       /\ w.kept = 0 => ~take.kept \/ take.saved = 0
WaitFits ==
  \A h \in Handlers : handler[h].tab \in Tabs =>
    /\ tab[handler[h].tab].pc = "wait"
    /\ \A g \in Handlers : handler[g].tab = handler[h].tab => g = h
FinishFits(w) ==
  w.pc \notin {"free", "clean"} =>
    /\ ~Growing /\ w.chunks \in {0, take.saved}
    /\ w.pc \in {"list", "claim", "join"} => w.chunks = take.saved

(* A join under way has its claim to itself, and a file on offer stays.     *)
JoinAlone ==
  ~deleted => \A h \in Handlers : HandlerAt(h, "join") =>
    /\ track.status = "assembling" /\ ~track.aged /\ track.id = handler[h].id
    /\ \A g \in Handlers \ {h} : ~HandlerAt(g, "join")
AnswerStands == ~deleted => \A t \in Tabs : tab[t].answer.status = "ready" => track.status = "ready"
FileFits == track.status = "ready" => ~Growing /\ track.file = take.saved
HeldFits == Growing => take.kept

RecordingInv ==
  /\ \A t \in Tabs : PassFits(tab[t])
  /\ \A h \in Handlers : FinishFits(handler[h])
  /\ WaitFits /\ JoinAlone /\ AnswerStands /\ FileFits /\ HeldFits

LEMMA RecordingInitInv == RecordingInit => RecordingInv
  BY RecordingConstants
     DEF RecordingInit, RecordingInv, PassFits, WaitFits, FinishFits, JoinAlone, AnswerStands, FileFits, HeldFits,
         Closed, Free, Answer, HandlerAt, Growing

(* A step of one tab, which changes the rows of others only to forget that  *)
(* it waits.                                                                *)
LEMMA PassMoves ==
  ASSUME RecordingInv, NEW t \in Tabs, take \in TakeRow, UNCHANGED deleted,
         take' = take \/ (~Growing /\ take' = [take EXCEPT !.kept = FALSE]),
         track' \in {track, Filed},
         \A u \in Tabs \ {t} : tab'[u] = tab[u],
         PassFits(tab[t])', tab'[t].answer.status = "ready" => tab[t].answer.status = "ready",
         \A h \in Handlers : /\ handler'[h].pc = handler[h].pc /\ handler'[h].chunks = handler[h].chunks
                            /\ handler'[h].id = handler[h].id
                            /\ handler'[h].tab \in {handler[h].tab, NoTab} \ {t}
  PROVE  RecordingInv'
<1>1. track' = track \/ (track.status = "absent" /\ track'.status = "uploading")
  BY DEF Filed
<1>2. NoTab \notin Tabs
  BY RecordingConstants
<1>0. take'.saved = take.saved /\ (Growing' <=> Growing) /\ (take'.kept => take.kept) /\ (Growing => take' = take)
  BY DEF TakeRow, Growing
<1>3. \A u \in Tabs : PassFits(tab[u])'
  BY <1>0 DEF RecordingInv, PassFits
<1>4. \A h \in Handlers : FinishFits(handler[h])'
  BY <1>0 DEF RecordingInv, FinishFits
<1>5. WaitFits'
  BY <1>2 DEF RecordingInv, WaitFits
<1>6. JoinAlone' /\ FileFits' /\ HeldFits'
  BY <1>0, <1>1 DEF RecordingInv, JoinAlone, FileFits, HeldFits, HandlerAt
<1>7. AnswerStands'
  BY <1>1 DEF RecordingInv, AnswerStands
<1> QED
  BY <1>3, <1>4, <1>5, <1>6, <1>7 DEF RecordingInv

(* A step of one finish request, which may answer its tab.                  *)
LEMMA FinishMoves ==
  ASSUME RecordingInv, NEW h \in Handlers, UNCHANGED <<take, deleted>>,
         \A g \in Handlers \ {h} : handler'[g] = handler[g],
         FinishFits(handler'[h]), handler'[h].tab \in {handler[h].tab, NoTab},
         \A u \in Tabs : \/ tab'[u] = tab[u]
                        \/ /\ u = handler[h].tab /\ handler'[h].tab = NoTab
                           /\ \/ tab'[u].pc = "idle" /\ ~tab'[u].ended
                              \/ tab'[u].pc = "answer" /\ tab'[u].ended = tab[u].ended /\ tab'[u].kept = tab[u].kept
                           /\ ~deleted /\ tab'[u].answer.status = "ready" => track'.status = "ready",
         ~deleted /\ track.status = "ready" => track'.status = "ready",
         JoinAlone', FileFits'
  PROVE  RecordingInv'
<1>1. NoTab \notin Tabs
  BY RecordingConstants
<1>2. \A u \in Tabs : PassFits(tab[u])'
  <2> SUFFICES ASSUME NEW u \in Tabs PROVE PassFits(tab[u])'
    OBVIOUS
  <2>1. PassFits(tab[u])
    BY DEF RecordingInv
  <2>2. u = handler[h].tab => tab[u].pc = "wait"
    BY DEF RecordingInv, WaitFits
  <2> QED
    BY <2>1, <2>2 DEF PassFits, Growing
<1>3. \A g \in Handlers : FinishFits(handler[g])'
  BY DEF RecordingInv, FinishFits, Growing
<1>4. WaitFits'
  <2> SUFFICES ASSUME NEW g \in Handlers, handler'[g].tab \in Tabs
               PROVE  /\ tab'[handler'[g].tab].pc = "wait"
                      /\ \A f \in Handlers : handler'[f].tab = handler'[g].tab => f = g
    BY DEF WaitFits
  <2>1. handler'[g].tab = handler[g].tab
    BY <1>1
  <2>2. tab[handler[g].tab].pc = "wait" /\ \A f \in Handlers : handler[f].tab = handler[g].tab => f = g
    BY <2>1 DEF RecordingInv, WaitFits
  <2>3. \A f \in Handlers : handler'[f].tab = handler'[g].tab => f = g
    BY <1>1, <2>1, <2>2
  <2>4. tab'[handler'[g].tab] = tab[handler[g].tab]
    BY <1>1, <2>1, <2>2
  <2> QED
    BY <2>1, <2>2, <2>3, <2>4
<1>5. HeldFits' /\ AnswerStands'
  BY DEF RecordingInv, HeldFits, Growing, AnswerStands
<1> QED
  BY <1>2, <1>3, <1>4, <1>5 DEF RecordingInv

LEMMA RecordingStep ==
  ASSUME Punctual = TRUE, PatientJoin = TRUE, RecordingTyped, RecordingInv, RecordingNext
  PROVE  RecordingInv'
<1>0. /\ take \in TakeRow /\ track \in TrackRow
      /\ tab \in [Tabs -> TabRow] /\ handler \in [Handlers -> HandlerRow]
  BY RecordingTypes DEF RecordingTyped
<1> USE DEF browser, server
<1>1. CASE SaveChunk \/ StopRecorder \/ RecorderDies
  <2>1. /\ Growing /\ take'.kept = take.kept
        /\ UNCHANGED <<track, tab, handler, deleted>>
    BY <1>0, <1>1 DEF SaveChunk, StopRecorder, RecorderDies, TakeRow
  <2> QED
    BY <2>1 DEF RecordingInv, PassFits, WaitFits, FinishFits, JoinAlone, AnswerStands, FileFits, HeldFits, HandlerAt
<1>2. CASE ChunkLands \/ AssemblyAges
  <2>1. UNCHANGED <<take, tab, handler, deleted>>
    BY <1>2 DEF ChunkLands, AssemblyAges
  <2>2. /\ track'.status = track.status /\ track'.file = track.file
        /\ track'.id = track.id
        /\ track' = track \/ \A h \in Handlers : ~HandlerAt(h, "join")
    BY <1>0, <1>2 DEF ChunkLands, AssemblyAges, TrackRow
  <2> QED
    BY <2>1, <2>2 DEF RecordingInv, PassFits, WaitFits, FinishFits, JoinAlone, AnswerStands, FileFits, HeldFits,
                      HandlerAt, Growing
<1>3. CASE DeleteTake
  <2>1. deleted' /\ track'.status = "absent" /\ UNCHANGED <<take, tab, handler>>
    BY <1>0, <1>3 DEF DeleteTake, TrackRow
  <2> QED
    BY <2>1 DEF RecordingInv, PassFits, WaitFits, FinishFits, JoinAlone, AnswerStands, FileFits, HeldFits, Growing
<1>4. ASSUME NEW t \in Tabs, PassStart(t) \/ PassStep(t) \/ SendFails(t) \/ RequestFails(t) \/ TabReopens(t)
      PROVE  RecordingInv'
  <2>0. tab[t] \in TabRow /\ PassFits(tab[t])
    BY <1>0, <1>4 DEF RecordingInv
  <2>1. \A w : Set(t, w) => tab'[t] = w /\ \A u \in Tabs \ {t} : tab'[u] = tab[u]
    BY <1>0 DEF Set
  <2>2. tab[t].pc # "wait" => \A h \in Handlers : handler[h].tab # t
    BY DEF RecordingInv, WaitFits
  (* The end of a pass, whatever became of it.                              *)
  <2>3. EndPass(t).pc = "idle" /\ EndPass(t).ended = FALSE /\ EndPass(t).answer.status = "none"
        /\ EndPass(t) \in TabRow
    BY <1>0, <2>0, EndPassTyped DEF EndPass, TabRow, Answer
  <2>4. CASE PassStart(t)
    <3>1. PICK over \in ListedEnds : Set(t, [tab[t] EXCEPT !.pc = "load", !.ended = over])
      BY <2>4 DEF PassStart
    <3>2. over => ~Growing
      BY <1>0, <3>1 DEF ListedEnds
    <3>3. tab'[t].pc = "load" /\ tab'[t].ended = over /\ tab'[t].answer = tab[t].answer
      <4>1. tab'[t] = [tab[t] EXCEPT !.pc = "load", !.ended = over]
        BY <2>1, <3>1
      <4> QED
        BY <2>0, <4>1 DEF TabRow
    <3>4. UNCHANGED <<take, track, handler, deleted>> /\ tab[t].pc # "wait"
      BY <2>4 DEF PassStart, TabAt
    <3>5. PassFits(tab[t])'
      BY <3>2, <3>3, <3>4 DEF PassFits, Growing
    <3> QED
      BY <1>0, <2>1, <2>2, <3>1, <3>3, <3>4, <3>5, PassMoves
  <2>5. CASE PassLoad(t)
    <3>1. /\ tab'[t].pc = "file" /\ tab'[t].ended = tab[t].ended /\ tab'[t].answer = tab[t].answer
          /\ tab'[t].kept = IF take.kept THEN take.saved ELSE 0
          /\ \A u \in Tabs \ {t} : tab'[u] = tab[u]
      <4> DEFINE w == [tab[t] EXCEPT !.pc = "file", !.kept = IF take.kept THEN take.saved ELSE 0,
                                     !.up = IF take.kept THEN sent ELSE {}]
      <4>1. Set(t, w)
        BY <2>5 DEF PassLoad
      <4>2. /\ w.pc = "file" /\ w.ended = tab[t].ended /\ w.answer = tab[t].answer
            /\ w.kept = IF take.kept THEN take.saved ELSE 0
        BY <2>0 DEF TabRow
      <4> HIDE DEF w
      <4> QED
        BY <2>1, <4>1, <4>2
    <3>2. UNCHANGED <<take, track, handler, deleted>> /\ tab[t].pc # "wait"
      BY <2>5 DEF PassLoad, TabAt
    <3>3. PassFits(tab[t])'
      BY <2>0, <3>1, <3>2 DEF PassFits, Growing
    <3> QED
      BY <1>0, <2>2, <3>1, <3>2, <3>3, PassMoves
  (* Steps within a pass, which keep what it read.                          *)
  <2>6. ASSUME NEW w, Set(t, w), w.pc \in {"send", "wait"}, tab[t].pc \in {"file", "send"},
               w.ended = tab[t].ended, w.kept = tab[t].kept, w.answer = tab[t].answer, w.pc = "wait" => w.ended,
               UNCHANGED <<take, handler, deleted>>, track' \in {track, Filed}
        PROVE  RecordingInv'
    <3>1. PassFits(tab[t])'
      BY <2>0, <2>1, <2>6 DEF PassFits, Growing
    <3> QED
      BY <1>0, <2>1, <2>2, <2>6, <3>1, PassMoves
  <2>7. ASSUME NEW w, Set(t, w), w.pc \in {"idle", "gone"}, ~w.ended, w.answer.status # "ready",
               take' = take \/ (~Growing /\ take' = [take EXCEPT !.kept = FALSE]),
               UNCHANGED deleted, track' \in {track, Filed},
               \A h \in Handlers : /\ handler'[h].pc = handler[h].pc /\ handler'[h].chunks = handler[h].chunks
                                  /\ handler'[h].id = handler[h].id
                                  /\ handler'[h].tab \in {handler[h].tab, NoTab} \ {t}
        PROVE  RecordingInv'
    <3>1. PassFits(tab[t])'
      BY <2>1, <2>7 DEF PassFits
    <3> QED
      BY <1>0, <2>1, <2>7, <3>1, PassMoves
  <2>8. CASE Register(t)
    <3>1. [tab[t] EXCEPT !.pc = "send", !.filed = TRUE] \in TabRow
      BY <2>0 DEF TabRow
    <3> QED
      BY <2>0, <2>6, <2>8 DEF Register, TabAt, TabRow
  <2>9. CASE SendNothing(t) \/ SendChunk(t)
    <3>1. PICK c \in Unsent(t) : Set(t, [tab[t] EXCEPT !.up = @ \cup {c}])
      BY <2>9 DEF SendNothing, SendChunk, Mark
    <3>2. tab[t].pc = "send" /\ UNCHANGED <<take, track, handler, deleted>>
      BY <2>9 DEF SendNothing, SendChunk, TabAt
    <3> QED
      BY <2>0, <2>6, <3>1, <3>2 DEF TabRow
  <2>10. CASE SendUnfiled(t) \/ AskUrls(t)
    <3>1. tab[t].pc = "send"
      BY <2>10 DEF SendUnfiled, AskUrls, TabAt
    <3>2. CASE Refile(t)
      <4>1. Set(t, EndPass(t)) /\ track' = Filed /\ UNCHANGED <<take, handler, deleted>>
        BY <3>2 DEF Refile
      <4> QED
        BY <2>2, <2>3, <2>7, <3>1, <4>1
    <3>3. CASE ~Refile(t)
      <4>1. /\ Set(t, [tab[t] EXCEPT !.urls = TRUE]) \/ Set(t, [tab[t] EXCEPT !.joined = TRUE])
            /\ UNCHANGED <<take, track, handler, deleted>>
        BY <2>10, <3>3 DEF SendUnfiled, AskUrls
      <4> QED
        BY <2>0, <2>6, <3>1, <4>1 DEF TabRow
    <3> QED
      BY <3>2, <3>3
  <2>11. CASE PassEnd(t)
    BY <2>2, <2>3, <2>7, <2>11 DEF PassEnd, TabAt
  <2>12. CASE SendFails(t)
    <3>1. [EndPass(t) EXCEPT !.urls = FALSE].pc = "idle" /\ [EndPass(t) EXCEPT !.urls = FALSE].ended = FALSE
          /\ [EndPass(t) EXCEPT !.urls = FALSE].answer.status = "none"
      BY <2>3 DEF TabRow
    <3> QED
      BY <2>2, <2>7, <2>12, <3>1 DEF SendFails, TabAt
  <2>13. CASE RequestFails(t) \/ TabReopens(t)
    <3>1. Set(t, EndPass(t)) \/ Set(t, Closed)
      BY <2>13 DEF RequestFails, TabReopens
    <3>2. /\ handler' = [h \in Handlers |-> IF handler[h].tab = t THEN [handler[h] EXCEPT !.tab = NoTab] ELSE handler[h]]
          /\ UNCHANGED <<take, track, deleted>>
      BY <2>13 DEF RequestFails, TabReopens
    <3>3. \A h \in Handlers : /\ handler'[h].pc = handler[h].pc /\ handler'[h].chunks = handler[h].chunks
                             /\ handler'[h].id = handler[h].id
                             /\ handler'[h].tab \in {handler[h].tab, NoTab} \ {t}
      BY <1>0, <3>2, RecordingConstants DEF HandlerRow
    <3>4. Closed.pc = "idle" /\ Closed.ended = FALSE /\ Closed.answer.status = "none"
      BY DEF Closed, Answer
    <3> QED
      BY <2>3, <2>7, <3>1, <3>2, <3>3, <3>4
  <2>14. CASE HandleAnswer(t)
    <3>1. tab[t].pc = "answer" /\ ~Growing /\ UNCHANGED <<track, handler, deleted>>
      BY <2>0, <2>14 DEF HandleAnswer, TabAt, PassFits
    <3>2. take' = take \/ take' = [take EXCEPT !.kept = FALSE]
      BY <2>14 DEF HandleAnswer, Forget
    <3>3. PICK w : Set(t, w) /\ w.pc \in {"idle", "gone"} /\ ~w.ended /\ w.answer.status # "ready"
      <4>1. \/ Set(t, [EndPass(t) EXCEPT !.pc = "gone"])
            \/ Set(t, [EndPass(t) EXCEPT !.filed = (@ /\ tab[t].kept = 0), !.urls = (@ /\ tab[t].kept = 0)])
            \/ Set(t, EndPass(t))
        BY <2>14 DEF HandleAnswer
      <4>2. \A filed, urls : LET w == [EndPass(t) EXCEPT !.filed = filed, !.urls = urls] IN
              w.pc = "idle" /\ ~w.ended /\ w.answer.status # "ready"
        BY <2>3 DEF TabRow
      <4>3. LET w == [EndPass(t) EXCEPT !.pc = "gone"] IN w.pc = "gone" /\ ~w.ended /\ w.answer.status # "ready"
        BY <2>3 DEF TabRow
      <4>4. CASE Set(t, [EndPass(t) EXCEPT !.pc = "gone"])
        <5> WITNESS [EndPass(t) EXCEPT !.pc = "gone"]
        <5> QED
          BY <4>3, <4>4
      <4>5. CASE Set(t, [EndPass(t) EXCEPT !.filed = (@ /\ tab[t].kept = 0), !.urls = (@ /\ tab[t].kept = 0)])
        <5>1. \A filed, urls : Set(t, [EndPass(t) EXCEPT !.filed = filed, !.urls = urls]) =>
                \E w : Set(t, w) /\ w.pc \in {"idle", "gone"} /\ ~w.ended /\ w.answer.status # "ready"
          <6> SUFFICES ASSUME NEW filed, NEW urls, Set(t, [EndPass(t) EXCEPT !.filed = filed, !.urls = urls])
                       PROVE  \E w : Set(t, w) /\ w.pc \in {"idle", "gone"} /\ ~w.ended /\ w.answer.status # "ready"
            OBVIOUS
          <6> WITNESS [EndPass(t) EXCEPT !.filed = filed, !.urls = urls]
          <6> QED
            BY <4>2
        <5>2. [EndPass(t) EXCEPT !.filed = (@ /\ tab[t].kept = 0), !.urls = (@ /\ tab[t].kept = 0)]
              = [EndPass(t) EXCEPT !.filed = (EndPass(t).filed /\ tab[t].kept = 0),
                                   !.urls = (EndPass(t).urls /\ tab[t].kept = 0)]
          OBVIOUS
        <5>3. Set(t, [EndPass(t) EXCEPT !.filed = (EndPass(t).filed /\ tab[t].kept = 0),
                                       !.urls = (EndPass(t).urls /\ tab[t].kept = 0)])
          BY <4>5, <5>2
        <5> QED
          BY <5>1, <5>3
      <4>6. CASE Set(t, EndPass(t))
        BY <2>3, <4>6
      <4> QED
        BY <4>1, <4>4, <4>5, <4>6
    <3> QED
      BY <2>2, <2>7, <3>1, <3>2, <3>3
  <2>15. CASE AskFinish(t)
    <3>1. PICK h \in Handlers :
            /\ handler[h].pc = "free"
            /\ handler' = [handler EXCEPT ![h] = [pc |-> "read", tab |-> t, chunks |-> tab[t].kept, id |-> 0]]
      BY <2>15 DEF AskFinish
    <3>2. /\ tab[t].pc = "send" /\ tab[t].ended /\ UNCHANGED <<take, track, deleted>>
          /\ tab' = [tab EXCEPT ![t] = [tab[t] EXCEPT !.pc = "wait"]]
      BY <2>15 DEF AskFinish, TabAt, Set
    <3>3. /\ handler'[h].pc = "read" /\ handler'[h].tab = t /\ handler'[h].chunks = tab[t].kept
          /\ \A g \in Handlers \ {h} : handler'[g] = handler[g]
      BY <1>0, <3>1
    <3>4. /\ tab'[t].pc = "wait" /\ tab'[t].ended = tab[t].ended /\ tab'[t].kept = tab[t].kept
          /\ tab'[t].answer = tab[t].answer /\ \A u \in Tabs \ {t} : tab'[u] = tab[u]
      BY <1>0, <2>0, <3>2 DEF TabRow
    <3>5. ~Growing /\ tab[t].kept \in {0, take.saved}
      BY <2>0, <3>2 DEF PassFits
    <3>6. \A u \in Tabs : PassFits(tab[u])'
      BY <2>0, <3>2, <3>4 DEF RecordingInv, PassFits, Growing
    <3>7. \A g \in Handlers : FinishFits(handler[g])'
      BY <3>2, <3>3, <3>5 DEF RecordingInv, FinishFits, Growing
    <3>8. WaitFits'
      BY <2>2, <3>2, <3>3, <3>4 DEF RecordingInv, WaitFits
    <3>9. JoinAlone' /\ AnswerStands' /\ FileFits' /\ HeldFits'
      BY <3>2, <3>3, <3>4 DEF RecordingInv, JoinAlone, AnswerStands, FileFits, HeldFits, HandlerAt, Growing
    <3> QED
      BY <3>6, <3>7, <3>8, <3>9 DEF RecordingInv
  <2> QED
    BY <1>4, <2>4, <2>5, <2>8, <2>9, <2>10, <2>11, <2>12, <2>13, <2>14, <2>15 DEF PassStep
<1>5. ASSUME NEW h \in Handlers, FinishStep(h) \/ FinishJoinFails(h) \/ ServerDies(h)
      PROVE  RecordingInv'
  <2>0. handler[h] \in HandlerRow /\ FinishFits(handler[h])
    BY <1>0 DEF RecordingInv
  <2>1. ASSUME Done(h)
        PROVE  /\ handler'[h] = Free /\ FinishFits(handler'[h]) /\ handler'[h].tab = NoTab
               /\ \A g \in Handlers \ {h} : handler'[g] = handler[g]
    BY <1>0, <2>1 DEF Done, Free, FinishFits
  <2>2. ASSUME NEW a, Reply(h, a), ~deleted /\ a.status = "ready" => track'.status = "ready", handler'[h].tab = NoTab
        PROVE  \A u \in Tabs :
                 \/ tab'[u] = tab[u]
                 \/ /\ u = handler[h].tab /\ handler'[h].tab = NoTab
                    /\ \/ tab'[u].pc = "idle" /\ ~tab'[u].ended
                       \/ tab'[u].pc = "answer" /\ tab'[u].ended = tab[u].ended /\ tab'[u].kept = tab[u].kept
                    /\ ~deleted /\ tab'[u].answer.status = "ready" => track'.status = "ready"
    <3> SUFFICES ASSUME NEW u \in Tabs, tab'[u] # tab[u]
                 PROVE  /\ u = handler[h].tab
                        /\ tab'[u].ended = tab[u].ended /\ tab'[u].kept = tab[u].kept
                        /\ tab'[u].pc = "answer" /\ tab'[u].answer = a
      BY <2>2
    <3>1. u = handler[h].tab /\ tab'[u] = [tab[u] EXCEPT !.pc = "answer", !.answer = a]
      BY <2>2 DEF Reply
    <3>2. tab[u] \in TabRow
      BY <1>0
    <3> QED
      BY <3>1, <3>2 DEF TabRow
  (* Steps that leave the row of the track alone.                           *)
  <2>3. ASSUME UNCHANGED <<take, track, deleted>>, FinishFits(handler'[h]), ~HandlerAt(h, "join")',
               handler'[h].tab \in {handler[h].tab, NoTab}, \A g \in Handlers \ {h} : handler'[g] = handler[g],
               UNCHANGED tab \/ (/\ handler'[h].tab = NoTab
                                /\ \E a : Reply(h, a) /\ (a.status = "ready" => track.status = "ready"))
        PROVE  RecordingInv'
    <3>1. JoinAlone' /\ FileFits'
      BY <2>3 DEF RecordingInv, JoinAlone, FileFits, HandlerAt, Growing
    <3> QED
      BY <2>2, <2>3, <3>1, FinishMoves
  <2>4. CASE FinishRead(h)
    <3>1. CASE Done(h) /\ \E a : Reply(h, a) /\ (a.status = "ready" => track.status = "ready")
      <4>1. UNCHANGED <<take, track, deleted>>
        BY <2>4 DEF FinishRead
      <4> QED
        BY <2>1, <2>3, <3>1, <4>1 DEF HandlerAt, Free
    <3>2. CASE ~(Done(h) /\ \E a : Reply(h, a) /\ (a.status = "ready" => track.status = "ready"))
      <4>1. /\ handler' = [handler EXCEPT ![h].pc = IF handler[h].chunks = 0 THEN "empty" ELSE "list", ![h].id = track.id]
            /\ UNCHANGED <<take, track, tab, deleted>> /\ handler[h].pc = "read"
        <5>1. Answer("gone").status # "ready"
          BY DEF Answer
        <5> QED
          BY <2>4, <3>2, <5>1 DEF FinishRead, HandlerAt
      <4>2. /\ handler'[h].pc = (IF handler[h].chunks = 0 THEN "empty" ELSE "list")
            /\ handler'[h].chunks = handler[h].chunks /\ handler'[h].tab = handler[h].tab
            /\ \A g \in Handlers \ {h} : handler'[g] = handler[g]
        BY <1>0, <4>1 DEF HandlerRow
      <4>3. FinishFits(handler'[h]) /\ ~HandlerAt(h, "join")'
        BY <2>0, <4>1, <4>2 DEF FinishFits, HandlerAt
      <4> QED
        BY <2>3, <4>1, <4>2, <4>3
    <3> QED
      BY <3>1, <3>2
  <2>5. CASE FinishEmpty(h)
    <3>1. Done(h) /\ Reply(h, Answer("failed")) /\ UNCHANGED <<take, deleted>> /\ Answer("failed").status = "failed"
      BY <2>5 DEF FinishEmpty, Answer
    <3>2. track' = track \/ (Accepts /\ track'.status = "failed")
      BY <1>0, <2>5 DEF FinishEmpty, TrackRow
    <3>3. JoinAlone' /\ FileFits' /\ (track.status = "ready" => track'.status = "ready")
      BY <2>1, <3>1, <3>2 DEF RecordingInv, JoinAlone, FileFits, HandlerAt, Growing, Accepts, Free
    <3> QED
      BY <2>1, <2>2, <3>1, <3>3, FinishMoves
  <2>6. CASE FinishList(h)
    <3>1. UNCHANGED <<take, track, deleted>> /\ handler[h].pc = "list"
      BY <2>6 DEF FinishList, HandlerAt
    <3>2. CASE Go(h, "claim") /\ UNCHANGED tab
      <4>1. /\ handler'[h].pc = "claim" /\ handler'[h].chunks = handler[h].chunks /\ handler'[h].tab = handler[h].tab
            /\ \A g \in Handlers \ {h} : handler'[g] = handler[g]
        BY <1>0, <3>2 DEF Go, HandlerRow
      <4>2. FinishFits(handler'[h]) /\ ~HandlerAt(h, "join")'
        BY <2>0, <3>1, <4>1 DEF FinishFits, HandlerAt
      <4> QED
        BY <2>3, <3>1, <3>2, <4>1, <4>2
    <3>3. CASE ~(Go(h, "claim") /\ UNCHANGED tab)
      <4>1. Done(h) /\ \E a : Reply(h, a) /\ a.status = "missing"
        BY <2>6, <3>3 DEF FinishList
      <4> QED
        BY <2>1, <2>3, <3>1, <4>1 DEF HandlerAt, Free
    <3> QED
      BY <3>2, <3>3
  <2>7. CASE FinishUnclaimed(h) \/ FinishClean(h)
    <3>1. /\ Done(h) /\ UNCHANGED <<take, track, deleted>>
          /\ UNCHANGED tab \/ \E a : Reply(h, a) /\ a.status = "assembling"
      BY <2>7 DEF FinishUnclaimed, FinishClean, Answer
    <3> QED
      BY <2>1, <2>3, <3>1 DEF HandlerAt, Free
  <2>8. CASE FinishClaim(h)
    <3>1. /\ handler[h].pc = "claim" /\ Claimable /\ UNCHANGED <<take, deleted>>
          /\ track'.status = "assembling" /\ ~track'.aged /\ track'.id = handler[h].id
      BY <1>0, <2>8 DEF FinishClaim, HandlerAt, TrackRow, Mine
    <3>2. /\ handler'[h].pc = "join" /\ handler'[h].chunks = handler[h].chunks /\ handler'[h].id = handler[h].id
          /\ \A g \in Handlers \ {h} : handler'[g] = handler[g]
          /\ \/ handler'[h].tab = handler[h].tab /\ UNCHANGED tab
             \/ handler'[h].tab = NoTab /\ Reply(h, Answer("assembling"))
      BY <1>0, <2>8 DEF FinishClaim, Go, HandlerRow
    <3>3. FinishFits(handler'[h])
      BY <2>0, <3>1, <3>2 DEF FinishFits
    <3>4. ~deleted => \A g \in Handlers : ~HandlerAt(g, "join")
      BY <3>1 DEF RecordingInv, JoinAlone, Claimable, Accepts
    <3>5. JoinAlone' /\ FileFits' /\ track.status # "ready"
      BY <3>1, <3>2, <3>4 DEF JoinAlone, FileFits, HandlerAt, Claimable, Accepts
    <3>6. Answer("assembling").status = "assembling"
      BY DEF Answer
    <3> QED
      BY <2>2, <3>1, <3>2, <3>3, <3>5, <3>6, FinishMoves
  <2>9. CASE FinishJoin(h)
    <3>1. /\ handler[h].pc = "join" /\ UNCHANGED <<take, deleted>> /\ Reply(h, Answer("ready"))
          /\ ~Growing /\ handler[h].chunks = take.saved
      BY <2>0, <2>9 DEF FinishJoin, HandlerAt, FinishFits
    <3>2. /\ handler'[h].pc = "clean" /\ handler'[h].tab = NoTab
          /\ \A g \in Handlers \ {h} : handler'[g] = handler[g]
      BY <1>0, <2>9 DEF FinishJoin, HandlerRow
    <3>3. track' = track \/ (track'.status = "ready" /\ track'.file = take.saved)
      BY <1>0, <2>9, <3>1 DEF FinishJoin, TrackRow
    <3>4. ~deleted => /\ track'.status = "ready"
                      /\ \A g \in Handlers \ {h} : ~HandlerAt(g, "join")
      <4>1. ~deleted => Mine(h) /\ \A g \in Handlers \ {h} : ~HandlerAt(g, "join")
        BY <3>1 DEF RecordingInv, JoinAlone, HandlerAt, Mine
      <4> QED
        BY <1>0, <2>9, <4>1 DEF FinishJoin, TrackRow
    <3>5. FinishFits(handler'[h]) /\ JoinAlone' /\ FileFits'
      BY <3>1, <3>2, <3>3, <3>4 DEF RecordingInv, FinishFits, JoinAlone, FileFits, HandlerAt, Growing
    <3>6. ~deleted /\ track.status = "ready" => track'.status = "ready"
      BY <3>4
    <3>7. ~deleted /\ Answer("ready").status = "ready" => track'.status = "ready"
      BY <3>4
    <3> QED
      BY <2>2, <3>1, <3>2, <3>5, <3>6, <3>7, FinishMoves
  <2>10. CASE FinishJoinGap(h) \/ FinishJoinFails(h)
    <3>1. handler[h].pc = "join" /\ JoinFailed(h)
      BY <2>10 DEF FinishJoinGap, FinishJoinFails, HandlerAt
    <3>2. Done(h) /\ Reply(h, Answer("failed")) /\ UNCHANGED <<take, deleted>> /\ Answer("failed").status = "failed"
      BY <3>1 DEF JoinFailed, Answer
    <3>3. track' = track \/ track'.status = "failed"
      BY <1>0, <3>1 DEF JoinFailed, TrackRow
    <3>4. ~deleted => /\ track.status = "assembling"
                      /\ \A g \in Handlers \ {h} : ~HandlerAt(g, "join")
      BY <3>1 DEF RecordingInv, JoinAlone, HandlerAt
    <3>5. JoinAlone' /\ FileFits'
      BY <2>1, <3>2, <3>3, <3>4 DEF RecordingInv, JoinAlone, FileFits, HandlerAt, Growing, Free
    <3> QED
      BY <2>1, <2>2, <3>2, <3>4, <3>5, FinishMoves
  <2>11. CASE ServerDies(h)
    <3>1. /\ Done(h) /\ UNCHANGED <<take, track, deleted>>
          /\ tab' = [u \in Tabs |-> IF handler[h].tab = u THEN EndPass(u) ELSE tab[u]]
      BY <2>11 DEF ServerDies
    <3>2. \A u \in Tabs : EndPass(u).pc = "idle" /\ ~EndPass(u).ended /\ EndPass(u).answer.status = "none"
      BY <1>0 DEF EndPass, Answer, TabRow
    <3>3. JoinAlone' /\ FileFits'
      BY <2>1, <3>1 DEF RecordingInv, JoinAlone, FileFits, HandlerAt, Growing, Free
    <3> QED
      BY <2>1, <3>1, <3>2, <3>3, FinishMoves
  <2> QED
    BY <1>5, <2>4, <2>5, <2>6, <2>7, <2>8, <2>9, <2>10, <2>11 DEF FinishStep
<1> QED
  BY <1>1, <1>2, <1>3, <1>4, <1>5 DEF RecordingNext

LEMMA RecordingInvariant ==
  ASSUME Punctual = TRUE, PatientJoin = TRUE
  PROVE  RecordingSpec => []RecordingInv
<1>1. RecordingTyped /\ RecordingInv /\ [RecordingNext]_recordingVars => RecordingInv'
  <2>1. ASSUME RecordingInv, UNCHANGED recordingVars PROVE RecordingInv'
    BY <2>1 DEF recordingVars, browser, server, RecordingInv, PassFits, WaitFits, FinishFits, JoinAlone,
                AnswerStands, FileFits, HeldFits, HandlerAt, Growing
  <2> QED
    BY <2>1, RecordingStep
<1> QED
  BY <1>1, RecordingInitInv, RecordingTypeCorrect, PTL DEF RecordingSpec

(* No file is joined short: what is on offer is all the recorder saved,     *)
(* through every interleaving of passes, late chunks, repeated finishes,    *)
(* taken-over claims and clean-ups, where a recorder at work never lists as *)
(* ended and no join outlasts its claim.                                    *)
THEOREM FilesAreWhole ==
  ASSUME Punctual = TRUE, PatientJoin = TRUE
  PROVE  RecordingSpec => []FileIsWhole
<1>1. RecordingInv => FileIsWhole
  BY DEF RecordingInv, FileFits, FileIsWhole
<1> QED
  BY <1>1, RecordingInvariant, PTL

(* A step of the uploader and the server is one of the promise's, or none   *)
(* of its business.                                                         *)
LEMMA HandoverStep ==
  ASSUME RecordingTyped, RecordingInv, RecordingNext
  PROVE  [\/ Promise!Save \/ Promise!End \/ Promise!Serve \/ Promise!Drop \/ Promise!Withdraw]_(Promise!handover)
<1> DEFINE served == IF track.status = "ready" THEN track.file ELSE 0
<1>0. take \in TakeRow /\ track \in TrackRow /\ tab \in [Tabs -> TabRow]
  BY RecordingTypes DEF RecordingTyped
<1> USE DEF browser, server
<1>1. ASSUME UNCHANGED <<take, deleted>>, served' = served PROVE UNCHANGED Promise!handover
  BY <1>1 DEF Promise!handover, Growing
<1>2. CASE SaveChunk
  <2>1. Growing /\ take.kept /\ UNCHANGED <<track, deleted>> /\ take' = [take EXCEPT !.saved = @ + 1]
    BY <1>2 DEF SaveChunk, RecordingInv, HeldFits
  <2>2. take'.saved = take.saved + 1 /\ take'.kept = take.kept /\ Growing'
    BY <1>0, <2>1 DEF TakeRow, Growing
  <2> QED
    BY <2>1, <2>2 DEF Promise!Save
<1>3. CASE StopRecorder \/ RecorderDies
  <2>1. UNCHANGED <<track, deleted>> /\ \E state \in {"stopped", "cut"} : take' = [take EXCEPT !.state = state]
    BY <1>3 DEF StopRecorder, RecorderDies
  <2>2. take'.saved = take.saved /\ take'.kept = take.kept /\ ~Growing'
    BY <1>0, <2>1 DEF TakeRow, Growing
  <2> QED
    BY <2>1, <2>2 DEF Promise!End
<1>4. CASE ChunkLands \/ AssemblyAges
  <2>1. UNCHANGED <<take, deleted>> /\ track'.status = track.status /\ track'.file = track.file
    BY <1>0, <1>4 DEF ChunkLands, AssemblyAges, TrackRow
  <2> QED
    BY <1>1, <2>1
<1>5. CASE DeleteTake
  <2>1. deleted' = TRUE /\ track'.status = "absent" /\ UNCHANGED take
    BY <1>0, <1>5 DEF DeleteTake, TrackRow
  <2> QED
    BY <2>1 DEF Promise!Withdraw, Growing
<1>6. ASSUME NEW t \in Tabs, PassStart(t) \/ PassStep(t) \/ SendFails(t) \/ RequestFails(t) \/ TabReopens(t)
      PROVE  Promise!Drop \/ UNCHANGED Promise!handover
  <2>1. CASE HandleAnswer(t) /\ take' # take
    <3>1. /\ take' = [take EXCEPT !.kept = FALSE] /\ UNCHANGED <<track, deleted>> /\ tab[t].pc = "answer"
          /\ tab[t].kept = 0 \/ tab[t].answer.status = "ready"
      BY <2>1 DEF HandleAnswer, Forget, TabAt
    <3>2. take.kept /\ take'.saved = take.saved /\ take'.kept = FALSE /\ (Growing' <=> Growing)
      BY <1>0, <2>1, <3>1 DEF TakeRow, Growing
    <3>3. ~Growing /\ (tab[t].kept = 0 => take.saved = 0)
      BY <3>1, <3>2 DEF RecordingInv, PassFits
    <3>4. served = take.saved \/ deleted
      BY <3>1, <3>3 DEF RecordingInv, AnswerStands, FileFits
    <3> QED
      BY <3>1, <3>2, <3>3, <3>4 DEF Promise!Drop
  <2>2. CASE ~(HandleAnswer(t) /\ take' # take)
    <3>1. UNCHANGED <<take, deleted>>
      BY <1>6, <2>2 DEF PassStart, PassStep, PassLoad, Register, SendNothing, SendChunk, SendUnfiled, AskUrls, Refile,
                        AskFinish, PassEnd, HandleAnswer, SendFails, RequestFails, TabReopens
    <3>2. track' \in {track, Filed}
      BY <1>6 DEF PassStart, PassStep, PassLoad, Register, SendNothing, SendChunk, SendUnfiled, AskUrls, Refile,
                  AskFinish, PassEnd, HandleAnswer, SendFails, RequestFails, TabReopens
    <3>3. served' = served
      BY <3>2 DEF Filed
    <3> QED
      BY <1>1, <3>1, <3>3
  <2> QED
    BY <2>1, <2>2
<1>7. ASSUME NEW h \in Handlers, FinishStep(h) \/ FinishJoinFails(h) \/ ServerDies(h)
      PROVE  Promise!Serve \/ Promise!Withdraw \/ UNCHANGED Promise!handover
  <2>0. UNCHANGED <<take, deleted>> /\ FinishFits(handler[h])
    BY <1>7 DEF RecordingInv, FinishStep, FinishRead, FinishEmpty, FinishList, FinishClaim, FinishUnclaimed,
                FinishJoin, FinishJoinGap, FinishClean, FinishJoinFails, JoinFailed, ServerDies
  <2>1. CASE FinishJoin(h)
    <3>1. ~Growing /\ handler[h].chunks = take.saved
      BY <2>0, <2>1 DEF FinishJoin, HandlerAt, FinishFits
    <3>2. track' = track \/ (track'.status = "ready" /\ track'.file = take.saved)
      BY <1>0, <2>1, <3>1 DEF FinishJoin, TrackRow
    <3> QED
      BY <1>1, <2>0, <3>1, <3>2 DEF Promise!Serve, Growing
  <2>2. CASE FinishJoinGap(h) \/ FinishJoinFails(h)
    <3>1. HandlerAt(h, "join") /\ (track' = track \/ track'.status = "failed")
      BY <1>0, <2>2 DEF FinishJoinGap, FinishJoinFails, JoinFailed, TrackRow
    <3>2. ~deleted => served' = served
      BY <3>1 DEF RecordingInv, JoinAlone
    <3>3. served' = served \/ served' = 0
      BY <3>1
    <3> QED
      BY <1>1, <2>0, <3>2, <3>3 DEF Promise!Withdraw, Growing
  <2>3. CASE FinishEmpty(h) \/ FinishClaim(h)
    <3>1. track' = track \/ (track.status # "ready" /\ track'.status # "ready")
      BY <1>0, <2>3 DEF FinishEmpty, FinishClaim, Claimable, Accepts, TrackRow
    <3> QED
      BY <1>1, <2>0, <3>1
  <2>4. CASE FinishRead(h) \/ FinishList(h) \/ FinishUnclaimed(h) \/ FinishClean(h) \/ ServerDies(h)
    BY <1>1, <2>0, <2>4 DEF FinishRead, FinishList, FinishUnclaimed, FinishClean, ServerDies
  <2> QED
    BY <1>7, <2>1, <2>2, <2>3, <2>4 DEF FinishStep
<1> QED
  BY <1>1, <1>2, <1>3, <1>4, <1>5, <1>6, <1>7 DEF RecordingNext

(* The upload keeps the recorder's promise: the detailed specification      *)
(* implements TakeHandover.  A take is dropped from the browser only once   *)
(* the file on offer holds all of it, or once it was deleted, and a file    *)
(* once on offer stays unless the take is deleted.                          *)
THEOREM HandoverIsKept ==
  ASSUME Punctual = TRUE, PatientJoin = TRUE
  PROVE  RecordingSpec => HandoverKept
<1>1. RecordingInit => Promise!Empty
  BY DEF RecordingInit, Promise!Empty, Growing
<1>2. RecordingTyped /\ RecordingInv /\ [RecordingNext]_recordingVars =>
        [\/ Promise!Save \/ Promise!End \/ Promise!Serve \/ Promise!Drop \/ Promise!Withdraw]_(Promise!handover)
  <2>1. UNCHANGED recordingVars => UNCHANGED Promise!handover
    BY DEF recordingVars, browser, server, Promise!handover, Growing
  <2> QED
    BY <2>1, HandoverStep
<1> QED
  BY <1>1, <1>2, RecordingInvariant, RecordingTypeCorrect, PTL DEF RecordingSpec, HandoverKept, Promise!Handover

-----------------------------------------------------------------------------
(* IrisSitting.                                                            *)
SittingRow == [id : Nat, status : {"none", "open", "finished"}, bank : Nat, level : Levels, up : Nat, down : Nat,
               phase : {"main", "tiebreak"}, tieLeft : 0 .. TIE_N - 1, ask : 0 .. 3, asked : Counts,
               right : Counts, left : Counts, placement : 0 .. 3]
VisitRow == [pc : {"rest", "look", "drop", "check", "draw", "insert", "answer"},
             shows : {"none", "now", "before", "gone"}, id : Nat, bank : Nat, left : Counts]
IrisTyped == IrisTypeOK /\ (Open => sitting.ask \in Levels)
SatRow == [from : Counts, thinned : BOOLEAN, placed : 0 .. 3, fell : BOOLEAN]

(* What a page's request goes by: who is to insert has counted enough       *)
(* questions, an answer to the question on screen goes by the counts the    *)
(* sitting has unless some were withdrawn, and who is to drop a sitting has *)
(* met it on another bank.                                                  *)
PageFits(w) ==
  /\ w.pc = "insert" => Total(w.left) >= MIN
  /\ w.pc = "answer" /\ w.shows = "now" => sat.thinned \/ w.left = sitting.left
  /\ sitting.status = "none" => w.shows \in {"none", "gone"}
  /\ w.id <= sitting.id
  /\ w.pc = "drop" /\ w.id = sitting.id /\ sitting.status # "none" => w.bank # sitting.bank

(* How long a sitting may still last.                                       *)
LengthFits(s) ==
  IF s.phase = "main" THEN Total(s.asked) < MAX
  ELSE Total(s.asked) + s.tieLeft < MAX + TIE_N /\ (sat.thinned \/ Total(s.asked) >= MIN)

(* Every question there was is asked, on screen, or left, unless some were  *)
(* withdrawn.                                                               *)
One(b) == IF b THEN 1 ELSE 0
CountsFit(s) ==
  sat.thinned \/ /\ Total(sat.from) >= MIN
                 /\ \A lv \in Levels : s.asked[lv] + s.left[lv] + One(s.ask = lv) = sat.from[lv]

(* Who answers everything right goes up after two questions, and is then    *)
(* asked at the top while there is something left to ask.                   *)
ClimbFits(s) ==
  s.right = s.asked =>
    /\ s.phase = "main"
    /\ s.level = 3 \/ (s.level = 2 /\ s.up = Total(s.asked))
    /\ sat.thinned \/ s.left[3] = 0 \/ s.asked[1] + s.asked[2] + One(s.ask # 3) <= 2

(* A tiebreak asks above the placement it started from, which stays earned. *)
TieFits(s) ==
  IF s.phase = "main" THEN sat.placed = 0
  ELSE /\ sat.placed \in Levels
       /\ sat.fell \/ (s.level = sat.placed + 1 /\ s.ask = s.level /\ (Earned(s, sat.placed) \/ sat.placed = 1))

OpenFits(s) == LengthFits(s) /\ CountsFit(s) /\ ClimbFits(s) /\ TieFits(s)

IrisInv ==
  /\ \A v \in Visits : PageFits(visit[v])
  /\ Open => OpenFits(sitting)
  /\ SittingIsFair

LEMMA IrisTypes ==
  IrisTypeOK <=>
    /\ sitting \in SittingRow /\ \A lv \in Levels : sitting.right[lv] <= sitting.asked[lv]
    /\ bank \in [number : Nat, approved : Counts]
    /\ visit \in [Visits -> VisitRow]
    /\ irisLeft \in Budgets
    /\ sat \in SatRow
  BY DEF IrisTypeOK, SittingRow, VisitRow, SatRow

LEMMA LevelsAre == \A lv : lv \in Levels <=> lv = 1 \/ lv = 2 \/ lv = 3
  BY DEF Levels

LEMMA TotalIsNat ==
  ASSUME NEW f \in Counts
  PROVE  Total(f) \in Nat /\ \A lv \in Levels : f[lv] \in Nat
  BY LevelsAre DEF Counts, Total

(* Something is drawn while something is left, at the level asked for if    *)
(* there is any of it.                                                      *)
LEMMA Drawn ==
  ASSUME NEW left \in Counts, NEW level \in Levels
  PROVE  /\ \A lv \in DrawItem(left, level) : lv \in Levels /\ left[lv] > 0
         /\ left[level] > 0 => DrawItem(left, level) = {level}
         /\ DrawItem(left, level) = {} => \A lv \in Levels : left[lv] = 0
<1>1. left[1] \in Nat /\ left[2] \in Nat /\ left[3] \in Nat
  BY LevelsAre DEF Counts
<1>2. \A lv \in Levels : Distance(lv, level) \in Nat /\ (Distance(lv, level) = 0 <=> lv = level)
  BY LevelsAre DEF Distance
<1>3. left[level] > 0 => DrawItem(left, level) = {level}
  BY <1>2 DEF DrawItem
<1>4. ASSUME NEW lv \in Levels, left[lv] > 0 PROVE DrawItem(left, level) # {}
  <2>1. CASE level = 1
    BY <1>1, <1>4, <2>1, LevelsAre DEF DrawItem, Distance
  <2>2. CASE level = 2
    BY <1>1, <1>4, <2>2, LevelsAre DEF DrawItem, Distance
  <2>3. CASE level = 3
    BY <1>1, <1>4, <2>3, LevelsAre DEF DrawItem, Distance
  <2> QED
    BY <2>1, <2>2, <2>3, LevelsAre
<1>5. \A lv \in Levels : left[lv] = 0 \/ left[lv] > 0
  BY <1>1, LevelsAre
<1> QED
  BY <1>3, <1>4, <1>5 DEF DrawItem

LEMMA Placed ==
  ASSUME NEW s \in SittingRow
  PROVE  /\ PlacementOf(s) \in Levels
         /\ Earned(s, PlacementOf(s)) \/ PlacementOf(s) = 1
         /\ \A lv \in Levels : Earned(s, lv) => lv <= PlacementOf(s)
<1> DEFINE Fit(p) == (Earned(s, p) \/ p = 1) /\ \A lv \in Levels : Earned(s, lv) => lv <= p
<1>1. \E p \in Levels : Fit(p)
  <2>1. CASE Earned(s, 3)
    BY <2>1, LevelsAre
  <2>2. CASE ~Earned(s, 3) /\ Earned(s, 2)
    BY <2>2, LevelsAre
  <2>3. CASE ~Earned(s, 3) /\ ~Earned(s, 2)
    BY <2>3, LevelsAre
  <2> QED
    BY <2>1, <2>2, <2>3
<1>2. PlacementOf(s) = CHOOSE p \in Levels : Fit(p)
  BY DEF PlacementOf
<1> HIDE DEF Fit
<1>3. PlacementOf(s) \in Levels /\ Fit(PlacementOf(s))
  BY <1>1, <1>2
<1> QED
  BY <1>3 DEF Fit

Kept(n, s) == n.id = s.id /\ n.status = s.status /\ n.bank = s.bank /\ n.left = s.left /\ n.placement = s.placement

LEMMA Tally ==
  ASSUME NEW s \in SittingRow, s.ask \in Levels, NEW correct \in BOOLEAN,
         \A lv \in Levels : s.right[lv] <= s.asked[lv]
  PROVE  LET t == Tallied(s, correct) IN
         /\ t \in SittingRow /\ Kept(t, s)
         /\ t.level = s.level /\ t.up = s.up /\ t.phase = s.phase /\ t.tieLeft = s.tieLeft /\ t.ask = s.ask
         /\ \A lv \in Levels : /\ t.asked[lv] = s.asked[lv] + One(s.ask = lv)
                               /\ t.right[lv] = s.right[lv] + One(s.ask = lv /\ correct)
                               /\ t.right[lv] <= t.asked[lv]
         /\ Total(t.asked) = Total(s.asked) + 1
<1> DEFINE t == Tallied(s, correct)
<1>1. s.asked \in Counts /\ s.right \in Counts
  BY DEF SittingRow
<1>2. /\ t.asked = [s.asked EXCEPT ![s.ask] = @ + 1]
      /\ t.right = [s.right EXCEPT ![s.ask] = IF correct THEN @ + 1 ELSE @]
      /\ t = [s EXCEPT !.asked = t.asked, !.right = t.right]
  BY DEF Tallied, SittingRow
<1> HIDE DEF t
<1>3. t.asked \in Counts /\ t.right \in Counts
  BY <1>1, <1>2 DEF Counts
<1>4. /\ t \in SittingRow /\ Kept(t, s)
      /\ t.level = s.level /\ t.up = s.up /\ t.phase = s.phase /\ t.tieLeft = s.tieLeft /\ t.ask = s.ask
  <2>1. ASSUME NEW a \in Counts, NEW r \in Counts, NEW u, u = [s EXCEPT !.asked = a, !.right = r]
        PROVE  /\ u \in SittingRow /\ Kept(u, s)
               /\ u.level = s.level /\ u.up = s.up /\ u.phase = s.phase /\ u.tieLeft = s.tieLeft /\ u.ask = s.ask
    BY <2>1 DEF SittingRow, Kept
  <2>2. PICK a \in Counts, r \in Counts : t = [s EXCEPT !.asked = a, !.right = r]
    BY <1>2, <1>3
  <2> QED
    BY <2>1, <2>2
<1>5. \A lv \in Levels : /\ t.asked[lv] = s.asked[lv] + One(s.ask = lv)
                         /\ t.right[lv] = s.right[lv] + One(s.ask = lv /\ correct)
                         /\ t.right[lv] <= t.asked[lv]
  BY <1>1, <1>2 DEF Counts, One
<1>6. Total(t.asked) = Total(s.asked) + 1
  BY <1>1, <1>5, LevelsAre, TotalIsNat DEF Total, One
<1> QED
  BY <1>4, <1>5, <1>6 DEF t

LEMMA Move ==
  ASSUME NEW s \in SittingRow, NEW correct \in BOOLEAN
  PROVE  LET m == Moved(s, correct) IN
         /\ m \in SittingRow /\ Kept(m, s) /\ m.phase = s.phase /\ m.tieLeft = s.tieLeft /\ m.ask = s.ask
         /\ m.asked = s.asked /\ m.right = s.right
         /\ correct /\ s.level = 3 => m.level = 3
         /\ correct /\ s.level = 2 => m.level = 3 \/ (m.level = 2 /\ s.up = 0 /\ m.up = 1)
<1> DEFINE m == Moved(s, correct)
<1>1. \E level \in Levels, up \in Nat, down \in Nat :
        /\ m = [s EXCEPT !.level = level, !.up = up, !.down = down]
        /\ correct /\ s.level = 3 => level = 3
        /\ correct /\ s.level = 2 => level = 3 \/ (level = 2 /\ s.up = 0 /\ up = 1)
  <2>1. s.level \in Levels /\ s.up \in Nat /\ s.down \in Nat
    BY DEF SittingRow
  <2>2. CountUp(s.up) \in Nat /\ CountDown(s.down) \in Nat /\ (s.up = 0 => CountUp(s.up) = 1)
    BY <2>1 DEF CountUp, CountDown, UP, DOWN
  <2>3. CASE correct /\ s.up + 1 >= UP /\ s.level < 3
    <3>1. s.level + 1 \in Levels /\ (s.level = 2 => s.level + 1 = 3)
      BY <2>1, <2>3, LevelsAre
    <3>2. m = [s EXCEPT !.level = s.level + 1, !.up = 0, !.down = 0]
      BY <2>3 DEF Moved, SittingRow
    <3>3. s.level # 3
      BY <2>1, <2>3
    <3> USE <3>1
    <3> WITNESS s.level + 1 \in Levels, 0 \in Nat, 0 \in Nat
    <3> QED
      BY <3>1, <3>2, <3>3
  <2>4. CASE correct /\ ~(s.up + 1 >= UP /\ s.level < 3)
    <3>1. m = [s EXCEPT !.level = s.level, !.up = CountUp(s.up), !.down = 0]
      BY <2>4 DEF Moved, SittingRow
    <3>2. s.level = 2 => s.up = 0
      BY <2>1, <2>4 DEF UP
    <3> QED
      BY <2>1, <2>2, <3>1, <3>2
  <2>5. CASE ~correct /\ s.down + 1 >= DOWN /\ s.level > 1
    <3>1. s.level - 1 \in Levels
      BY <2>1, <2>5, LevelsAre
    <3>2. m = [s EXCEPT !.level = s.level - 1, !.up = 0, !.down = 0]
      BY <2>5 DEF Moved, SittingRow
    <3> QED
      BY <2>5, <3>1, <3>2
  <2>6. CASE ~correct /\ ~(s.down + 1 >= DOWN /\ s.level > 1)
    <3>1. m = [s EXCEPT !.level = s.level, !.up = 0, !.down = CountDown(s.down)]
      BY <2>6 DEF Moved, SittingRow
    <3> QED
      BY <2>1, <2>2, <2>6, <3>1
  <2> QED
    BY <2>3, <2>4, <2>5, <2>6
<1> HIDE DEF m
<1>2. PICK level \in Levels, up \in Nat, down \in Nat :
        /\ m = [s EXCEPT !.level = level, !.up = up, !.down = down]
        /\ correct /\ s.level = 3 => level = 3
        /\ correct /\ s.level = 2 => level = 3 \/ (level = 2 /\ s.up = 0 /\ up = 1)
  BY <1>1
<1>3. /\ m \in SittingRow /\ Kept(m, s) /\ m.phase = s.phase /\ m.tieLeft = s.tieLeft /\ m.ask = s.ask
      /\ m.asked = s.asked /\ m.right = s.right /\ m.level = level /\ m.up = up
  BY <1>2 DEF SittingRow, Kept
<1> QED
  BY <1>2, <1>3 DEF m

(* The sitting once an answer is counted, before its next question.         *)
After(s, correct) == IF s.phase = "main" THEN Moved(Tallied(s, correct), correct) ELSE Tallied(s, correct)

(* With a next question: the adaptive part goes on, a tiebreak begins, or   *)
(* it goes on.                                                              *)
LEMMA Submitted ==
  ASSUME NEW s \in SittingRow, s.ask \in Levels, NEW correct \in BOOLEAN, NEW left \in Counts,
         \A lv \in Levels : s.right[lv] <= s.asked[lv],
         NEW n \in Submit(s, correct, left)
  PROVE  LET a == After(s, correct) IN
         /\ n \in SittingRow /\ Kept(n, s) /\ n.ask \in DrawItem(left, n.level)
         /\ n.asked = a.asked /\ n.right = a.right
         /\ \/ s.phase = "main" /\ n.phase = "main" /\ n.level = a.level /\ n.up = a.up /\ ~EnoughAsked(a)
            \/ /\ s.phase = "main" /\ n.phase = "tiebreak" /\ n.tieLeft = TIE_N - 1
               /\ n.level \in TiebreakLevel(a)
               /\ EnoughAsked(a) \/ DrawItem(left, a.level) = {}
            \/ /\ s.phase = "tiebreak" /\ n.phase = "tiebreak" /\ n.level = a.level
               /\ s.tieLeft > 0 /\ n.tieLeft = s.tieLeft - 1
<1> DEFINE a == After(s, correct)
<1>1. a \in SittingRow /\ Kept(a, s) /\ a.phase = s.phase /\ a.tieLeft = s.tieLeft
  BY Tally, Move DEF After, Kept
<1>2. n \in GoesOn(a, left) \/ (GoesOn(a, left) = {} /\ n \in BreaksTie(a, left))
  BY DEF Submit, After
<1> HIDE DEF a
<1>3. \A level \in Levels : DrawItem(left, level) \subseteq 0 .. 3
  BY LevelsAre DEF DrawItem
<1>4. a.level \in Levels /\ a.tieLeft \in 0 .. 2 /\ TIE_N - 1 = 2
  BY <1>1 DEF SittingRow, TIE_N
<1>5. CASE n \in GoesOn(a, left) /\ a.phase = "main"
  <2>1. PICK lv \in DrawItem(left, a.level) : n = [a EXCEPT !.ask = lv] /\ ~EnoughAsked(a)
    BY <1>5 DEF GoesOn
  <2>2. lv \in 0 .. 3
    BY <1>3, <1>4
  <2>3. /\ n \in SittingRow /\ Kept(n, a) /\ n.ask = lv /\ n.asked = a.asked /\ n.right = a.right
        /\ n.level = a.level /\ n.up = a.up /\ n.phase = a.phase
    BY <1>1, <2>1, <2>2 DEF SittingRow, Kept
  <2> QED
    BY <1>1, <1>5, <2>1, <2>3 DEF a, Kept
<1>6. CASE n \in GoesOn(a, left) /\ a.phase # "main"
  <2>1. PICK lv \in DrawItem(left, a.level) : n = [a EXCEPT !.ask = lv, !.tieLeft = a.tieLeft - 1] /\ a.tieLeft > 0
    BY <1>1, <1>6 DEF GoesOn, SittingRow
  <2>2. lv \in 0 .. 3 /\ a.tieLeft - 1 \in 0 .. TIE_N - 1
    BY <1>3, <1>4, <2>1
  <2>3. /\ n \in SittingRow /\ Kept(n, a) /\ n.ask = lv /\ n.asked = a.asked /\ n.right = a.right
        /\ n.level = a.level /\ n.phase = a.phase /\ n.tieLeft = a.tieLeft - 1
    <3>1. ASSUME NEW k \in 0 .. TIE_N - 1, n = [a EXCEPT !.ask = lv, !.tieLeft = k]
          PROVE  /\ n \in SittingRow /\ Kept(n, a) /\ n.ask = lv /\ n.asked = a.asked /\ n.right = a.right
                 /\ n.level = a.level /\ n.phase = a.phase /\ n.tieLeft = k
      BY <1>1, <2>2, <3>1 DEF SittingRow, Kept
    <3> QED
      BY <2>1, <2>2, <3>1
  <2>4. a.phase = "tiebreak"
    BY <1>1, <1>6 DEF SittingRow
  <2> QED
    BY <1>1, <2>1, <2>3, <2>4 DEF a, Kept
<1>7. CASE GoesOn(a, left) = {} /\ n \in BreaksTie(a, left)
  <2>1. PICK tie \in TiebreakLevel(a) : \E lv \in DrawItem(left, tie) :
          n = [a EXCEPT !.ask = lv, !.phase = "tiebreak", !.tieLeft = TIE_N - 1, !.level = tie] /\ a.phase = "main"
    BY <1>7 DEF BreaksTie
  <2>2. PICK lv \in DrawItem(left, tie) :
          n = [a EXCEPT !.ask = lv, !.phase = "tiebreak", !.tieLeft = TIE_N - 1, !.level = tie] /\ a.phase = "main"
    BY <2>1
  <2>3. tie \in Levels /\ lv \in 0 .. 3
    BY <1>3 DEF TiebreakLevel
  <2>4. /\ n \in SittingRow /\ Kept(n, a) /\ n.ask = lv /\ n.asked = a.asked /\ n.right = a.right
        /\ n.level = tie /\ n.phase = "tiebreak" /\ n.tieLeft = TIE_N - 1
    <3>1. ASSUME NEW k \in 0 .. TIE_N - 1,
                 n = [a EXCEPT !.ask = lv, !.phase = "tiebreak", !.tieLeft = k, !.level = tie]
          PROVE  /\ n \in SittingRow /\ Kept(n, a) /\ n.ask = lv /\ n.asked = a.asked /\ n.right = a.right
                 /\ n.level = tie /\ n.phase = "tiebreak" /\ n.tieLeft = k
      BY <1>1, <2>3, <3>1 DEF SittingRow, Kept
    <3>2. TIE_N - 1 \in 0 .. TIE_N - 1
      BY DEF TIE_N
    <3> QED
      BY <2>2, <3>1, <3>2
  <2>5. EnoughAsked(a) \/ DrawItem(left, a.level) = {}
    BY <1>7, <2>2 DEF GoesOn
  <2> QED
    BY <1>1, <2>2, <2>4, <2>5 DEF a, Kept
<1> QED
  BY <1>2, <1>5, <1>6, <1>7

(* With none, the adaptive part has asked enough or has nothing left.       *)
LEMMA SubmitEnds ==
  ASSUME NEW s \in SittingRow, s.ask \in Levels, NEW correct \in BOOLEAN, NEW left \in Counts,
         \A lv \in Levels : s.right[lv] <= s.asked[lv],
         s.phase = "main", Submit(s, correct, left) = {}
  PROVE  EnoughAsked(After(s, correct)) \/ DrawItem(left, After(s, correct).level) = {}
<1>1. After(s, correct).phase = "main"
  BY Tally, Move DEF After
<1>2. GoesOn(After(s, correct), left) = {}
  BY DEF Submit, After
<1> QED
  BY <1>1, <1>2 DEF GoesOn

LEMMA LeftOverIs ==
  ASSUME NEW now \in Counts, NEW read \in Counts, NEW lv \in Levels, NEW l \in LeftOver(now, read, lv)
  PROVE  /\ l \in Counts /\ \A m \in Levels : l[m] <= now[m]
         /\ read = now /\ now[lv] > 0 => \A m \in Levels : now[m] = l[m] + One(m = lv)
<1>1. PICK k \in 0 .. now[lv] : l = [now EXCEPT ![lv] = k] /\ (k + 1 = now[lv] \/ (k = now[lv] /\ read[lv] > k))
  BY DEF LeftOver
<1>2. now[lv] \in Nat /\ k \in Nat
  BY <1>1 DEF Counts
<1>3. l \in Counts /\ l[lv] = k /\ \A m \in Levels \ {lv} : l[m] = now[m]
  BY <1>1, <1>2 DEF Counts
<1>4. \A m \in Levels : l[m] \in Nat /\ now[m] \in Nat
  BY <1>3 DEF Counts
<1> QED
  BY <1>1, <1>2, <1>3, <1>4 DEF One

(* What an answer does to the tallies, whatever phase it falls in.          *)
LEMMA CountsGrow ==
  ASSUME NEW s \in SittingRow, s.ask \in Levels, NEW correct \in BOOLEAN,
         \A lv \in Levels : s.right[lv] <= s.asked[lv],
         NEW n \in SittingRow, n.asked = Tallied(s, correct).asked, n.right = Tallied(s, correct).right
  PROVE  /\ \A lv \in Levels : /\ n.asked[lv] \in Nat /\ n.right[lv] \in Nat /\ n.right[lv] <= n.asked[lv]
                               /\ s.asked[lv] \in Nat /\ s.right[lv] \in Nat
                               /\ n.asked[lv] = s.asked[lv] + One(s.ask = lv)
                               /\ n.right[lv] = s.right[lv] + One(s.ask = lv /\ correct)
         /\ Total(n.asked) \in Nat /\ Total(s.asked) \in Nat /\ Total(n.asked) = Total(s.asked) + 1
         /\ n.right = n.asked => correct /\ s.right = s.asked
<1>1. s.asked \in Counts /\ s.right \in Counts /\ n.asked \in Counts /\ n.right \in Counts
  BY DEF SittingRow
<1>2. /\ \A lv \in Levels : /\ n.asked[lv] \in Nat /\ n.right[lv] \in Nat /\ n.right[lv] <= n.asked[lv]
                            /\ s.asked[lv] \in Nat /\ s.right[lv] \in Nat
                            /\ n.asked[lv] = s.asked[lv] + One(s.ask = lv)
                            /\ n.right[lv] = s.right[lv] + One(s.ask = lv /\ correct)
      /\ Total(n.asked) \in Nat /\ Total(s.asked) \in Nat /\ Total(n.asked) = Total(s.asked) + 1
  BY <1>1, TotalIsNat, Tally
<1>3. ASSUME n.right = n.asked PROVE correct /\ s.right = s.asked
  <2>1. correct
    BY <1>2, <1>3 DEF One
  <2>2. \A lv \in Levels : s.right[lv] = s.asked[lv]
    BY <1>2, <1>3 DEF One
  <2>3. s.right = s.asked
    BY <1>1, <2>2 DEF Counts
  <2> QED
    BY <2>1, <2>3
<1> QED
  BY <1>2, <1>3

(* Placements follow from the tallies alone, and those of the adaptive part *)
(* and of what is counted are the same.                                     *)
LEMMA SamePlacement ==
  ASSUME NEW s \in SittingRow, NEW n \in SittingRow, n.asked = s.asked, n.right = s.right
  PROVE  PlacementOf(n) = PlacementOf(s) /\ \A lv : Earned(n, lv) <=> Earned(s, lv)
<1>1. \A lv : Earned(n, lv) <=> Earned(s, lv)
  BY DEF Earned
<1>2. PlacementOf(n) <= PlacementOf(s) /\ PlacementOf(s) <= PlacementOf(n)
  BY <1>1, Placed, LevelsAre
<1>3. PlacementOf(n) \in Nat /\ PlacementOf(s) \in Nat
  BY Placed, LevelsAre
<1> QED
  BY <1>1, <1>2, <1>3

LEMMA AfterIsCounted ==
  ASSUME NEW s \in SittingRow, s.ask \in Levels, NEW correct \in BOOLEAN,
         \A lv \in Levels : s.right[lv] <= s.asked[lv]
  PROVE  LET a == After(s, correct) IN
         /\ a \in SittingRow /\ a.asked = Tallied(s, correct).asked /\ a.right = Tallied(s, correct).right
         /\ s.phase = "main" /\ correct =>
              /\ s.level = 3 => a.level = 3
              /\ s.level = 2 => a.level = 3 \/ (a.level = 2 /\ s.up = 0 /\ a.up = 1)
         /\ s.phase # "main" => a.level = s.level
<1>1. CASE s.phase = "main"
  BY <1>1, Tally, Move DEF After
<1>2. CASE s.phase # "main"
  BY <1>2, Tally DEF After
<1> QED
  BY <1>1, <1>2

(* When nothing is left and nothing was withdrawn, all there was is asked.  *)
LEMMA AllAsked ==
  ASSUME IrisTypeOK, sitting.ask \in Levels, NEW correct \in BOOLEAN, CountsFit(sitting), ~sat.thinned,
         \A lv \in Levels : sitting.left[lv] = 0,
         NEW n \in SittingRow, n.asked = Tallied(sitting, correct).asked, n.right = Tallied(sitting, correct).right
  PROVE  (\A lv \in Levels : n.asked[lv] = sat.from[lv]) /\ Total(n.asked) >= MIN
<1>1. sitting \in SittingRow /\ sat \in SatRow /\ \A lv \in Levels : sitting.right[lv] <= sitting.asked[lv]
  BY IrisTypes
<1>2. \A lv \in Levels : n.asked[lv] = sat.from[lv]
  <2> TAKE lv \in Levels
  <2>1. n.asked[lv] = sitting.asked[lv] + One(sitting.ask = lv) /\ sitting.asked[lv] \in Nat
    BY <1>1, CountsGrow
  <2>2. sitting.asked[lv] + sitting.left[lv] + One(sitting.ask = lv) = sat.from[lv]
    BY DEF CountsFit
  <2> QED
    BY <2>1, <2>2 DEF One
<1>3. Total(n.asked) = Total(sat.from)
  BY <1>2, LevelsAre DEF Total
<1> QED
  BY <1>2, <1>3 DEF CountsFit

(* The tallies after an answer once everything is answered right: a tie is  *)
(* out of the question, and so is being settled below the top.              *)
LEMMA AllRight ==
  ASSUME NEW s \in SittingRow, s.right = s.asked
  PROVE  TiebreakLevel(s) = {} /\ (Settled(s) => s.asked[3] >= 3)
<1>1. \A lv \in Levels : s.asked[lv] \in Nat /\ s.right[lv] = s.asked[lv]
  BY DEF SittingRow, Counts
<1>2. TiebreakLevel(s) = {}
  BY <1>1 DEF TiebreakLevel, MIN_AT_LEVEL
<1>3. ASSUME Settled(s) PROVE s.asked[3] >= 3
  <2> DEFINE p == PlacementOf(s)
  <2>1. p \in Levels
    BY Placed
  <2>2. s.asked[p] >= 4 /\ (p # 3 => s.asked[p + 1] >= 3 /\ 2 * s.right[p + 1] < s.asked[p + 1])
    BY <1>3 DEF Settled, MIN_AT_LEVEL
  <2> HIDE DEF p
  <2>3. p = 3
    <3>1. ASSUME p # 3 PROVE FALSE
      <4>1. p + 1 \in Levels
        BY <2>1, <3>1, LevelsAre
      <4> QED
        BY <1>1, <2>2, <3>1, <4>1
    <3> QED
      BY <3>1
  <2> QED
    BY <1>1, <2>2, <2>3, LevelsAre
<1> QED
  BY <1>2, <1>3

(* An answer with a question to follow.                                     *)
LEMMA AnswerGoesOn ==
  ASSUME IrisTyped, Open, OpenFits(sitting), NEW correct \in BOOLEAN, NEW left \in Counts,
         sat.thinned \/ left = sitting.left,
         NEW n \in Submit(sitting, correct, left), NEW l \in LeftOver(sitting.left, left, n.ask),
         sitting' = [n EXCEPT !.left = l],
         sat' = IF n.phase = "main" THEN sat
                ELSE [sat EXCEPT !.placed = IF @ = 0 THEN PlacementOf(n) ELSE @, !.fell = @ \/ n.ask # n.level]
  PROVE  /\ sitting' \in SittingRow /\ sitting'.ask \in Levels /\ Open'
         /\ sitting'.id = sitting.id /\ sitting'.bank = sitting.bank
         /\ \A lv \in Levels : sitting'.right[lv] <= sitting'.asked[lv]
         /\ sat' \in SatRow /\ OpenFits(sitting)'
<1> DEFINE s == sitting
           a == After(s, correct)
<1>0. s \in SittingRow /\ s.ask \in Levels /\ sat \in SatRow /\ \A lv \in Levels : s.right[lv] <= s.asked[lv]
  BY IrisTypes DEF IrisTyped
<1>1. a \in SittingRow /\ a.asked = Tallied(s, correct).asked /\ a.right = Tallied(s, correct).right
  BY <1>0, AfterIsCounted
<1>2. /\ n \in SittingRow /\ Kept(n, s) /\ n.ask \in DrawItem(left, n.level)
      /\ n.asked = a.asked /\ n.right = a.right
      /\ \/ s.phase = "main" /\ n.phase = "main" /\ n.level = a.level /\ n.up = a.up /\ ~EnoughAsked(a)
         \/ /\ s.phase = "main" /\ n.phase = "tiebreak" /\ n.tieLeft = TIE_N - 1
            /\ n.level \in TiebreakLevel(a)
            /\ EnoughAsked(a) \/ DrawItem(left, a.level) = {}
         \/ /\ s.phase = "tiebreak" /\ n.phase = "tiebreak" /\ n.level = a.level
            /\ s.tieLeft > 0 /\ n.tieLeft = s.tieLeft - 1
  BY <1>0, Submitted
<1>3. /\ s.level \in Levels /\ n.level \in Levels /\ n.ask \in Levels /\ left[n.ask] > 0
      /\ a.level \in Levels /\ n.left = s.left /\ s.left \in Counts
      /\ n.level = 3 /\ left[3] > 0 => n.ask = 3
  <2>1. n.level \in Levels /\ s.level \in Levels /\ a.level \in Levels /\ n.left = s.left /\ s.left \in Counts
    BY <1>0, <1>1, <1>2 DEF SittingRow, Kept
  <2> QED
    BY <1>2, <2>1, Drawn
<1>4. /\ \A lv \in Levels : /\ n.asked[lv] \in Nat /\ n.right[lv] \in Nat /\ n.right[lv] <= n.asked[lv]
                            /\ s.asked[lv] \in Nat /\ s.right[lv] \in Nat
                            /\ n.asked[lv] = s.asked[lv] + One(s.ask = lv)
                            /\ n.right[lv] = s.right[lv] + One(s.ask = lv /\ correct)
      /\ Total(n.asked) \in Nat /\ Total(s.asked) \in Nat /\ Total(n.asked) = Total(s.asked) + 1
      /\ n.right = n.asked => correct /\ s.right = s.asked
  BY <1>0, <1>1, <1>2, CountsGrow
<1>5. /\ l \in Counts /\ \A m \in Levels : l[m] <= s.left[m]
      /\ left = s.left => \A m \in Levels : s.left[m] = l[m] + One(m = n.ask)
  BY <1>3, LeftOverIs
<1>6. \A m \in Levels : l[m] \in Nat /\ s.left[m] \in Nat
  BY <1>3, <1>5 DEF Counts
<1>7. /\ sitting' \in SittingRow /\ sitting'.left = l /\ sitting'.ask = n.ask /\ sitting'.asked = n.asked
      /\ sitting'.right = n.right /\ sitting'.level = n.level /\ sitting'.up = n.up /\ sitting'.phase = n.phase
      /\ sitting'.tieLeft = n.tieLeft /\ sitting'.id = n.id /\ sitting'.status = n.status /\ sitting'.bank = n.bank
  BY <1>2, <1>5 DEF SittingRow
<1>8. /\ sat' \in SatRow /\ sat'.thinned = sat.thinned /\ sat'.from = sat.from
      /\ sat'.placed = IF n.phase # "main" /\ sat.placed = 0 THEN PlacementOf(n) ELSE sat.placed
      /\ sat'.fell = (sat.fell \/ (n.phase # "main" /\ n.ask # n.level))
  <2>1. PlacementOf(n) \in 0 .. 3
    BY <1>2, Placed, LevelsAre
  <2>2. CASE n.phase = "main"
    BY <1>0, <2>2 DEF SatRow
  <2>3. CASE n.phase # "main"
    <3>1. sat' = [sat EXCEPT !.placed = IF sat.placed = 0 THEN PlacementOf(n) ELSE sat.placed,
                            !.fell = (sat.fell \/ n.ask # n.level)]
      BY <1>0, <2>3 DEF SatRow
    <3>2. ASSUME NEW placed \in 0 .. 3, NEW fell \in BOOLEAN, sat' = [sat EXCEPT !.placed = placed, !.fell = fell]
          PROVE  /\ sat' \in SatRow /\ sat'.thinned = sat.thinned /\ sat'.from = sat.from
                 /\ sat'.placed = placed /\ sat'.fell = fell
      BY <1>0, <3>2 DEF SatRow
    <3>3. (IF sat.placed = 0 THEN PlacementOf(n) ELSE sat.placed) \in 0 .. 3 /\ (sat.fell \/ n.ask # n.level) \in BOOLEAN
      BY <1>0, <2>1 DEF SatRow
    <3> QED
      BY <2>3, <3>1, <3>2, <3>3
  <2> QED
    BY <2>2, <2>3
<1>9. sat.thinned \/ left = s.left
  OBVIOUS
<1> HIDE DEF s, a
<1>10. LengthFits(s) /\ CountsFit(s) /\ ClimbFits(s) /\ TieFits(s)
  BY DEF OpenFits, s
<1>11. LengthFits(sitting)'
  <2>1. CASE n.phase = "main"
    <3>1. Total(n.asked) < MAX
      BY <1>1, <1>2, <1>4, <2>1 DEF EnoughAsked, MAX
    <3> QED
      BY <1>7, <2>1, <3>1 DEF LengthFits
  <2>2. CASE s.phase = "main" /\ n.phase = "tiebreak"
    <3>1. Total(n.asked) <= MAX
      BY <1>4, <1>10, <2>2 DEF LengthFits, MAX
    <3>2. sat.thinned \/ Total(n.asked) >= MIN
      <4>1. CASE EnoughAsked(a)
        BY <1>2, <1>4, <4>1 DEF EnoughAsked, MAX, MIN
      <4>2. CASE DrawItem(left, a.level) = {} /\ ~sat.thinned
        <5>1. \A lv \in Levels : sitting.left[lv] = 0
          BY <1>3, <1>9, <4>2, Drawn DEF s
        <5> QED
          BY <1>0, <1>1, <1>2, <1>10, <4>2, <5>1, AllAsked DEF s, IrisTyped
      <4> QED
        BY <1>2, <2>2, <4>1, <4>2
    <3>3. n.tieLeft = 2
      BY <1>2, <2>2 DEF TIE_N
    <3> QED
      BY <1>4, <1>7, <1>8, <2>2, <3>1, <3>2, <3>3 DEF LengthFits, MAX, TIE_N
  <2>3. CASE s.phase = "tiebreak" /\ n.phase = "tiebreak"
    <3>1. s.tieLeft \in Nat /\ n.tieLeft = s.tieLeft - 1
      BY <1>0, <1>2, <2>3 DEF SittingRow, TIE_N, s
    <3> QED
      BY <1>4, <1>7, <1>8, <1>10, <2>3, <3>1 DEF LengthFits, MAX, TIE_N, MIN
  <2> QED
    BY <1>2, <2>1, <2>2, <2>3
<1>12. CountsFit(sitting)'
  <2> SUFFICES ASSUME ~sat.thinned
               PROVE  /\ Total(sat.from) >= MIN
                      /\ \A lv \in Levels : n.asked[lv] + l[lv] + One(n.ask = lv) = sat.from[lv]
    BY <1>7, <1>8 DEF CountsFit
  <2>1. Total(sat.from) >= MIN /\ \A lv \in Levels : s.asked[lv] + s.left[lv] + One(s.ask = lv) = sat.from[lv]
    BY <1>10 DEF CountsFit
  <2>2. \A lv \in Levels : n.asked[lv] + l[lv] + One(n.ask = lv) = sat.from[lv]
    BY <1>4, <1>5, <1>6, <1>9, <2>1 DEF One
  <2> QED
    BY <2>1, <2>2
<1>13. ClimbFits(sitting)'
  <2> SUFFICES ASSUME n.right = n.asked
               PROVE  /\ n.phase = "main"
                      /\ n.level = 3 \/ (n.level = 2 /\ n.up = Total(n.asked))
                      /\ sat.thinned \/ l[3] = 0 \/ n.asked[1] + n.asked[2] + One(n.ask # 3) <= 2
    BY <1>7, <1>8 DEF ClimbFits
  <2>1. /\ correct /\ s.phase = "main"
        /\ s.level = 3 \/ (s.level = 2 /\ s.up = Total(s.asked))
        /\ sat.thinned \/ s.left[3] = 0 \/ s.asked[1] + s.asked[2] + One(s.ask # 3) <= 2
    BY <1>4, <1>10 DEF ClimbFits
  <2>2. n.phase = "main" /\ n.level = a.level /\ n.up = a.up
    BY <1>1, <1>2, <2>1, AllRight
  <2>3. n.level = 3 \/ (n.level = 2 /\ Total(s.asked) = 0 /\ n.up = 1)
    BY <1>0, <2>1, <2>2, AfterIsCounted DEF a
  <2>4. \A lv \in Levels : lv \in {1, 2, 3}
    BY LevelsAre
  <2>5. ASSUME ~sat.thinned, l[3] # 0 PROVE n.asked[1] + n.asked[2] + One(n.ask # 3) <= 2
    <3>1. s.left[3] > 0 /\ left[3] > 0
      BY <1>5, <1>6, <1>9, <2>5, LevelsAre
    <3>2. s.asked[1] + s.asked[2] + One(s.ask # 3) <= 2
      BY <2>1, <2>5, <3>1
    <3>3. n.asked[1] + n.asked[2] <= 2
      BY <1>0, <1>4, <3>2, LevelsAre DEF One, s
    <3>4. CASE n.level = 3
      BY <1>3, <1>4, <3>1, <3>3, <3>4, LevelsAre DEF One
    <3>5. CASE Total(s.asked) = 0
      <4>1. n.asked[1] + n.asked[2] <= 1
        BY <1>4, <3>5, LevelsAre DEF Total
      <4> QED
        BY <1>4, <4>1, LevelsAre DEF One
    <3> QED
      BY <2>3, <3>4, <3>5
  <2> QED
    BY <1>4, <2>2, <2>3, <2>5
<1>14. TieFits(sitting)'
  <2>1. CASE n.phase = "main"
    BY <1>2, <1>7, <1>8, <1>10, <2>1 DEF TieFits
  <2>2. CASE s.phase = "main" /\ n.phase = "tiebreak"
    <3>1. sat.placed = 0 /\ PlacementOf(n) = PlacementOf(a) /\ n.level = PlacementOf(a) + 1
      BY <1>1, <1>2, <1>10, <2>2, SamePlacement DEF TieFits, TiebreakLevel
    <3>2. PlacementOf(n) \in Levels /\ (Earned(n, PlacementOf(n)) \/ PlacementOf(n) = 1)
      BY <1>2, Placed
    <3> QED
      BY <1>7, <1>8, <2>2, <3>1, <3>2 DEF TieFits, Earned
  <2>3. CASE s.phase = "tiebreak" /\ n.phase = "tiebreak"
    <3>1. /\ sat.placed \in Levels
          /\ ~sat.fell => s.level = sat.placed + 1 /\ s.ask = s.level /\ (Earned(s, sat.placed) \/ sat.placed = 1)
      BY <1>10, <2>3 DEF TieFits
    <3>2. n.level = s.level
      BY <1>0, <1>2, <2>3, AfterIsCounted DEF a, s
    <3>3. sat.placed # 0 /\ sat.placed # sat.placed + 1
      BY <3>1, LevelsAre
    <3>4. s.ask = sat.placed + 1 => (Earned(s, sat.placed) => Earned(n, sat.placed))
      BY <1>4, <3>1, <3>3 DEF Earned, One
    <3>5. sat'.placed = sat.placed /\ (~sat'.fell => ~sat.fell /\ n.ask = n.level)
      BY <1>8, <2>3, <3>3
    <3>6. Earned(n, sat.placed) => Earned(sitting, sat.placed)'
      BY <1>7, <3>5 DEF Earned
    <3>7. ASSUME ~sat'.fell
          PROVE  /\ sitting'.level = sat'.placed + 1 /\ sitting'.ask = sitting'.level
                 /\ Earned(sitting, sat.placed)' \/ sat'.placed = 1
      BY <1>7, <3>1, <3>2, <3>4, <3>5, <3>6, <3>7
    <3> QED
      BY <1>7, <2>3, <3>1, <3>5, <3>7 DEF TieFits
  <2> QED
    BY <1>2, <2>1, <2>2, <2>3
<1> QED
  BY <1>2, <1>3, <1>4, <1>7, <1>8, <1>11, <1>12, <1>13, <1>14 DEF OpenFits, Open, Kept, s

Finished(n) == [n EXCEPT !.status = "finished", !.ask = 0, !.placement = PlacementOf(n)]

LEMMA Finishing ==
  ASSUME NEW n \in SittingRow
  PROVE  /\ Finished(n) \in SittingRow /\ Finished(n).status = "finished" /\ Finished(n).placement = PlacementOf(n)
         /\ Finished(n).id = n.id /\ Finished(n).bank = n.bank
         /\ Finished(n).asked = n.asked /\ Finished(n).right = n.right
<1> DEFINE m == [n EXCEPT !.status = "finished"]
           u == [m EXCEPT !.ask = 0]
           p == PlacementOf(n)
<1>1. m \in SittingRow
  BY DEF SittingRow
<1>2. m.status = "finished" /\ m.id = n.id /\ m.bank = n.bank /\ m.asked = n.asked /\ m.right = n.right
  BY DEF SittingRow
<1>3. p \in 0 .. 3
  BY Placed, LevelsAre
<1>4. Finished(n) = [u EXCEPT !.placement = p]
  BY DEF Finished
<1> HIDE DEF m, p
<1>5. u \in SittingRow
  BY <1>1 DEF SittingRow
<1>6. u.status = m.status /\ u.id = m.id /\ u.bank = m.bank /\ u.asked = m.asked /\ u.right = m.right
  BY <1>1 DEF SittingRow
<1> HIDE DEF u
<1>7. [u EXCEPT !.placement = p] \in SittingRow
  BY <1>3, <1>5 DEF SittingRow
<1>8. LET w == [u EXCEPT !.placement = p] IN
      w.status = u.status /\ w.placement = p /\ w.id = u.id /\ w.bank = u.bank /\ w.asked = u.asked /\ w.right = u.right
  BY <1>3, <1>5 DEF SittingRow
<1> QED
  BY <1>2, <1>4, <1>6, <1>7, <1>8 DEF p

(* An answer with none: the sitting is finished, and fair.                  *)
LEMMA AnswerEnds ==
  ASSUME IrisTyped, Open, OpenFits(sitting), NEW correct \in BOOLEAN, NEW left \in Counts,
         sat.thinned \/ left = sitting.left,
         Submit(sitting, correct, left) = {}, UNCHANGED sat,
         LET last == Tallied(sitting, correct) IN
           sitting' = [last EXCEPT !.status = "finished", !.ask = 0, !.placement = PlacementOf(last)]
  PROVE  /\ sitting' \in SittingRow /\ sitting'.status = "finished"
         /\ sitting'.id = sitting.id /\ sitting'.bank = sitting.bank
         /\ \A lv \in Levels : sitting'.right[lv] <= sitting'.asked[lv]
         /\ SittingIsFair'
<1> DEFINE s == sitting
           n == Tallied(s, correct)
           a == After(s, correct)
<1>0. s \in SittingRow /\ s.ask \in Levels /\ sat \in SatRow /\ \A lv \in Levels : s.right[lv] <= s.asked[lv]
  BY IrisTypes DEF IrisTyped
<1>1. n \in SittingRow /\ Kept(n, s)
  BY <1>0, Tally
<1>2. a \in SittingRow /\ a.asked = n.asked /\ a.right = n.right
  BY <1>0, AfterIsCounted
<1>3. PlacementOf(n) \in Levels /\ (Earned(n, PlacementOf(n)) \/ PlacementOf(n) = 1)
      /\ \A lv \in Levels : Earned(n, lv) => lv <= PlacementOf(n)
  BY <1>1, Placed
<1>4. /\ \A lv \in Levels : /\ n.asked[lv] \in Nat /\ n.right[lv] \in Nat /\ n.right[lv] <= n.asked[lv]
                            /\ s.asked[lv] \in Nat /\ s.right[lv] \in Nat
                            /\ n.asked[lv] = s.asked[lv] + One(s.ask = lv)
                            /\ n.right[lv] = s.right[lv] + One(s.ask = lv /\ correct)
      /\ Total(n.asked) \in Nat /\ Total(s.asked) \in Nat /\ Total(n.asked) = Total(s.asked) + 1
      /\ n.right = n.asked => correct /\ s.right = s.asked
  BY <1>0, <1>1, CountsGrow
<1>5. sitting' = Finished(n)
  BY DEF Finished
<1>6. s.phase = "main" => EnoughAsked(a) \/ DrawItem(left, a.level) = {}
  BY <1>0, SubmitEnds
<1>7. sat.thinned \/ left = s.left
  OBVIOUS
<1> HIDE DEF n, a
<1>10. /\ sitting' \in SittingRow /\ sitting'.status = "finished" /\ sitting'.placement = PlacementOf(n)
       /\ sitting'.id = n.id /\ sitting'.bank = n.bank /\ sitting'.asked = n.asked /\ sitting'.right = n.right
  BY <1>1, <1>5, Finishing
<1>11. LengthFits(s) /\ CountsFit(s) /\ ClimbFits(s) /\ TieFits(s)
  BY DEF OpenFits
<1>12. s.phase \in {"main", "tiebreak"} /\ s.tieLeft \in Nat
  BY <1>0 DEF SittingRow, TIE_N
(* The adaptive part ends for want of questions when all there was is asked.*)
<1>13. s.phase = "main" /\ ~EnoughAsked(a) /\ ~sat.thinned =>
         /\ Total(n.asked) >= MIN
         /\ \A lv \in Levels : n.asked[lv] = sat.from[lv]
  <2> SUFFICES ASSUME s.phase = "main", ~EnoughAsked(a), ~sat.thinned
               PROVE  Total(n.asked) >= MIN /\ \A lv \in Levels : n.asked[lv] = sat.from[lv]
    OBVIOUS
  <2>1. a.level \in Levels
    BY <1>2 DEF SittingRow
  <2>2. \A lv \in Levels : s.left[lv] = 0
    BY <1>6, <1>7, <2>1, Drawn
  <2> QED
    BY <1>0, <1>1, <1>2, <1>11, <2>2, AllAsked DEF IrisTyped, n
<1>14. IsLong'
  <2>1. Total(n.asked) <= MAX + TIE_N
    BY <1>4, <1>11, <1>12 DEF LengthFits, MAX, TIE_N
  <2>2. sat.thinned \/ Total(n.asked) >= MIN
    <3>1. CASE s.phase = "main"
      BY <1>2, <1>4, <1>13, <3>1 DEF EnoughAsked, MAX, MIN
    <3>2. CASE s.phase # "main"
      BY <1>4, <1>11, <3>2 DEF LengthFits, MIN
    <3> QED
      BY <3>1, <3>2
  <2> QED
    BY <1>10, <2>1, <2>2 DEF IsLong
<1>15. IsRewarded'
  <2> SUFFICES ASSUME n.right = n.asked, ~sat.thinned, sat.from[3] >= MIN_AT_LEVEL
               PROVE  PlacementOf(n) = 3
    BY <1>10 DEF IsRewarded
  <2>1. s.phase = "main" /\ (s.left[3] = 0 \/ s.asked[1] + s.asked[2] + One(s.ask # 3) <= 2)
    BY <1>4, <1>11 DEF ClimbFits
  <2>2. n.asked[3] >= MIN_AT_LEVEL
    <3>1. CASE ~EnoughAsked(a)
      BY <1>13, <2>1, <3>1, LevelsAre
    <3>2. CASE Settled(a)
      BY <1>1, <1>2, <3>2, AllRight DEF MIN_AT_LEVEL
    <3>3. CASE Total(a.asked) >= MAX
      <4>1. CASE s.left[3] = 0
        <5>1. s.asked[3] + s.left[3] + One(s.ask = 3) = sat.from[3]
          BY <1>11, LevelsAre DEF CountsFit
        <5> QED
          BY <1>4, <4>1, <5>1, LevelsAre DEF One
      <4>2. CASE s.asked[1] + s.asked[2] + One(s.ask # 3) <= 2
        <5>1. n.asked[1] + n.asked[2] <= 2
          BY <1>0, <1>4, <4>2, LevelsAre DEF One
        <5> QED
          BY <1>2, <1>4, <3>3, <5>1, LevelsAre DEF Total, MAX, MIN_AT_LEVEL
      <4> QED
        BY <2>1, <4>1, <4>2
    <3> QED
      BY <3>1, <3>2, <3>3 DEF EnoughAsked
  <2>3. Earned(n, 3)
    BY <1>4, <2>2, LevelsAre DEF Earned
  <2> QED
    BY <1>3, <2>3, LevelsAre
<1>16. TiebreakRaises'
  <2>1. sat.fell \/ PlacementOf(n) >= sat.placed
    <3>1. CASE s.phase = "main"
      BY <1>3, <1>11, <3>1, LevelsAre DEF TieFits
    <3>2. CASE s.phase # "main" /\ ~sat.fell
      <4>1. /\ sat.placed \in Levels /\ s.ask = sat.placed + 1
            /\ Earned(s, sat.placed) \/ sat.placed = 1
        BY <1>11, <3>2 DEF TieFits
      <4>2. Earned(s, sat.placed) => Earned(n, sat.placed)
        BY <1>4, <4>1, LevelsAre DEF Earned, One
      <4> QED
        BY <1>3, <4>1, <4>2, LevelsAre
    <3> QED
      BY <3>1, <3>2
  <2> QED
    BY <1>10, <2>1 DEF TiebreakRaises
<1> QED
  BY <1>1, <1>4, <1>10, <1>14, <1>15, <1>16 DEF SittingIsFair, Kept

LEMMA AwayTyped ==
  ASSUME NEW shows \in {"none", "now", "before", "gone"}
  PROVE  LET w == [Away EXCEPT !.shows = shows] IN
         w \in VisitRow /\ w.shows = shows /\ w.pc = "rest" /\ w.id = 0
<1>1. None \in Counts /\ Away \in VisitRow
  BY DEF None, Counts, Away, VisitRow
<1> QED
  BY <1>1 DEF Away, VisitRow

LEMMA SpentTyped ==
  ASSUME irisLeft \in Budgets,
         \/ UNCHANGED irisLeft
         \/ \E what \in {"starts", "answers", "withdrawals", "banks", "clearings", "losses"} : SpendIris(what)
  PROVE  irisLeft' \in Budgets
<1>1. ASSUME NEW what \in {"starts", "answers", "withdrawals", "banks", "clearings", "losses"}, SpendIris(what)
      PROVE  irisLeft' \in Budgets
  BY <1>1 DEF SpendIris, Budgets
<1> QED
  BY <1>1

(* A page's own steps, which leave the sitting alone.                       *)
LEMMA PageMoves ==
  ASSUME IrisTyped, IrisInv, UNCHANGED <<sitting, sat>>, irisLeft' \in Budgets,
         bank' \in [number : Nat, approved : Counts],
         visit' \in [Visits -> VisitRow],
         \A v \in Visits : visit'[v] = visit[v] \/ PageFits(visit'[v])
  PROVE  IrisTyped' /\ IrisInv'
<1>1. \A v \in Visits : PageFits(visit[v])'
  BY DEF IrisInv, PageFits
<1>2. IrisTyped'
  BY IrisTypes DEF IrisTyped, IrisTypeOK, SittingRow, VisitRow, SatRow, Open
<1>3. (Open => OpenFits(sitting))' /\ SittingIsFair'
  BY DEF IrisInv, Open, OpenFits, LengthFits, CountsFit, ClimbFits, TieFits, SittingIsFair, IsLong, IsRewarded,
         TiebreakRaises
<1> QED
  BY <1>1, <1>2, <1>3 DEF IrisInv

(* The results are cleared, or the sitting dropped: the pages show what is  *)
(* no more.                                                                 *)
LEMMA SittingDropped ==
  ASSUME IrisTyped, IrisInv, Deleted, UNCHANGED <<bank, sat>>, irisLeft' \in Budgets,
         \A v \in Visits : \/ visit'[v] = Gone[v]
                           \/ visit[v].pc = "drop" /\ visit'[v] = [Gone[v] EXCEPT !.pc = "check"],
         visit' \in [Visits -> VisitRow]
  PROVE  IrisTyped' /\ IrisInv'
<1>0. sitting \in SittingRow /\ visit \in [Visits -> VisitRow]
  BY IrisTypes DEF IrisTyped
<1>1. None \in Counts /\ START \in Levels /\ 0 \in 0 .. TIE_N - 1
  BY LevelsAre DEF None, Counts, START, TIE_N
<1>2. NoSitting \in SittingRow
  BY <1>1 DEF NoSitting, SittingRow
<1>3. sitting' \in SittingRow /\ sitting'.status = "none" /\ sitting'.id = sitting.id
      /\ sitting'.right = None /\ sitting'.asked = None
  BY <1>0, <1>2 DEF Deleted, SittingRow, NoSitting
<1>4. IrisTyped'
  BY <1>1, <1>3, IrisTypes DEF IrisTyped, IrisTypeOK, SittingRow, VisitRow, SatRow, Open, None
<1>5. \A v \in Visits : PageFits(visit[v])'
  <2> TAKE v \in Visits
  <2>1. /\ Gone[v] \in VisitRow /\ Gone[v].pc = visit[v].pc /\ Gone[v].id = visit[v].id /\ Gone[v].left = visit[v].left
        /\ Gone[v].shows \in {"none", "gone"}
    BY <1>0 DEF Gone, VisitRow
  <2>2. /\ visit'[v].id = visit[v].id /\ visit'[v].left = visit[v].left /\ visit'[v].shows \in {"none", "gone"}
        /\ visit'[v].pc = visit[v].pc \/ visit'[v].pc = "check"
    BY <2>1 DEF VisitRow
  <2>3. PageFits(visit[v])
    BY DEF IrisInv
  <2> QED
    BY <1>3, <2>2, <2>3 DEF PageFits
<1> QED
  BY <1>3, <1>4, <1>5 DEF IrisInv, Open, SittingIsFair

(* A sitting as it is inserted, and what is remembered of its start.        *)
Opened(id, number, lv, left) ==
  [NoSitting EXCEPT !.id = id, !.status = "open", !.bank = number, !.ask = lv, !.left = left]
Begun(from, thinned) == [NotSat EXCEPT !.from = from, !.thinned = thinned]

LEMMA Opening ==
  ASSUME NEW id \in Nat, NEW number \in Nat, NEW lv \in 0 .. 3, NEW left \in Counts
  PROVE  LET s == Opened(id, number, lv, left) IN
         /\ s \in SittingRow /\ s.id = id /\ s.status = "open" /\ s.level = START /\ s.up = 0
         /\ s.phase = "main" /\ s.tieLeft = 0 /\ s.ask = lv /\ s.asked = None /\ s.right = None /\ s.left = left
<1>1. None \in Counts /\ START \in Levels /\ 0 \in 0 .. TIE_N - 1 /\ 0 \in 0 .. 3
  BY LevelsAre DEF None, Counts, START, TIE_N
<1> DEFINE s == [NoSitting EXCEPT !.id = id]
           t == [s EXCEPT !.status = "open"]
           u == [t EXCEPT !.bank = number]
           w == [u EXCEPT !.ask = lv]
<1>2. NoSitting \in SittingRow
  BY <1>1 DEF NoSitting, SittingRow
<1>3. s \in SittingRow
  BY <1>2 DEF SittingRow
<1>4. Opened(id, number, lv, left) = [w EXCEPT !.left = left]
  BY DEF Opened
<1> HIDE DEF s
<1>5. t \in SittingRow
  BY <1>3 DEF SittingRow
<1> HIDE DEF t
<1>6. u \in SittingRow
  BY <1>5 DEF SittingRow
<1> HIDE DEF u
<1>7. w \in SittingRow
  BY <1>6 DEF SittingRow
<1> HIDE DEF w
<1>8. Opened(id, number, lv, left) \in SittingRow
  BY <1>4, <1>7 DEF SittingRow
<1>9. LET o == Opened(id, number, lv, left) IN
      /\ o.id = id /\ o.status = "open" /\ o.level = START /\ o.up = 0
      /\ o.phase = "main" /\ o.tieLeft = 0 /\ o.ask = lv /\ o.asked = None /\ o.right = None /\ o.left = left
  BY DEF Opened, NoSitting
<1> QED
  BY <1>8, <1>9

LEMMA Beginning ==
  ASSUME NEW from \in Counts, NEW thinned \in BOOLEAN
  PROVE  /\ Begun(from, thinned) \in SatRow /\ Begun(from, thinned).from = from
         /\ Begun(from, thinned).thinned = thinned /\ Begun(from, thinned).placed = 0
<1> DEFINE t == [NotSat EXCEPT !.from = from]
<1>1. None \in Counts /\ 0 \in 0 .. 3
  BY DEF None, Counts
<1>2. t \in SatRow
  <2>1. NotSat \in SatRow
    BY <1>1 DEF NotSat, SatRow
  <2> QED
    BY <2>1 DEF SatRow
<1>3. Begun(from, thinned) = [t EXCEPT !.thinned = thinned]
  BY DEF Begun
<1> HIDE DEF t
<1>4. Begun(from, thinned) \in SatRow
  BY <1>2, <1>3 DEF SatRow
<1> QED
  BY <1>4 DEF Begun, NotSat

LEMMA SittingInserted ==
  ASSUME IrisTyped, IrisInv, NEW v \in Visits, VisitAt(v, "insert"), sitting.status = "none",
         NEW lv \in DrawItem(visit[v].left, START), NEW left \in LeftOver(bank.approved, visit[v].left, lv),
         sitting' = Opened(sitting.id + 1, visit[v].bank, lv, left),
         sat' = Begun(visit[v].left, visit[v].left # bank.approved),
         Show(v, "now"), UNCHANGED <<bank, irisLeft>>
  PROVE  IrisTyped' /\ IrisInv'
<1>0. /\ sitting \in SittingRow /\ visit \in [Visits -> VisitRow] /\ visit[v] \in VisitRow
      /\ sitting.id \in Nat /\ visit[v].left \in Counts /\ bank.approved \in Counts /\ PageFits(visit[v])
      /\ bank \in [number : Nat, approved : Counts] /\ irisLeft \in Budgets
  BY IrisTypes DEF IrisTyped, SittingRow, VisitRow, IrisInv
<1>1. None \in Counts /\ START \in Levels /\ 0 \in 0 .. TIE_N - 1 /\ 0 \in 0 .. 3
  BY LevelsAre DEF None, Counts, START, TIE_N
<1>2. lv \in Levels /\ visit[v].left[lv] > 0 /\ lv \in 0 .. 3
  BY <1>0, <1>1, Drawn, LevelsAre
<1>3. /\ left \in Counts
      /\ visit[v].left = bank.approved => \A m \in Levels : bank.approved[m] = left[m] + One(m = lv)
  BY <1>0, <1>2, LeftOverIs
<1>4. \A m \in Levels : left[m] \in Nat /\ visit[v].left[m] \in Nat
  BY <1>0, <1>3 DEF Counts
<1>5. /\ sitting' \in SittingRow
      /\ sitting'.id = sitting.id + 1 /\ sitting'.status = "open" /\ sitting'.level = START /\ sitting'.up = 0
      /\ sitting'.phase = "main" /\ sitting'.tieLeft = 0 /\ sitting'.ask = lv /\ sitting'.asked = None
      /\ sitting'.right = None /\ sitting'.left = left
  <2>1. sitting.id + 1 \in Nat /\ visit[v].bank \in Nat
    BY <1>0 DEF VisitRow
  <2> QED
    <3>1. ASSUME NEW id \in Nat, NEW number \in Nat, NEW l \in Counts, NEW level \in 0 .. 3,
                 sitting' = Opened(id, number, level, l)
          PROVE  /\ sitting' \in SittingRow
                 /\ sitting'.id = id /\ sitting'.status = "open" /\ sitting'.level = START /\ sitting'.up = 0
                 /\ sitting'.phase = "main" /\ sitting'.tieLeft = 0 /\ sitting'.ask = level /\ sitting'.asked = None
                 /\ sitting'.right = None /\ sitting'.left = l
      BY <3>1, Opening
    <3> QED
      BY <1>2, <1>3, <2>1, <3>1
<1>6. /\ sat' \in SatRow /\ sat'.from = visit[v].left /\ sat'.placed = 0
      /\ ~sat'.thinned => visit[v].left = bank.approved
  BY <1>0, Beginning
<1>7. Total(None) = 0 /\ \A m \in Levels : None[m] = 0
  BY LevelsAre DEF None, Total
<1>8. visit' \in [Visits -> VisitRow] /\ visit'[v].shows = "now" /\ visit'[v].pc = "rest" /\ visit'[v].id = 0
      /\ \A u \in Visits \ {v} : visit'[u] = visit[u]
  BY <1>0, AwayTyped DEF Show
<1>9. IrisTyped'
  BY <1>0, <1>2, <1>5, <1>6, <1>7, <1>8, IrisTypes DEF IrisTyped, IrisTypeOK, SittingRow, VisitRow, SatRow
<1>10. \A u \in Visits : PageFits(visit[u])'
  <2> TAKE u \in Visits
  <2>1. PageFits(visit[u]) /\ visit[u].id \in Nat
    BY <1>0 DEF IrisInv, VisitRow
  <2> QED
    BY <1>0, <1>5, <1>8, <2>1 DEF PageFits
<1>11. OpenFits(sitting)'
  <2>1. LengthFits(sitting)' /\ TieFits(sitting)'
    BY <1>5, <1>6, <1>7 DEF LengthFits, TieFits, MAX
  <2>2. CountsFit(sitting)'
    <3>1. Total(visit[v].left) >= MIN
      BY <1>0 DEF PageFits, VisitAt
    <3>2. visit[v].left = bank.approved =>
            \A m \in Levels : None[m] + left[m] + One(lv = m) = visit[v].left[m]
      BY <1>3, <1>4, <1>7 DEF One
    <3> QED
      BY <1>5, <1>6, <3>1, <3>2 DEF CountsFit
  <2>3. ClimbFits(sitting)'
    <3>1. None[1] = 0 /\ None[2] = 0 /\ START = 2 /\ One(lv # 3) \in {0, 1}
      BY <1>7, LevelsAre DEF START, One
    <3> QED
      BY <1>5, <1>7, <3>1 DEF ClimbFits
  <2> QED
    BY <2>1, <2>2, <2>3 DEF OpenFits
<1> QED
  BY <1>5, <1>9, <1>10, <1>11 DEF IrisInv, SittingIsFair

(* One or two counts go down by a withdrawn question, and nothing is        *)
(* claimed of the counts from then on.                                      *)
LEMMA QuestionWithdrawn ==
  ASSUME IrisTyped, IrisInv, Withdraw
  PROVE  IrisTyped' /\ IrisInv'
<1>0. /\ sitting \in SittingRow /\ visit \in [Visits -> VisitRow] /\ sat \in SatRow
      /\ sitting.left \in Counts /\ bank.approved \in Counts
      /\ bank \in [number : Nat, approved : Counts] /\ irisLeft \in Budgets
      /\ \A lv \in Levels : sitting.right[lv] <= sitting.asked[lv]
  BY IrisTypes DEF IrisTyped, SittingRow
<1>1. PICK lv \in Levels :
        /\ bank.approved[lv] > 0
        /\ bank' = [bank EXCEPT !.approved[lv] = @ - 1]
        /\ sitting' = IF sitting.left[lv] > 0 THEN [sitting EXCEPT !.left[lv] = @ - 1] ELSE sitting
  BY DEF Withdraw
<1>2. [bank.approved EXCEPT ![lv] = @ - 1] \in Counts
  BY <1>0, <1>1 DEF Counts
<1>3. bank' \in [number : Nat, approved : Counts]
  BY <1>0, <1>1, <1>2
<1>4. \E left \in Counts : sitting' = [sitting EXCEPT !.left = left]
  <2>1. CASE sitting.left[lv] > 0
    <3>1. [sitting.left EXCEPT ![lv] = @ - 1] \in Counts
      BY <1>0, <2>1 DEF Counts
    <3>2. sitting' = [sitting EXCEPT !.left = [sitting.left EXCEPT ![lv] = @ - 1]]
      BY <1>0, <1>1, <2>1 DEF SittingRow
    <3> QED
      BY <3>1, <3>2
  <2>2. CASE ~(sitting.left[lv] > 0)
    <3>1. sitting' = [sitting EXCEPT !.left = sitting.left]
      BY <1>0, <1>1, <2>2 DEF SittingRow
    <3> QED
      BY <1>0, <3>1
  <2> QED
    BY <2>1, <2>2
<1>5. PICK left \in Counts : sitting' = [sitting EXCEPT !.left = left]
  BY <1>4
<1>6. /\ sitting' \in SittingRow
      /\ sitting'.id = sitting.id /\ sitting'.status = sitting.status /\ sitting'.bank = sitting.bank
      /\ sitting'.level = sitting.level /\ sitting'.up = sitting.up /\ sitting'.phase = sitting.phase
      /\ sitting'.tieLeft = sitting.tieLeft /\ sitting'.ask = sitting.ask /\ sitting'.asked = sitting.asked
      /\ sitting'.right = sitting.right /\ sitting'.placement = sitting.placement
  BY <1>0, <1>5 DEF SittingRow
<1>7. /\ sat' \in SatRow /\ sat'.thinned /\ sat'.from = sat.from /\ sat'.placed = sat.placed /\ sat'.fell = sat.fell
      /\ UNCHANGED visit
  BY <1>0 DEF Withdraw, SatRow
<1>8. irisLeft' \in Budgets
  BY <1>0, SpentTyped DEF Withdraw
<1>9. IrisTyped'
  BY <1>0, <1>3, <1>6, <1>7, <1>8, IrisTypes DEF IrisTyped, IrisTypeOK, SittingRow, VisitRow, SatRow, Open
<1>10. \A u \in Visits : PageFits(visit[u])'
  BY <1>6, <1>7 DEF IrisInv, PageFits
<1>11. (Open => OpenFits(sitting))'
  BY <1>6, <1>7 DEF IrisInv, Open, OpenFits, LengthFits, CountsFit, ClimbFits, TieFits, Earned
<1>12. SittingIsFair'
  BY <1>6, <1>7 DEF IrisInv, SittingIsFair, IsLong, IsRewarded, TiebreakRaises
<1> QED
  BY <1>9, <1>10, <1>11, <1>12 DEF IrisInv

(* The pages once an answer is recorded: what another shows is answered.    *)
LEMMA AnswerShown ==
  ASSUME IrisTyped, IrisInv, NEW v \in Visits, Open, AnswerRecorded(v), NEW shows \in {"now", "before", "none"},
         Recorded(v, shows), sitting'.id = sitting.id, sitting'.bank = sitting.bank, sitting'.status # "none"
  PROVE  visit' \in [Visits -> VisitRow] /\ \A w \in Visits : PageFits(visit[w])'
<1>0. visit \in [Visits -> VisitRow] /\ sitting.id \in Nat
  BY IrisTypes DEF IrisTyped, SittingRow
<1> DEFINE Row(w) == IF w = v THEN [Away EXCEPT !.shows = shows]
                     ELSE IF visit[w].shows = "now" THEN [visit[w] EXCEPT !.shows = "before"] ELSE visit[w]
<1>1. visit' = [w \in Visits |-> Row(w)]
  BY DEF Recorded
<1>2. ASSUME NEW w \in Visits
      PROVE  /\ Row(w) \in VisitRow
             /\ w = v => Row(w).pc = "rest" /\ Row(w).id = 0
             /\ w # v => /\ Row(w).pc = visit[w].pc /\ Row(w).id = visit[w].id /\ Row(w).bank = visit[w].bank
                         /\ Row(w).left = visit[w].left /\ Row(w).shows # "now"
  <2>1. CASE w = v
    BY <2>1, AwayTyped
  <2>2. CASE w # v /\ visit[w].shows = "now"
    BY <1>0, <2>2 DEF VisitRow
  <2>3. CASE w # v /\ visit[w].shows # "now"
    BY <1>0, <2>3
  <2> QED
    BY <2>1, <2>2, <2>3
<1> HIDE DEF Row
<1>3. visit' \in [Visits -> VisitRow]
  BY <1>1, <1>2
<1>4. ASSUME NEW w \in Visits PROVE PageFits(visit[w])'
  <2>1. PageFits(visit[w]) /\ visit'[w] = Row(w)
    BY <1>1 DEF IrisInv
  <2>2. sitting.status # "none"
    BY DEF Open
  <2> QED
    BY <1>0, <1>2, <2>1, <2>2 DEF PageFits
<1> QED
  BY <1>3, <1>4

LEMMA AnswerStep ==
  ASSUME IrisTyped, IrisInv, NEW v \in Visits, AnswerRecorded(v)
  PROVE  IrisTyped' /\ IrisInv'
<1>0. /\ sitting \in SittingRow /\ sitting.ask \in Levels /\ OpenFits(sitting) /\ Open
      /\ visit[v].left \in Counts /\ sat \in SatRow /\ bank \in [number : Nat, approved : Counts]
      /\ irisLeft \in Budgets /\ UNCHANGED bank
      /\ sat.thinned \/ visit[v].left = sitting.left
  BY IrisTypes DEF AnswerRecorded, IrisTyped, IrisInv, VisitRow, PageFits, VisitAt
<1>1. irisLeft' \in Budgets
  BY <1>0, SpentTyped DEF AnswerRecorded
<1>2. PICK correct \in BOOLEAN :
       \/ \E next \in Submit(sitting, correct, visit[v].left) :
            /\ \E left \in LeftOver(sitting.left, visit[v].left, next.ask) : sitting' = [next EXCEPT !.left = left]
            /\ sat' = IF next.phase = "main" THEN sat
                      ELSE [sat EXCEPT !.placed = IF @ = 0 THEN PlacementOf(next) ELSE @,
                                       !.fell = @ \/ next.ask # next.level]
       \/ /\ Submit(sitting, correct, visit[v].left) = {}
          /\ LET last == Tallied(sitting, correct) IN
             sitting' = [last EXCEPT !.status = "finished", !.ask = 0, !.placement = PlacementOf(last)]
          /\ UNCHANGED sat
  BY DEF AnswerRecorded
<1>3. ASSUME sitting' \in SittingRow, sitting'.status # "none", sitting'.id = sitting.id, sitting'.bank = sitting.bank,
             \A lv \in Levels : sitting'.right[lv] <= sitting'.asked[lv],
             sat' \in SatRow, Open' => OpenFits(sitting)' /\ sitting'.ask \in Levels, SittingIsFair'
      PROVE  IrisTyped' /\ IrisInv'
  <2>1. PICK shows \in {"now", "before", "none"} : Recorded(v, shows)
    BY DEF AnswerRecorded
  <2>2. visit' \in [Visits -> VisitRow] /\ \A w \in Visits : PageFits(visit[w])'
    BY <1>0, <1>3, <2>1, AnswerShown
  <2>3. IrisTyped'
    BY <1>0, <1>1, <1>3, <2>2 DEF IrisTyped, IrisTypeOK, SittingRow, VisitRow, SatRow
  <2> QED
    BY <1>3, <2>2, <2>3 DEF IrisInv
<1>4. CASE Submit(sitting, correct, visit[v].left) # {}
  <2>1. PICK next \in Submit(sitting, correct, visit[v].left) :
            /\ \E left \in LeftOver(sitting.left, visit[v].left, next.ask) : sitting' = [next EXCEPT !.left = left]
            /\ sat' = IF next.phase = "main" THEN sat
                      ELSE [sat EXCEPT !.placed = IF @ = 0 THEN PlacementOf(next) ELSE @,
                                       !.fell = @ \/ next.ask # next.level]
    BY <1>2, <1>4
  <2>2. PICK left \in LeftOver(sitting.left, visit[v].left, next.ask) : sitting' = [next EXCEPT !.left = left]
    BY <2>1
  <2>3. /\ sitting' \in SittingRow /\ sitting'.ask \in Levels /\ Open'
        /\ sitting'.id = sitting.id /\ sitting'.bank = sitting.bank
        /\ \A lv \in Levels : sitting'.right[lv] <= sitting'.asked[lv]
        /\ sat' \in SatRow /\ OpenFits(sitting)'
    BY <1>0, <2>1, <2>2, AnswerGoesOn
  <2> QED
    BY <1>3, <2>3 DEF Open, SittingIsFair
<1>5. CASE Submit(sitting, correct, visit[v].left) = {}
  <2>1. /\ UNCHANGED sat
        /\ LET last == Tallied(sitting, correct) IN
             sitting' = [last EXCEPT !.status = "finished", !.ask = 0, !.placement = PlacementOf(last)]
    BY <1>2, <1>5
  <2>2. /\ sitting' \in SittingRow /\ sitting'.status = "finished"
        /\ sitting'.id = sitting.id /\ sitting'.bank = sitting.bank
        /\ \A lv \in Levels : sitting'.right[lv] <= sitting'.asked[lv]
        /\ SittingIsFair'
    BY <1>0, <1>5, <2>1, AnswerEnds
  <2> QED
    BY <1>0, <1>3, <2>1, <2>2 DEF Open
<1> QED
  BY <1>4, <1>5

LEMMA IrisStep ==
  ASSUME IrisTyped, IrisInv, IrisNext
  PROVE  IrisTyped' /\ IrisInv'
<1>0. /\ sitting \in SittingRow /\ visit \in [Visits -> VisitRow] /\ sitting.id \in Nat /\ sitting.left \in Counts
      /\ bank \in [number : Nat, approved : Counts] /\ irisLeft \in Budgets
  BY IrisTypes DEF IrisTyped, SittingRow
<1>1. CASE Withdraw
  BY <1>1, QuestionWithdrawn
<1>2. CASE ReplaceBank
  <2>1. bank' \in [number : Nat, approved : Counts]
    BY <1>0, <1>2 DEF ReplaceBank
  <2>2. irisLeft' \in Budgets
    BY <1>0, <1>2, SpentTyped DEF ReplaceBank
  <2> QED
    BY <1>0, <1>2, <2>1, <2>2, PageMoves DEF ReplaceBank
<1>3. CASE ClearResults
  <2>1. irisLeft' \in Budgets
    BY <1>0, <1>3, SpentTyped DEF ClearResults
  <2>2. Gone \in [Visits -> VisitRow]
    BY <1>0 DEF Gone, VisitRow
  <2> QED
    BY <1>3, <2>1, <2>2, SittingDropped DEF ClearResults
<1>4. ASSUME NEW v \in Visits,
             \/ StartAsked(v) \/ LookForOpen(v) \/ DropSitting(v) \/ CheckTaken(v) \/ DrawFirst(v) \/ InsertSitting(v)
             \/ AnswerAsked(v) \/ AnswerRefused(v) \/ AnswerRecorded(v) \/ VisitLost(v)
      PROVE  IrisTyped' /\ IrisInv'
  <2>0. visit[v] \in VisitRow /\ PageFits(visit[v]) /\ visit[v].id \in Nat /\ bank.number \in Nat
        /\ bank.approved \in Counts
    BY <1>0 DEF VisitRow, IrisInv
  <2>1. ASSUME NEW w \in VisitRow, PageFits(w), visit' = [visit EXCEPT ![v] = w], UNCHANGED <<sitting, sat, bank>>,
               irisLeft' \in Budgets
        PROVE  IrisTyped' /\ IrisInv'
    BY <1>0, <2>1, PageMoves
  <2>2. ASSUME NEW shows \in {"none", "now", "before", "gone"}, Show(v, shows),
               sitting.status = "none" => shows \in {"none", "gone"}, UNCHANGED <<sitting, sat, bank>>,
               irisLeft' \in Budgets
        PROVE  IrisTyped' /\ IrisInv'
    <3> DEFINE w == [Away EXCEPT !.shows = shows]
    <3>1. w \in VisitRow /\ w.shows = shows /\ w.pc = "rest" /\ w.id = 0
      BY AwayTyped
    <3>2. visit' = [visit EXCEPT ![v] = w]
      BY <2>2 DEF Show
    <3> HIDE DEF w
    <3>3. PageFits(w)
      BY <1>0, <2>2, <3>1 DEF PageFits
    <3> QED
      BY <2>1, <2>2, <3>1, <3>2, <3>3
  <2>3. CASE StartAsked(v)
    <3>1. irisLeft' \in Budgets
      BY <1>0, <2>3, SpentTyped DEF StartAsked
    <3> DEFINE w == [visit[v] EXCEPT !.pc = "look", !.bank = bank.number]
    <3>2. w \in VisitRow /\ w.pc = "look" /\ w.shows = visit[v].shows /\ w.id = visit[v].id
      BY <2>0 DEF VisitRow
    <3>3. visit' = [visit EXCEPT ![v] = w]
      BY <1>0, <2>3 DEF StartAsked
    <3> HIDE DEF w
    <3>4. PageFits(w)
      BY <2>0, <3>2 DEF PageFits
    <3> QED
      BY <2>1, <2>3, <3>1, <3>2, <3>3, <3>4 DEF StartAsked
  <2>4. CASE LookForOpen(v)
    <3>1. CASE Open /\ sitting.bank = visit[v].bank
      BY <1>0, <2>2, <2>4, <3>1 DEF LookForOpen, Open
    <3>2. CASE ~(Open /\ sitting.bank = visit[v].bank)
      <4>1. PICK pc \in {"drop", "check"} : /\ visit' = [visit EXCEPT ![v].pc = pc, ![v].id = sitting.id]
                                            /\ pc = "drop" => sitting.bank # visit[v].bank
        BY <2>4, <3>2 DEF LookForOpen
      <4> DEFINE w == [visit[v] EXCEPT !.pc = pc, !.id = sitting.id]
      <4>2. /\ w \in VisitRow /\ w.pc = pc /\ w.shows = visit[v].shows /\ w.id = sitting.id /\ w.bank = visit[v].bank
        BY <1>0, <2>0 DEF VisitRow
      <4>3. visit' = [visit EXCEPT ![v] = w]
        BY <1>0, <4>1
      <4> HIDE DEF w
      <4>4. PageFits(w)
        BY <1>0, <2>0, <4>1, <4>2 DEF PageFits
      <4> QED
        BY <1>0, <2>1, <2>4, <4>2, <4>3, <4>4 DEF LookForOpen
    <3> QED
      BY <3>1, <3>2
  (* One request follows another: the page keeps all but its place.         *)
  <2>5. ASSUME NEW pc \in {"look", "check", "draw"}, ToStep(v, pc), UNCHANGED <<sitting, sat, bank, irisLeft>>
        PROVE  IrisTyped' /\ IrisInv'
    <3> DEFINE w == [visit[v] EXCEPT !.pc = pc]
    <3>1. w \in VisitRow /\ w.pc = pc /\ w.shows = visit[v].shows /\ w.id = visit[v].id
      BY <2>0 DEF VisitRow
    <3>2. visit' = [visit EXCEPT ![v] = w]
      BY <1>0, <2>5 DEF ToStep
    <3> HIDE DEF w
    <3>3. PageFits(w)
      BY <2>0, <3>1 DEF PageFits
    <3> QED
      BY <1>0, <2>1, <2>5, <3>1, <3>2, <3>3
  <2>6. CASE DropSitting(v)
    <3>1. CASE Dropped(v)
      <4>1. Gone \in [Visits -> VisitRow]
        BY <1>0 DEF Gone, VisitRow
      <4>2. Deleted /\ visit' = [Gone EXCEPT ![v].pc = "check"] /\ visit[v].pc = "drop" /\ UNCHANGED <<bank, irisLeft, sat>>
        BY <2>6, <3>1 DEF DropSitting, VisitAt
      <4>3. visit' \in [Visits -> VisitRow]
        BY <4>1, <4>2 DEF VisitRow
      <4>4. \A u \in Visits : visit'[u] = Gone[u] \/ (visit[u].pc = "drop" /\ visit'[u] = [Gone[u] EXCEPT !.pc = "check"])
        BY <4>1, <4>2
      <4> QED
        BY <1>0, <4>2, <4>3, <4>4, SittingDropped
    <3>2. CASE ~Dropped(v)
      BY <2>5, <2>6, <3>2 DEF DropSitting
    <3> QED
      BY <3>1, <3>2
  <2>7. CASE CheckTaken(v)
    BY <1>0, <2>2, <2>5, <2>7 DEF CheckTaken
  <2>8. CASE DrawFirst(v)
    <3>1. CASE Total(bank.approved) < MIN
      BY <1>0, <2>2, <2>8, <3>1 DEF DrawFirst
    <3>2. CASE ~(Total(bank.approved) < MIN)
      <4> DEFINE w == [visit[v] EXCEPT !.pc = "insert", !.left = bank.approved]
      <4>1. /\ w \in VisitRow /\ w.pc = "insert" /\ w.shows = visit[v].shows /\ w.id = visit[v].id
            /\ w.left = bank.approved
        BY <2>0 DEF VisitRow
      <4>2. visit' = [visit EXCEPT ![v] = w]
        BY <1>0, <2>8, <3>2 DEF DrawFirst
      <4> HIDE DEF w
      <4>3. Total(bank.approved) >= MIN
        BY <2>0, <3>2, TotalIsNat DEF MIN
      <4>4. PageFits(w)
        BY <2>0, <4>1, <4>3 DEF PageFits
      <4> QED
        BY <1>0, <2>1, <2>8, <4>1, <4>2, <4>4 DEF DrawFirst
    <3> QED
      BY <3>1, <3>2
  <2>9. CASE InsertSitting(v)
    <3>1. CASE sitting.status # "none"
      BY <2>5, <2>9, <3>1 DEF InsertSitting
    <3>2. CASE sitting.status = "none"
      <4>1. PICK lv \in DrawItem(visit[v].left, START) : \E left \in LeftOver(bank.approved, visit[v].left, lv) :
               sitting' = Opened(sitting.id + 1, visit[v].bank, lv, left)
        BY <2>9, <3>2 DEF InsertSitting, Opened
      <4>2. PICK left \in LeftOver(bank.approved, visit[v].left, lv) :
               sitting' = Opened(sitting.id + 1, visit[v].bank, lv, left)
        BY <4>1
      <4>3. /\ sat' = Begun(visit[v].left, visit[v].left # bank.approved) /\ Show(v, "now")
            /\ VisitAt(v, "insert") /\ UNCHANGED <<bank, irisLeft>>
        BY <2>9, <3>2 DEF InsertSitting, Begun
      <4> QED
        BY <3>2, <4>2, <4>3, SittingInserted
    <3> QED
      BY <3>1, <3>2
  <2>10. CASE AnswerAsked(v)
    <3>1. irisLeft' \in Budgets
      BY <1>0, <2>10, SpentTyped DEF AnswerAsked
    <3> DEFINE w == [visit[v] EXCEPT !.pc = "answer", !.bank = bank.number, !.left = sitting.left]
    <3>2. w \in VisitRow /\ w.pc = "answer" /\ w.shows = visit[v].shows /\ w.id = visit[v].id /\ w.left = sitting.left
      BY <1>0, <2>0 DEF VisitRow
    <3>3. visit' = [visit EXCEPT ![v] = w]
      BY <1>0, <2>10 DEF AnswerAsked
    <3> HIDE DEF w
    <3>4. PageFits(w)
      BY <2>0, <3>2 DEF PageFits
    <3> QED
      BY <2>1, <2>10, <3>1, <3>2, <3>3, <3>4 DEF AnswerAsked
  <2>11. CASE AnswerRefused(v) \/ VisitLost(v)
    <3>1. irisLeft' \in Budgets
      BY <1>0, <2>11, SpentTyped DEF AnswerRefused, VisitLost
    <3>2. PICK shows \in {visit[v].shows, "now"} : Show(v, shows) /\ (shows = visit[v].shows \/ Open)
      BY <2>11 DEF AnswerRefused, VisitLost
    <3>3. shows \in {"none", "now", "before", "gone"} /\ (sitting.status = "none" => shows \in {"none", "gone"})
      BY <2>0, <3>2 DEF VisitRow, PageFits, Open
    <3> QED
      BY <2>2, <2>11, <3>1, <3>2, <3>3 DEF AnswerRefused, VisitLost
  <2>12. CASE AnswerRecorded(v)
    BY <2>12, AnswerStep
  <2> QED
    BY <1>4, <2>3, <2>4, <2>6, <2>7, <2>8, <2>9, <2>10, <2>11, <2>12
<1> QED
  BY <1>1, <1>2, <1>3, <1>4 DEF IrisNext

LEMMA IrisInvariant == IrisSpec => [](IrisTyped /\ IrisInv)
<1>1. ASSUME IrisInit PROVE IrisTyped /\ IrisInv
  <2>1. PICK o \in Occasions : bank = [number |-> 1, approved |-> o.approved] /\ irisLeft = o.left
    BY <1>1 DEF IrisInit
  <2>2. bank \in [number : Nat, approved : Counts] /\ irisLeft \in Budgets
    BY <2>1, IrisConstants
  <2>3. None \in Counts /\ START \in Levels /\ 0 \in 0 .. TIE_N - 1 /\ 0 \in 0 .. 3 /\ \A lv \in Levels : None[lv] = 0
    BY LevelsAre DEF None, Counts, START, TIE_N
  <2>4. sitting \in SittingRow /\ sitting.status = "none" /\ sitting.right = None /\ sitting.asked = None /\ sitting.id = 0
    BY <1>1, <2>3 DEF IrisInit, NoSitting, SittingRow
  <2>5. sat \in SatRow
    BY <1>1, <2>3 DEF IrisInit, NotSat, SatRow
  <2>6. Away \in VisitRow /\ Away.pc = "rest" /\ Away.shows = "none" /\ Away.id = 0
    BY <2>3 DEF Away, VisitRow
  <2>7. visit \in [Visits -> VisitRow] /\ \A v \in Visits : visit[v] = Away
    BY <1>1, <2>6 DEF IrisInit
  <2>8. \A v \in Visits : PageFits(visit[v])
    <3>1. PageFits(Away)
      BY <2>4, <2>6 DEF PageFits
    <3> QED
      BY <2>7, <3>1
  <2> QED
    BY <2>2, <2>3, <2>4, <2>5, <2>7, <2>8, IrisTypes DEF IrisTyped, IrisInv, Open, SittingIsFair
<1>2. IrisTyped /\ IrisInv /\ [IrisNext]_irisVars => IrisTyped' /\ IrisInv'
  <2>1. ASSUME IrisTyped, IrisInv, UNCHANGED irisVars PROVE IrisTyped' /\ IrisInv'
    BY <2>1, IrisTypes, PageMoves DEF irisVars, IrisTyped
  <2> QED
    BY <2>1, IrisStep
<1> QED
  BY <1>1, <1>2, PTL DEF IrisSpec

(* Types, for any number of pages, any bank and any budgets.                *)
THEOREM IrisTypeCorrect == IrisSpec => []IrisTypeOK
  BY IrisInvariant, PTL DEF IrisTyped

(* Over every bank and every run of right and wrong answers, from however   *)
(* many pages: no finished sitting is too long or, unless questions were    *)
(* withdrawn meanwhile, too short; who answers everything right is placed   *)
(* at the top where the bank can show it; and a tiebreak lowers no one.     *)
THEOREM SittingsAreFair == IrisSpec => []SittingIsFair
  BY IrisInvariant, PTL DEF IrisInv

(* Answers once recorded are dropped only by an administrator, or by a      *)
(* start request of an instance on another bank than the sitting's.         *)
THEOREM AnswersAreKept == IrisSpec => ProgressIsKept
<1>1. ASSUME IrisTyped, IrisInv, [IrisNext]_irisVars, sitting'.status = "none", sitting.status # "none"
      PROVE  \/ irisLeft'.clearings < irisLeft.clearings
             \/ \E v \in Visits : VisitAt(v, "drop") /\ visit[v].bank # sitting.bank
  <2>0. sitting \in SittingRow /\ irisLeft \in Budgets /\ visit \in [Visits -> VisitRow]
    BY <1>1, IrisTypes DEF IrisTyped
  <2>1. CASE ClearResults
    <3>1. irisLeft.clearings \in Nat /\ irisLeft' = [irisLeft EXCEPT !.clearings = @ - 1]
      BY <2>0, <2>1 DEF ClearResults, SpendIris, Budgets
    <3>2. irisLeft'.clearings = irisLeft.clearings - 1
      BY <2>0, <3>1 DEF Budgets
    <3> QED
      BY <3>1, <3>2
  <2>2. ASSUME NEW v \in Visits, DropSitting(v) PROVE \E u \in Visits : VisitAt(u, "drop") /\ visit[u].bank # sitting.bank
    <3>1. Dropped(v) /\ VisitAt(v, "drop")
      BY <1>1, <2>2 DEF DropSitting
    <3>2. PageFits(visit[v])
      BY <1>1 DEF IrisInv
    <3> QED
      BY <1>1, <3>1, <3>2 DEF PageFits, Dropped, VisitAt
  <2>3. ASSUME NEW v \in Visits, AnswerRecorded(v) PROVE FALSE
    <3>1. Open /\ \E correct \in BOOLEAN :
            \/ \E next \in Submit(sitting, correct, visit[v].left) :
                 \E left \in LeftOver(sitting.left, visit[v].left, next.ask) : sitting' = [next EXCEPT !.left = left]
            \/ sitting' = Finished(Tallied(sitting, correct))
      BY <2>3 DEF AnswerRecorded, Finished
    <3>2. PICK correct \in BOOLEAN :
            \/ \E next \in Submit(sitting, correct, visit[v].left) :
                 \E left \in LeftOver(sitting.left, visit[v].left, next.ask) : sitting' = [next EXCEPT !.left = left]
            \/ sitting' = Finished(Tallied(sitting, correct))
      BY <3>1
    <3>3. /\ sitting.ask \in Levels /\ visit[v].left \in Counts
          /\ \A lv \in Levels : sitting.right[lv] <= sitting.asked[lv]
      BY <1>1, <2>0, <3>1, IrisTypes DEF IrisTyped, VisitRow
    <3>4. sitting' # Finished(Tallied(sitting, correct))
      BY <1>1, <2>0, <3>3, Tally, Finishing
    <3>5. ASSUME NEW next \in Submit(sitting, correct, visit[v].left), NEW left, sitting' = [next EXCEPT !.left = left]
          PROVE  FALSE
      <4>1. next \in SittingRow /\ next.status = sitting.status
        BY <2>0, <3>3, Submitted DEF Kept
      <4> QED
        BY <1>1, <3>5, <4>1 DEF SittingRow
    <3> QED
      BY <3>2, <3>4, <3>5
  <2>4. ASSUME NEW v \in Visits, InsertSitting(v) PROVE FALSE
    BY <1>1, <2>4 DEF InsertSitting
  <2>5. CASE Withdraw
    <3>1. PICK lv \in Levels :
            sitting' = IF sitting.left[lv] > 0 THEN [sitting EXCEPT !.left[lv] = @ - 1] ELSE sitting
      BY <2>5 DEF Withdraw
    <3> QED
      BY <1>1, <2>0, <3>1 DEF SittingRow
  <2> QED
    BY <1>1, <2>1, <2>2, <2>3, <2>4, <2>5
       DEF IrisNext, irisVars, ReplaceBank, StartAsked, LookForOpen, CheckTaken, DrawFirst, AnswerAsked, AnswerRefused,
           VisitLost
<1> QED
  BY <1>1, IrisInvariant, PTL DEF IrisSpec, ProgressIsKept
=============================================================================
