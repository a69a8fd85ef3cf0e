-------------------------- MODULE RecordingUpload --------------------------
(***************************************************************************)
(* One stream of a recording on its way from the browser to the server.    *)
(*                                                                         *)
(* The recorder saves chunks in the browser's store; every open tab runs   *)
(* an uploader over that store, pass after pass; the server keeps the      *)
(* chunks and joins them when a tab says the stream has ended.  Requests   *)
(* are lost or time out while their handlers go on, chunks land late, and  *)
(* tabs and servers die.                                                   *)
(***************************************************************************)
EXTENDS Naturals, FiniteSets

CONSTANTS
  Tabs,           \* open pages of the site, each with an uploader
  Handlers,       \* finish requests the server may be at work on at once
  MaxChunks,      \* chunks the recorder saves at most
  MaxMishaps,     \* requests lost or timed out, deaths of tabs and servers, a deletion
  Punctual,       \* a recorder at work saves something every STALE_MS
  PatientJoin,    \* a join takes less than STALE_ASSEMBLY_MS, or is dead
  NoTab           \* nobody waits for the answer

ASSUME RecordingConstants ==
  /\ MaxChunks \in Nat /\ MaxMishaps \in Nat
  /\ {Punctual, PatientJoin} \subseteq BOOLEAN
  /\ NoTab \notin Tabs

Chunks == 1 .. MaxChunks

VARIABLES
  take,        \* the browser's row: its state, chunks saved, whether it is kept
  sent,        \* chunks the browser's store marks as uploaded
  track,       \* the server's row
  chunkStore,  \* chunks the server keeps
  late,        \* chunks on their way whose sender has given up
  tab,         \* each tab's uploader
  handler,     \* each finish request at work
  direct,      \* chunks go straight to the bucket on signed URLs
  mishaps,     \* mishaps still to come
  deleted      \* an administrator has deleted the take

browser == <<take, sent>>
server == <<track, chunkStore, late>>
recordingVars == <<browser, server, tab, handler, direct, mishaps, deleted>>

Answers == [status : {"missing", "ready", "assembling", "failed", "gone", "none"}, missing : SUBSET Chunks]
Answer(status) == [status |-> status, missing |-> {}]

Closed == [pc |-> "idle", ended |-> FALSE, kept |-> 0, up |-> {}, filed |-> FALSE, urls |-> FALSE,
           joined |-> FALSE, answer |-> Answer("none")]
Free == [pc |-> "free", tab |-> NoTab, chunks |-> 0, id |-> 0]

(* A recorder has just started, or nobody records; the deployment keeps     *)
(* recordings in a bucket or on its disk.                                   *)
RecordingInit ==
  /\ take \in {[state |-> "recording", saved |-> 0, kept |-> TRUE],
               [state |-> "stopped", saved |-> 0, kept |-> FALSE]}
  /\ sent = {}
  /\ track = [status |-> "absent", aged |-> FALSE, file |-> 0, id |-> 0]
  /\ chunkStore = {}
  /\ late = {}
  /\ tab = [t \in Tabs |-> Closed]
  /\ handler = [h \in Handlers |-> Free]
  /\ direct \in {FALSE, take.kept}
  /\ mishaps = MaxMishaps
  /\ deleted = FALSE

Mishap == mishaps > 0 /\ mishaps' = mishaps - 1

-----------------------------------------------------------------------------
(* The recorder (use-take-recorder.ts, store.ts).                           *)

Growing == take.state = "recording"

SaveChunk ==
  /\ Growing /\ take.saved < MaxChunks
  /\ take' = [take EXCEPT !.saved = @ + 1]
  /\ UNCHANGED <<sent, server, tab, handler, direct, mishaps, deleted>>

(* markStopped is queued behind every chunk.                                *)
StopRecorder ==
  /\ Growing
  /\ take' = [take EXCEPT !.state = "stopped"]
  /\ UNCHANGED <<sent, server, tab, handler, direct, mishaps, deleted>>

(* The recorder's page dies: the row says recording for ever, and lists as  *)
(* ended once it has not grown for STALE_MS.                                *)
RecorderDies ==
  /\ Growing /\ Mishap
  /\ take' = [take EXCEPT !.state = "cut"]
  /\ UNCHANGED <<sent, server, tab, handler, direct, deleted>>

(* withStaleness: may the row list as ended, as a recorder that is only slow *)
(* to save its next chunk may?                                              *)
ListedEndsEarly == BOOLEAN      \* mutant: whatever the recorder is doing
ListedEnds == IF ~Growing THEN {TRUE} ELSE IF Punctual THEN {FALSE} ELSE BOOLEAN

-----------------------------------------------------------------------------
(* The uploader: one pass after another, in every tab.                      *)

TabAt(t, pc) == tab[t].pc = pc
Set(t, w) == tab' = [tab EXCEPT ![t] = w]
EndPass(t) == [tab[t] EXCEPT !.pc = "idle", !.ended = FALSE, !.kept = 0, !.up = {}, !.answer = Answer("none")]

(* load: the rows first, then what is kept and what has been sent.          *)
PassStart(t) ==
  /\ TabAt(t, "idle") /\ take.kept
  /\ \E over \in ListedEnds : Set(t, [tab[t] EXCEPT !.pc = "load", !.ended = over])
  /\ UNCHANGED <<browser, server, handler, direct, mishaps, deleted>>

PassLoad(t) ==
  /\ TabAt(t, "load")
  /\ Set(t, [tab[t] EXCEPT !.pc = "file", !.kept = IF take.kept THEN take.saved ELSE 0,
                           !.up = IF take.kept THEN sent ELSE {}])
  /\ UNCHANGED <<browser, server, handler, direct, mishaps, deleted>>

(* registerTrack: filing again changes nothing.                             *)
Filed == IF track.status # "absent" THEN track
         ELSE [status |-> "uploading", aged |-> FALSE, file |-> 0, id |-> track.id + 1]

Register(t) ==
  /\ TabAt(t, "file")
  /\ IF tab[t].filed THEN UNCHANGED track ELSE track' = Filed
  /\ Set(t, [tab[t] EXCEPT !.pc = "send", !.filed = TRUE])
  /\ UNCHANGED <<browser, chunkStore, late, handler, direct, mishaps, deleted>>

Accepts == track.status \in {"uploading", "failed"}
Unsent(t) == (1 .. tab[t].kept) \ tab[t].up
Mark(t, c) == /\ sent' = sent \cup {c}
              /\ Set(t, [tab[t] EXCEPT !.up = @ \cup {c}])

(* The server does not know the stream: file it again, and fail the pass.   *)
Refile(t) ==
  /\ track.status = "absent"
  /\ track' = Filed
  /\ Set(t, EndPass(t))
  /\ UNCHANGED <<browser, chunkStore, late, handler, direct, mishaps, deleted>>

(* A chunk another tab has dropped, or one of a file that is joined, counts *)
(* as sent.                                                                 *)
SendNothing(t) ==
  /\ TabAt(t, "send")
  /\ \E c \in Unsent(t) :
       /\ ~take.kept \/ (direct /\ tab[t].joined) \/ (~direct /\ track.status \in {"ready", "assembling"})
       /\ Mark(t, c)
  /\ UNCHANGED <<take, server, handler, direct, mishaps, deleted>>

SendChunk(t) ==
  /\ TabAt(t, "send") /\ take.kept
  /\ IF direct THEN tab[t].urls /\ ~tab[t].joined ELSE Accepts
  /\ \E c \in Unsent(t) : chunkStore' = chunkStore \cup {c} /\ Mark(t, c)
  /\ UNCHANGED <<take, track, late, handler, direct, mishaps, deleted>>

SendUnfiled(t) == TabAt(t, "send") /\ Unsent(t) # {} /\ take.kept /\ ~direct /\ Refile(t)

AskUrls(t) ==
  /\ TabAt(t, "send") /\ Unsent(t) # {} /\ take.kept /\ direct /\ ~tab[t].urls /\ ~tab[t].joined
  /\ \/ Refile(t)
     \/ /\ track.status # "absent"
        /\ Set(t, IF Accepts THEN [tab[t] EXCEPT !.urls = TRUE] ELSE [tab[t] EXCEPT !.joined = TRUE])
        /\ UNCHANGED <<browser, server, handler, direct, mishaps, deleted>>

(* A chunk's request fails for the sender; it may arrive later all the same *)
(* (a signed URL is not tried twice).                                       *)
SendFails(t) ==
  /\ TabAt(t, "send") /\ take.kept /\ Mishap
  /\ IF direct THEN tab[t].urls /\ ~tab[t].joined ELSE Accepts
  /\ \E c \in Unsent(t) : late' \in {late, late \cup {c}}
  /\ Set(t, [EndPass(t) EXCEPT !.urls = FALSE])
  /\ UNCHANGED <<browser, track, chunkStore, handler, direct, deleted>>

ChunkLands ==
  /\ \E c \in late : chunkStore' = chunkStore \cup {c} /\ late' = late \ {c}
  /\ UNCHANGED <<browser, track, tab, handler, direct, mishaps, deleted>>

(* Finish what has ended and is sent; a stream with nothing kept as well.   *)
AskFinish(t) ==
  /\ TabAt(t, "send") /\ Unsent(t) = {} /\ tab[t].ended
  /\ \E h \in Handlers :
       /\ handler[h].pc = "free"
       /\ handler' = [handler EXCEPT ![h] = [pc |-> "read", tab |-> t, chunks |-> tab[t].kept, id |-> 0]]
  /\ Set(t, [tab[t] EXCEPT !.pc = "wait"])
  /\ UNCHANGED <<browser, server, direct, mishaps, deleted>>

PassEnd(t) ==
  /\ TabAt(t, "send") /\ Unsent(t) = {} /\ ~tab[t].ended
  /\ Set(t, EndPass(t))
  /\ UNCHANGED <<browser, server, handler, direct, mishaps, deleted>>

Forget == take' = [take EXCEPT !.kept = FALSE] /\ sent' = {}

HandleAnswerEarly(t) ==     \* mutant: drops the take once its file is being joined
  /\ TabAt(t, "answer")
  /\ LET a == tab[t].answer IN
       \/ /\ a.status = "gone"
          /\ Set(t, [EndPass(t) EXCEPT !.pc = "gone"])
          /\ UNCHANGED browser
       \/ /\ a.status # "gone" /\ (tab[t].kept = 0 \/ a.status \in {"ready", "assembling"})
          /\ Forget
          /\ Set(t, [EndPass(t) EXCEPT !.filed = (@ /\ tab[t].kept = 0), !.urls = (@ /\ tab[t].kept = 0)])
       \/ /\ a.status \notin {"gone", "ready", "assembling"} /\ tab[t].kept > 0
          /\ sent' = sent \ a.missing
          /\ Set(t, EndPass(t))
          /\ UNCHANGED take
  /\ UNCHANGED <<server, handler, direct, mishaps, deleted>>
HandleAnswer(t) ==
  /\ TabAt(t, "answer")
  /\ LET a == tab[t].answer IN
       \/ /\ a.status = "gone"
          /\ Set(t, [EndPass(t) EXCEPT !.pc = "gone"])
          /\ UNCHANGED browser
       \/ /\ a.status # "gone" /\ (tab[t].kept = 0 \/ a.status = "ready")
          /\ Forget
          /\ Set(t, [EndPass(t) EXCEPT !.filed = (@ /\ tab[t].kept = 0), !.urls = (@ /\ tab[t].kept = 0)])
       \/ /\ a.status \notin {"gone", "ready"} /\ tab[t].kept > 0
          /\ sent' = sent \ a.missing
          /\ Set(t, EndPass(t))
          /\ UNCHANGED take
  /\ UNCHANGED <<server, handler, direct, mishaps, deleted>>

(* A small request fails or times out; what it began on the server goes on. *)
RequestFails(t) ==
  /\ tab[t].pc \in {"file", "send", "wait"} /\ Mishap
  /\ Set(t, EndPass(t))
  /\ handler' = [h \in Handlers |-> IF handler[h].tab = t THEN [handler[h] EXCEPT !.tab = NoTab] ELSE handler[h]]
  /\ UNCHANGED <<browser, server, direct, deleted>>

(* A tab is closed or crashes, and is opened again.                         *)
TabReopens(t) ==
  /\ tab[t] # Closed /\ Mishap
  /\ Set(t, Closed)
  /\ handler' = [h \in Handlers |-> IF handler[h].tab = t THEN [handler[h] EXCEPT !.tab = NoTab] ELSE handler[h]]
  /\ UNCHANGED <<browser, server, direct, deleted>>

-----------------------------------------------------------------------------
(* finishTrack, statement by statement.                                     *)

HandlerAt(h, pc) == handler[h].pc = pc
Reply(h, a) ==
  tab' = [t \in Tabs |-> IF handler[h].tab = t THEN [tab[t] EXCEPT !.pc = "answer", !.answer = a] ELSE tab[t]]
Go(h, pc) == handler' = [handler EXCEPT ![h].pc = pc]
Done(h) == handler' = [handler EXCEPT ![h] = Free]

FinishRead(h) ==
  /\ HandlerAt(h, "read")
  /\ \/ track.status = "absent" /\ Reply(h, Answer("gone")) /\ Done(h)
     \/ track.status = "ready" /\ Reply(h, Answer("ready")) /\ Done(h)
     \/ /\ track.status \notin {"absent", "ready"}
        /\ handler' = [handler EXCEPT ![h].pc = IF handler[h].chunks = 0 THEN "empty" ELSE "list", ![h].id = track.id]
        /\ UNCHANGED tab
  /\ UNCHANGED <<browser, server, direct, mishaps, deleted>>

Mine(h) == track.status # "absent" /\ track.id = handler[h].id

FinishEmpty(h) ==
  /\ HandlerAt(h, "empty")
  /\ track' = IF Mine(h) /\ Accepts THEN [track EXCEPT !.status = "failed"] ELSE track
  /\ Reply(h, Answer("failed")) /\ Done(h)
  /\ UNCHANGED <<browser, chunkStore, late, direct, mishaps, deleted>>

FinishList(h) ==
  /\ HandlerAt(h, "list")
  /\ LET missing == (1 .. handler[h].chunks) \ chunkStore IN
       IF missing = {} THEN Go(h, "claim") /\ UNCHANGED tab
       ELSE Reply(h, [status |-> "missing", missing |-> missing]) /\ Done(h)
  /\ UNCHANGED <<browser, server, direct, mishaps, deleted>>

(* A claim older than STALE_ASSEMBLY_MS may be taken over.                  *)
AssemblyAges ==
  /\ track.status = "assembling" /\ ~track.aged
  /\ PatientJoin => \A h \in Handlers : ~HandlerAt(h, "join")
  /\ track' = [track EXCEPT !.aged = TRUE]
  /\ UNCHANGED <<browser, chunkStore, late, tab, handler, direct, mishaps, deleted>>

ClaimableOnce == Accepts     \* mutant: a claim is never taken over
Claimable == Accepts \/ (track.status = "assembling" /\ track.aged)

(* On disk the join is left for after the answer.                           *)
FinishClaim(h) ==
  /\ HandlerAt(h, "claim") /\ Mine(h) /\ Claimable
  /\ track' = [track EXCEPT !.status = "assembling", !.aged = FALSE]
  /\ IF direct THEN Go(h, "join") /\ UNCHANGED tab
     ELSE /\ handler' = [handler EXCEPT ![h].pc = "join", ![h].tab = NoTab]
          /\ Reply(h, Answer("assembling"))
  /\ UNCHANGED <<browser, chunkStore, late, direct, mishaps, deleted>>

FinishUnclaimed(h) ==
  /\ HandlerAt(h, "claim") /\ ~(Mine(h) /\ Claimable)
  /\ Reply(h, Answer("assembling")) /\ Done(h)
  /\ UNCHANGED <<browser, server, direct, mishaps, deleted>>

FinishJoin(h) ==
  /\ HandlerAt(h, "join") /\ 1 .. handler[h].chunks \subseteq chunkStore
  /\ track' = IF Mine(h) THEN [track EXCEPT !.status = "ready", !.file = handler[h].chunks] ELSE track
  /\ Reply(h, Answer("ready"))
  /\ handler' = [handler EXCEPT ![h].pc = "clean", ![h].tab = NoTab]
  /\ UNCHANGED <<browser, chunkStore, late, direct, mishaps, deleted>>

JoinFailed(h) ==
  /\ track' = IF Mine(h) THEN [track EXCEPT !.status = "failed"] ELSE track
  /\ Reply(h, Answer("failed")) /\ Done(h)
  /\ UNCHANGED <<browser, chunkStore, late, direct, deleted>>

(* A chunk is gone after all, or the join fails for reasons of its own.     *)
FinishJoinGap(h) ==
  /\ HandlerAt(h, "join") /\ ~(1 .. handler[h].chunks \subseteq chunkStore)
  /\ JoinFailed(h)
  /\ UNCHANGED mishaps

FinishJoinFails(h) == HandlerAt(h, "join") /\ Mishap /\ JoinFailed(h)

FinishClean(h) ==
  /\ HandlerAt(h, "clean")
  /\ chunkStore' = chunkStore \ (1 .. handler[h].chunks)
  /\ Done(h)
  /\ UNCHANGED <<browser, track, late, tab, direct, mishaps, deleted>>

ServerDies(h) ==
  /\ ~HandlerAt(h, "free") /\ Mishap
  /\ Done(h)
  /\ tab' = [t \in Tabs |-> IF handler[h].tab = t THEN EndPass(t) ELSE tab[t]]
  /\ UNCHANGED <<browser, server, direct, deleted>>

(* deleteTake: the rows, then the files; a late chunk may still land.       *)
DeleteTake ==
  /\ ~deleted /\ track.status # "absent" /\ Mishap
  /\ track' = [track EXCEPT !.status = "absent", !.file = 0]
  /\ chunkStore' = {}
  /\ deleted' = TRUE
  /\ UNCHANGED <<browser, late, tab, handler, direct>>

-----------------------------------------------------------------------------
PassStep(t) ==
  \/ PassLoad(t) \/ Register(t) \/ SendNothing(t) \/ SendChunk(t) \/ SendUnfiled(t)
  \/ AskUrls(t) \/ AskFinish(t) \/ PassEnd(t) \/ HandleAnswer(t)
FinishStep(h) ==
  \/ FinishRead(h) \/ FinishEmpty(h) \/ FinishList(h) \/ FinishClaim(h) \/ FinishUnclaimed(h)
  \/ FinishJoin(h) \/ FinishJoinGap(h) \/ FinishClean(h)

RecordingNext ==
  \/ SaveChunk \/ StopRecorder \/ RecorderDies \/ ChunkLands \/ AssemblyAges \/ DeleteTake
  \/ \E t \in Tabs : PassStart(t) \/ PassStep(t) \/ SendFails(t) \/ RequestFails(t) \/ TabReopens(t)
  \/ \E h \in Handlers : FinishStep(h) \/ FinishJoinFails(h) \/ ServerDies(h)

RecordingSpec == RecordingInit /\ [][RecordingNext]_recordingVars

(* The recorder is stopped at some time; an open page goes on passing over  *)
(* its store; a request the server has taken up goes on unless it dies.     *)
RecordingFairness ==
  /\ WF_recordingVars(StopRecorder) /\ WF_recordingVars(AssemblyAges)
  /\ \A t \in Tabs : WF_recordingVars(PassStart(t) \/ PassStep(t))
  /\ \A h \in Handlers : WF_recordingVars(FinishStep(h))

-----------------------------------------------------------------------------
RecordingTypeOK ==
  /\ take \in [state : {"recording", "stopped", "cut"}, saved : 0 .. MaxChunks, kept : BOOLEAN]
  /\ sent \subseteq Chunks
  /\ track \in [status : {"absent", "uploading", "assembling", "ready", "failed"},
                aged : BOOLEAN, file : 0 .. MaxChunks, id : 0 .. 2]
  /\ chunkStore \subseteq Chunks
  /\ late \subseteq Chunks
  /\ tab \in [Tabs -> [pc : {"idle", "load", "file", "send", "wait", "answer", "gone"}, ended : BOOLEAN,
                       kept : 0 .. MaxChunks, up : SUBSET Chunks, filed : BOOLEAN, urls : BOOLEAN,
                       joined : BOOLEAN, answer : Answers]]
  /\ handler \in [Handlers -> [pc : {"free", "read", "empty", "list", "claim", "join", "clean"},
                               tab : Tabs \cup {NoTab}, chunks : 0 .. MaxChunks, id : 0 .. 2]]
  /\ direct \in BOOLEAN
  /\ mishaps \in 0 .. MaxMishaps
  /\ deleted \in BOOLEAN

(* The file on offer holds everything the recorder saved: no interleaving   *)
(* of passes, late chunks, repeated finishes and clean-ups joins it short.  *)
FileIsWhole == track.status = "ready" => track.file = take.saved

(* The browser keeps what it recorded until all of it is on offer.          *)
Promise == INSTANCE TakeHandover WITH
  recorded <- take.saved, ended <- ~Growing, held <- take.kept,
  served <- IF track.status = "ready" THEN track.file ELSE 0, withdrawn <- deleted
HandoverKept == Promise!Handover

(* A recording that ended reaches the server, or the take was deleted.      *)
TakeArrives == take.kept ~> (~take.kept \/ deleted)
=============================================================================
