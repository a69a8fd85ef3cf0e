---------------------------- MODULE IrisSitting ----------------------------
(***************************************************************************)
(* One taker's live sitting of one subject of the Diagnostic: an adaptive  *)
(* test of 10 to 17 questions, kept on the server, answered from pages     *)
(* that may be open side by side.                                          *)
(*                                                                         *)
(* Meanwhile reviewers withdraw questions, a deployment brings another     *)
(* question bank, and an administrator clears the results.  Questions are  *)
(* counted by level: which one of a level is drawn changes nothing here.   *)
(***************************************************************************)
EXTENDS Naturals

CONSTANTS
  Visits,       \* pages of the taker
  Occasions     \* how many questions of each level are approved at first, and what is to
                \* come: start requests, answers, withdrawals, deployments, clearings, losses

Levels == 1 .. 3

Counts == [Levels -> Nat]
Budgets == [starts : Nat, answers : Nat, withdrawals : Nat, banks : Nat, clearings : Nat, losses : Nat]

ASSUME IrisConstants ==
  Occasions \subseteq [approved : Counts, left : Budgets]

START == 2
MIN == 10
MAX == 14
UP == 2
DOWN == 2
TIE_N == 3
MIN_AT_LEVEL == 3

VARIABLES
  sitting,    \* the row of iris_attempts, its responses as tallies by level
  bank,       \* the deployed bank's number, and how many of its questions are approved
  visit,      \* each page: its request under way, and the question it shows
  irisLeft,   \* what is still to come
  sat         \* history: approved at the start, withdrawals since; the placement before a
              \* tiebreak, and whether that had to ask at another level

irisVars == <<sitting, bank, visit, irisLeft, sat>>

None == [lv \in Levels |-> 0]
NoSitting == [id |-> 0, status |-> "none", bank |-> 0, level |-> START, up |-> 0, down |-> 0, phase |-> "main",
              tieLeft |-> 0, ask |-> 0, asked |-> None, right |-> None, left |-> None, placement |-> 0]
Away == [pc |-> "rest", shows |-> "none", id |-> 0, bank |-> 0, left |-> None]
NotSat == [from |-> None, thinned |-> FALSE, placed |-> 0, fell |-> FALSE]

IrisInit ==
  /\ sitting = NoSitting
  /\ \E o \in Occasions : bank = [number |-> 1, approved |-> o.approved] /\ irisLeft = o.left
  /\ visit = [v \in Visits |-> Away]
  /\ sat = NotSat

Total(f) == f[1] + f[2] + f[3]
SpendIris(what) == irisLeft[what] > 0 /\ irisLeft' = [irisLeft EXCEPT ![what] = @ - 1]

-----------------------------------------------------------------------------
(* The engine, over a sitting's tallies.                                    *)

Earned(s, lv) == s.asked[lv] >= MIN_AT_LEVEL /\ 3 * s.right[lv] >= 2 * s.asked[lv]
PlacementOf(s) == CHOOSE p \in Levels : /\ Earned(s, p) \/ p = 1
                                        /\ \A lv \in Levels : Earned(s, lv) => lv <= p

(* The level nearest to the one asked for that has a question left, the     *)
(* lower of two; none when nothing is left.                                 *)
Distance(lv, level) == IF lv > level THEN 2 * (lv - level) + 1 ELSE 2 * (level - lv)
DrawItem(left, level) ==
  {lv \in Levels : left[lv] > 0 /\ \A m \in Levels : left[m] > 0 => Distance(lv, level) <= Distance(m, level)}

Settled(s) ==
  LET p == PlacementOf(s) IN
  /\ s.asked[p] >= 4
  /\ IF p = 3 THEN 4 * s.right[3] >= 3 * s.asked[3]
     ELSE s.asked[p + 1] >= MIN_AT_LEVEL /\ 2 * s.right[p + 1] < s.asked[p + 1]

TiebreakLevel(s) ==
  {lv \in Levels : /\ lv = PlacementOf(s) + 1 /\ s.asked[lv] >= MIN_AT_LEVEL
                   /\ 20 * s.right[lv] >= 9 * s.asked[lv] /\ 3 * s.right[lv] < 2 * s.asked[lv]}

(* Two right in a row move up a level, two wrong move down.  Counting on at *)
(* the top or the bottom makes no difference, and is not modelled.          *)
CountUp(k) == IF k < UP THEN k + 1 ELSE k
CountDown(k) == IF k < DOWN THEN k + 1 ELSE k
Moved(s, correct) ==
  IF correct
    THEN IF s.up + 1 >= UP /\ s.level < 3 THEN [s EXCEPT !.level = @ + 1, !.up = 0, !.down = 0]
         ELSE [s EXCEPT !.up = CountUp(@), !.down = 0]
    ELSE IF s.down + 1 >= DOWN /\ s.level > 1 THEN [s EXCEPT !.level = @ - 1, !.down = 0, !.up = 0]
         ELSE [s EXCEPT !.down = CountDown(@), !.up = 0]

Tallied(s, correct) ==
  [s EXCEPT !.asked[s.ask] = @ + 1, !.right[s.ask] = IF correct THEN @ + 1 ELSE @]

EnoughWhenSettled(s) == Total(s.asked) >= MAX \/ Settled(s)     \* mutant: the minimum is not looked at
EnoughAsked(s) == Total(s.asked) >= MAX \/ (Total(s.asked) >= MIN /\ Settled(s))

GoesOn(s, left) ==
  IF s.phase = "main"
    THEN {[s EXCEPT !.ask = lv] : lv \in IF EnoughAsked(s) THEN {} ELSE DrawItem(left, s.level)}
    ELSE {[s EXCEPT !.ask = lv, !.tieLeft = @ - 1] : lv \in IF s.tieLeft > 0 THEN DrawItem(left, s.level) ELSE {}}

BreaksTie(s, left) ==
  IF s.phase = "main"
    THEN UNION {{[s EXCEPT !.ask = lv, !.phase = "tiebreak", !.tieLeft = TIE_N - 1, !.level = tie] :
                   lv \in DrawItem(left, tie)} : tie \in TiebreakLevel(s)}
    ELSE {}

(* submit: the sitting with its next question; none when it is over.        *)
Submit(s, correct, left) ==
  LET after == IF s.phase = "main" THEN Moved(Tallied(s, correct), correct) ELSE Tallied(s, correct) IN
  IF GoesOn(after, left) # {} THEN GoesOn(after, left) ELSE BreaksTie(after, left)

(* What is left once a question of a level is drawn from those that were    *)
(* approved when they were read: one withdrawn since, or one still there.   *)
LeftOver(now, read, lv) ==
  {[now EXCEPT ![lv] = k] : k \in {k \in 0 .. now[lv] : k + 1 = now[lv] \/ (k = now[lv] /\ read[lv] > k)}}

-----------------------------------------------------------------------------
(* startSitting.                                                            *)

VisitAt(v, pc) == visit[v].pc = pc
ToStep(v, pc) == visit' = [visit EXCEPT ![v].pc = pc]
Show(v, what) == visit' = [visit EXCEPT ![v] = [Away EXCEPT !.shows = what]]
Open == sitting.status = "open"

StartAsked(v) ==
  /\ VisitAt(v, "rest") /\ SpendIris("starts")
  /\ visit' = [visit EXCEPT ![v].pc = "look", ![v].bank = bank.number]
  /\ UNCHANGED <<sitting, bank, sat>>

(* Resumed, unless its question is not in the bank of the instance asked.   *)
LookForOpen(v) ==
  /\ VisitAt(v, "look")
  /\ IF Open /\ sitting.bank = visit[v].bank THEN Show(v, "now")
     ELSE visit' = [visit EXCEPT ![v].pc = IF Open THEN "drop" ELSE "check", ![v].id = sitting.id]
  /\ UNCHANGED <<sitting, bank, irisLeft, sat>>

(* What the pages show is then of a sitting that is no more.                *)
Gone == [v \in Visits |-> IF visit[v].shows = "none" THEN visit[v] ELSE [visit[v] EXCEPT !.shows = "gone"]]
Deleted == sitting' = [NoSitting EXCEPT !.id = sitting.id]

DroppedAny(v) == sitting.status # "none"      \* mutant: by taker and subject, and not by id
Dropped(v) == sitting.id = visit[v].id

DropSitting(v) ==
  /\ VisitAt(v, "drop")
  /\ IF Dropped(v) THEN Deleted /\ visit' = [Gone EXCEPT ![v].pc = "check"]
     ELSE ToStep(v, "check") /\ UNCHANGED sitting
  /\ UNCHANGED <<bank, irisLeft, sat>>

CheckTaken(v) ==
  /\ VisitAt(v, "check")
  /\ IF sitting.status # "none" THEN Show(v, "none") ELSE ToStep(v, "draw")
  /\ UNCHANGED <<sitting, bank, irisLeft, sat>>

DrawFirst(v) ==
  /\ VisitAt(v, "draw")
  /\ IF Total(bank.approved) < MIN THEN Show(v, "none")
     ELSE visit' = [visit EXCEPT ![v].pc = "insert", ![v].left = bank.approved]
  /\ UNCHANGED <<sitting, bank, irisLeft, sat>>

InsertSitting(v) ==
  /\ VisitAt(v, "insert")
  /\ IF sitting.status # "none" THEN ToStep(v, "look") /\ UNCHANGED <<sitting, sat>>
     ELSE /\ \E lv \in DrawItem(visit[v].left, START) : \E left \in LeftOver(bank.approved, visit[v].left, lv) :
               sitting' = [NoSitting EXCEPT !.id = sitting.id + 1, !.status = "open", !.bank = visit[v].bank,
                                            !.ask = lv, !.left = left]
          /\ sat' = [NotSat EXCEPT !.from = visit[v].left, !.thinned = visit[v].left # bank.approved]
          /\ Show(v, "now")
  /\ UNCHANGED <<bank, irisLeft>>

-----------------------------------------------------------------------------
(* answer: the questions approved are read first, the rest is one           *)
(* transaction with the row locked.                                         *)

AnswerAsked(v) ==
  /\ VisitAt(v, "rest") /\ visit[v].shows # "none" /\ SpendIris("answers")
  /\ visit' = [visit EXCEPT ![v].pc = "answer", ![v].bank = bank.number, ![v].left = sitting.left]
  /\ UNCHANGED <<sitting, bank, sat>>

(* No such sitting of theirs, or one on another bank.                       *)
NotFound(v) == visit[v].shows = "gone" \/ sitting.bank # visit[v].bank

AnswerRefused(v) ==
  /\ VisitAt(v, "answer")
  /\ \/ (NotFound(v) \/ ~Open) /\ Show(v, visit[v].shows)
     \/ ~NotFound(v) /\ Open /\ visit[v].shows = "before" /\ Show(v, "now")
  /\ UNCHANGED <<sitting, bank, irisLeft, sat>>

(* The other pages now show a question that has been answered, and so does  *)
(* this one when the reply is lost.                                         *)
Recorded(v, shows) ==
  visit' = [w \in Visits |-> IF w = v THEN [Away EXCEPT !.shows = shows]
                             ELSE IF visit[w].shows = "now" THEN [visit[w] EXCEPT !.shows = "before"] ELSE visit[w]]

AnswerRecorded(v) ==
  /\ VisitAt(v, "answer") /\ ~NotFound(v) /\ Open /\ visit[v].shows = "now"
  /\ \E correct \in BOOLEAN :
       \/ \E next \in Submit(sitting, correct, visit[v].left) :
            /\ \E left \in LeftOver(sitting.left, visit[v].left, next.ask) : sitting' = [next EXCEPT !.left = left]
            /\ sat' = IF next.phase = "main" THEN sat
                      ELSE [sat EXCEPT !.placed = IF @ = 0 THEN PlacementOf(next) ELSE @,
                                       !.fell = @ \/ next.ask # next.level]
       \/ /\ Submit(sitting, correct, visit[v].left) = {}
          /\ LET last == Tallied(sitting, correct) IN
             sitting' = [last EXCEPT !.status = "finished", !.ask = 0, !.placement = PlacementOf(last)]
          /\ UNCHANGED sat
  /\ \/ Recorded(v, IF sitting'.status = "open" THEN "now" ELSE "none") /\ UNCHANGED irisLeft
     \/ Recorded(v, "before") /\ SpendIris("losses")
  /\ UNCHANGED bank

VisitLost(v) ==
  /\ visit[v].pc # "rest" /\ SpendIris("losses")
  /\ Show(v, visit[v].shows)
  /\ UNCHANGED <<sitting, bank, sat>>

-----------------------------------------------------------------------------
(* A question already asked is withdrawn, or one that is not.               *)
Withdraw ==
  /\ SpendIris("withdrawals")
  /\ \E lv \in Levels :
       /\ bank.approved[lv] > 0
       /\ bank' = [bank EXCEPT !.approved[lv] = @ - 1]
       /\ sitting' = IF sitting.left[lv] > 0 THEN [sitting EXCEPT !.left[lv] = @ - 1] ELSE sitting
  /\ sat' = [sat EXCEPT !.thinned = TRUE]
  /\ UNCHANGED visit

ReplaceBank ==
  /\ SpendIris("banks")
  /\ bank' = [bank EXCEPT !.number = @ + 1]
  /\ UNCHANGED <<sitting, visit, sat>>

ClearResults ==
  /\ SpendIris("clearings") /\ sitting.status # "none"
  /\ Deleted /\ visit' = Gone
  /\ UNCHANGED <<bank, sat>>

IrisNext ==
  \/ Withdraw \/ ReplaceBank \/ ClearResults
  \/ \E v \in Visits :
       \/ StartAsked(v) \/ LookForOpen(v) \/ DropSitting(v) \/ CheckTaken(v) \/ DrawFirst(v) \/ InsertSitting(v)
       \/ AnswerAsked(v) \/ AnswerRefused(v) \/ AnswerRecorded(v) \/ VisitLost(v)

IrisSpec == IrisInit /\ [][IrisNext]_irisVars

-----------------------------------------------------------------------------
IrisTypeOK ==
  /\ sitting \in [id : Nat, status : {"none", "open", "finished"}, bank : Nat, level : Levels, up : Nat, down : Nat,
                  phase : {"main", "tiebreak"}, tieLeft : 0 .. TIE_N - 1, ask : 0 .. 3, asked : Counts,
                  right : Counts, left : Counts, placement : 0 .. 3]
  /\ \A lv \in Levels : sitting.right[lv] <= sitting.asked[lv]
  /\ bank \in [number : Nat, approved : Counts]
  /\ visit \in [Visits -> [pc : {"rest", "look", "drop", "check", "draw", "insert", "answer"},
                           shows : {"none", "now", "before", "gone"}, id : Nat, bank : Nat, left : Counts]]
  /\ irisLeft \in Budgets
  /\ sat \in [from : Counts, thinned : BOOLEAN, placed : 0 .. 3, fell : BOOLEAN]

(* "10 to 14 questions, then up to 3": a sitting is never longer, and no    *)
(* shorter unless questions were withdrawn meanwhile.                       *)
IsLong ==
  /\ Total(sitting.asked) <= MAX + TIE_N
  /\ sat.thinned \/ Total(sitting.asked) >= MIN

(* Who answers everything right is placed at the top, if the bank has       *)
(* enough to show it.                                                       *)
IsRewarded ==
  (sitting.right = sitting.asked /\ ~sat.thinned /\ sat.from[3] >= MIN_AT_LEVEL) => sitting.placement = 3

(* A tiebreak may raise a placement and not lower it, as long as it asks at *)
(* the level it is about.                                                   *)
TiebreakRaises == sat.fell \/ sitting.placement >= sat.placed

(* Over every run of right and wrong answers, thick and thin banks.         *)
SittingIsFair == sitting.status = "finished" => IsLong /\ IsRewarded /\ TiebreakRaises

(* A sitting is not "a fresh, rerollable run": what has been answered is    *)
(* dropped only when results are cleared, or by a start request of an       *)
(* instance whose bank has not the question on screen; two pages that start *)
(* at once do not drop each other's.                                        *)
ProgressIsKept ==
  [][sitting'.status = "none" /\ sitting.status # "none" =>
       \/ irisLeft'.clearings < irisLeft.clearings
       \/ \E v \in Visits : VisitAt(v, "drop") /\ visit[v].bank # sitting.bank]_irisVars
=============================================================================
