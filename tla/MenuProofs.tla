----------------------------- MODULE MenuProofs -----------------------------
(***************************************************************************)
(* Safety of one slot's menu session for any menus, any page size, any     *)
(* debounce of more than a frame and any movement types.                   *)
(***************************************************************************)
EXTENDS MenuManager, SequenceTheorems, WellFoundedInduction, TLAPS

\* No CloseMenu is under way.
Settled(cs) == \A i \in 1 .. Len(cs) : cs[i] # "close"

\* A place HandleInput can index rows with: a selectable row, or any row of a
\* page that has none.
OnRow(rows, c) ==
  rows # <<>> =>
    /\ c < Len(rows)
    /\ \/ Selectable(rows[c + 1])
       \/ \A i \in 1 .. Len(rows) :
            (i - 1) \div ItemsPerPage = c \div ItemsPerPage => ~Selectable(rows[i])

\* The types that hold whoever switches the freeze, and whenever.
TypeInv ==
  /\ stack \in Seq(Menus) /\ Len(stack) <= MaxDepth
  /\ cursor \in Nat
  /\ since \in 0 .. InputDebounce
  /\ prev \subseteq Keys /\ held \subseteq Keys /\ stale \subseteq Keys
  /\ frozen \in BOOLEAN /\ freeze \in BOOLEAN /\ capturing \in BOOLEAN
  /\ calls \in Seq({"close", "input"})

\* The types of what is read and written of a body, "none" when there is none to read.
BodyInv ==
  /\ {prevMove, original, move} \subseteq MoveTypes \cup {"none"}
  /\ body \in {"gone", "bare", "pawn"} /\ kept \in BOOLEAN

\* The cursor is on a row even inside a row's callback; only between a menu's
\* removal and the return of its OnClose it is a place in the removed menu.
CursorInv == Settled(calls) /\ stack # <<>> => OnRow(Top, cursor)

\* A key held since a menu was opened is among the keys the next frame that
\* listens compares with.
KeyInv ==
  /\ stale \subseteq held
  /\ stack # <<>> => since = 0 \/ stale \subseteq prev

\* Who has the movement of a pawn that has been there since the first menu
\* opened: the menus while frozen, else the player.
MoveInv ==
  /\ frozen => freeze
  /\ frozen /\ kept => body = "pawn" /\ move = "none" /\ prevMove = original
  /\ ~frozen /\ kept => move = original
  /\ stack # <<>> /\ freeze /\ kept => frozen
  /\ stack = <<>> /\ Settled(calls) => ~frozen

Inv == TypeInv /\ BodyInv /\ CursorInv /\ KeyInv /\ (~FreezeAnytime => MoveInv)


-----------------------------------------------------------------------------
(* Minima and pages.                                                       *)

\* A nonempty set of naturals has a least element, and Min is that element.
LEMMA MinIsLeast ==
  ASSUME NEW S \in SUBSET Nat, S # {}
  PROVE  Min(S) \in S /\ \A y \in S : Min(S) <= y
<1> DEFINE R == {ss \in Nat \X Nat : ss[1] < ss[2]}
<1>1. IsWellFoundedOn(R, Nat)
  BY NatLessThanWellFounded DEF OpToRel
<1> HIDE DEF R
<1>2. PICK x \in S : \A y \in S : ~ (<<y, x>> \in R)
  BY <1>1, WFMin
<1>3. ASSUME NEW y \in S
      PROVE  x =< y
  <2>1. x \in Nat /\ y \in Nat /\ <<y, x>> \notin R
    BY <1>2
  <2>2. <<y, x>> \in R <=> y < x
    BY <2>1 DEF R
  <2> QED
    BY <2>1, <2>2
<1> QED
  BY <1>3 DEF Min

\* The smaller of two naturals.
LEMMA MinOfTwo ==
  ASSUME NEW a \in Nat, NEW b \in Nat
  PROVE  Min({a, b}) = IF a < b THEN a ELSE b
<1>1. Min({a, b}) \in {a, b} /\ \A y \in {a, b} : Min({a, b}) <= y
  BY MinIsLeast
<1> QED
  BY <1>1

\* A remainder is in range.
LEMMA RemainderInRange ==
  ASSUME NEW x \in Int, NEW d \in Nat \ {0}
  PROVE  x % d \in 0 .. d - 1
OBVIOUS

\* A walk around a ring of d places from place o reaches every place j.
LEMMA RingIsCovered ==
  ASSUME NEW d \in Nat \ {0}, NEW o \in 0 .. d - 1, NEW j \in 0 .. d - 1
  PROVE  \E k \in 0 .. d - 1 : (o + k) % d = j
<1>1. CASE j >= o
  <2>1. (o + (j - o)) % d = j /\ j - o \in 0 .. d - 1
    BY <1>1
  <2> QED
    BY <2>1
<1>2. CASE j < o
  <2>1. (o + (j - o + d)) % d = j /\ j - o + d \in 0 .. d - 1
    BY <1>2
  <2> QED
    BY <2>1
<1> QED
  BY <1>1, <1>2

\* The first row of every page but those past the end is a row.
LEMMA PageStarts ==
  ASSUME NEW p \in Nat, NEW n \in Nat \ {0}, NEW d \in Nat \ {0}, p < (n + d - 1) \div d
  PROVE  p * d \in 0 .. n - 1
OBVIOUS

\* The rows of a page.
LEMMA RowsOfAPage ==
  ASSUME NEW p \in Nat, NEW d \in Nat \ {0}, NEW x \in Nat
  PROVE  x \div d = p <=> x - p * d \in 0 .. d - 1
OBVIOUS

-----------------------------------------------------------------------------
(* The cursor.                                                             *)

\* StepCursor stays where it is or finds a selectable row.
LEMMA StepKeepsTheRow ==
  ASSUME NEW rows \in Seq(RowKinds), NEW c \in Nat, NEW step \in {-1, 1},
         rows # <<>>, OnRow(rows, c)
  PROVE  StepCursor(rows, c, step) \in Nat /\ OnRow(rows, StepCursor(rows, c, step))
<1> DEFINE At(k) == (c + step * k) % Len(rows)
           hits == {k \in 1 .. Len(rows) : Selectable(rows[At(k) + 1])}
<1>1. Len(rows) \in Nat \ {0}
  BY DEF RowKinds
<1>2. CASE hits = {}
  BY <1>2 DEF StepCursor
<1>3. CASE hits # {}
  <2>1. hits \subseteq Nat
    BY <1>1
  <2>2. Min(hits) \in hits
    BY <1>3, <2>1, MinIsLeast
  <2>3. Min(hits) \in Nat /\ Selectable(rows[At(Min(hits)) + 1])
    BY <2>1, <2>2
  <2>4. c + step * Min(hits) \in Int
    BY <2>3
  <2>5. At(Min(hits)) \in 0 .. Len(rows) - 1
    BY <1>1, <2>4, RemainderInRange
  <2>6. StepCursor(rows, c, step) = At(Min(hits))
    BY <1>3 DEF StepCursor
  <2> HIDE DEF At, hits
  <2> QED
    BY <1>1, <2>3, <2>5, <2>6 DEF OnRow
<1> QED
  BY <1>2, <1>3

\* FirstRow finds a selectable row if the menu has one.
LEMMA FirstRowIsARow ==
  ASSUME NEW rows \in Seq(RowKinds)
  PROVE  FirstRow(rows) \in Nat /\ OnRow(rows, FirstRow(rows))
<1>1. CASE rows = <<>>
  BY <1>1 DEF FirstRow, OnRow
<1>2. CASE rows # <<>> /\ Selectable(rows[1])
  <2>1. FirstRow(rows) = 0 /\ Len(rows) \in Nat \ {0}
    BY <1>2 DEF FirstRow
  <2> QED
    BY <1>2, <2>1 DEF OnRow
<1>3. CASE rows # <<>> /\ ~Selectable(rows[1])
  <2> DEFINE At(k) == (0 + 1 * k) % Len(rows)
             hits == {k \in 1 .. Len(rows) : Selectable(rows[At(k) + 1])}
  <2>1. Len(rows) \in Nat \ {0} /\ FirstRow(rows) = StepCursor(rows, 0, 1)
    BY <1>3 DEF FirstRow
  <2>2. CASE hits = {}
    <3>1. FirstRow(rows) = 0
      BY <2>1, <2>2 DEF StepCursor
    <3>2. ASSUME NEW i \in 1 .. Len(rows)
          PROVE  ~Selectable(rows[i])
      <4>1. CASE i = 1
        BY <1>3, <4>1
      <4>2. CASE i # 1
        <5>1. i - 1 \in 1 .. Len(rows) /\ At(i - 1) = i - 1
          BY <2>1, <4>2
        <5>2. ~Selectable(rows[At(i - 1) + 1])
          BY <2>2, <5>1
        <5>3. At(i - 1) + 1 = i
          BY <5>1
        <5> QED
          BY <5>2, <5>3
      <4> QED
        BY <4>1, <4>2
    <3> QED
      BY <2>1, <3>1, <3>2 DEF OnRow
  <2>3. CASE hits # {}
    <3>1. hits \subseteq Nat
      BY <2>1
    <3>2. Min(hits) \in hits
      BY <2>3, <3>1, MinIsLeast
    <3>3. Min(hits) \in Nat /\ Selectable(rows[At(Min(hits)) + 1])
      BY <3>1, <3>2
    <3>4. At(Min(hits)) \in 0 .. Len(rows) - 1
      <4>1. 0 + 1 * Min(hits) \in Int
        BY <3>3
      <4> QED
        BY <2>1, <4>1, RemainderInRange
    <3>5. FirstRow(rows) = At(Min(hits))
      BY <2>1, <2>3 DEF StepCursor
    <3> HIDE DEF At, hits
    <3> QED
      BY <2>1, <3>3, <3>4, <3>5 DEF OnRow
  <2> QED
    BY <2>2, <2>3
<1> QED
  BY <1>1, <1>2, <1>3

\* JumpPage lands on a row of the page it turns to, and on a selectable one
\* if that page has any; the last page may be short.
LEMMA JumpFindsARow ==
  ASSUME NEW rows \in Seq(RowKinds), NEW c \in Nat, NEW delta \in {-1, 1}, rows # <<>>
  PROVE  JumpPage(rows, c, delta) \in Nat /\ OnRow(rows, JumpPage(rows, c, delta))
<1> DEFINE n == Len(rows)
           d == ItemsPerPage
           pages == (n + d - 1) \div d
           p == (c \div d + delta) % pages
           start == p * d
           size == Min({d, n - start})
           offset == Min({c % d, size - 1})
           At(k) == start + ((offset + k) % size)
           hits == {k \in 0 .. size - 1 : Selectable(rows[At(k) + 1])}
           last == IF hits = {} THEN size - 1 ELSE Min(hits)
<1>1. n \in Nat \ {0} /\ d \in Nat \ {0}
  BY PageAssumption
<1>2. JumpPage(rows, c, delta) = At(last)
  BY DEF JumpPage
<1> HIDE DEF n, d
<1>3. pages \in Nat \ {0} /\ c \div d + delta \in Int /\ c % d \in Nat
  BY <1>1
<1> HIDE DEF pages
<1>4. p \in 0 .. pages - 1
  BY <1>3, RemainderInRange
<1> HIDE DEF p
<1>5. p \in Nat /\ start \in 0 .. n - 1
  BY <1>1, <1>3, <1>4, PageStarts DEF pages
<1> HIDE DEF start
<1>6. size \in 1 .. d /\ size <= n - start /\ (size = d \/ size = n - start)
  <2>1. n - start \in Nat \ {0}
    BY <1>1, <1>5
  <2>2. size = IF d < n - start THEN d ELSE n - start
    BY <1>1, <2>1, MinOfTwo
  <2> QED
    BY <1>1, <2>1, <2>2
<1> HIDE DEF size
<1>7. offset \in 0 .. size - 1
  <2>1. c % d \in Nat /\ size - 1 \in Nat
    BY <1>1, <1>3, <1>6
  <2>2. offset = IF c % d < size - 1 THEN c % d ELSE size - 1
    BY <2>1, MinOfTwo
  <2> QED
    BY <2>1, <2>2
<1> HIDE DEF offset
<1>8. ASSUME NEW k \in Nat
      PROVE  At(k) \in Nat /\ At(k) < n /\ At(k) - p * d \in 0 .. d - 1
  <2>1. size \in Nat \ {0} /\ offset + k \in Int
    BY <1>1, <1>6, <1>7
  <2>2. (offset + k) % size \in 0 .. size - 1
    BY <2>1, RemainderInRange
  <2>3. start = p * d
    BY DEF start
  <2> QED
    BY <1>1, <1>5, <1>6, <2>2, <2>3
<1>9. last \in Nat /\ (hits # {} => last \in hits)
  <2>1. hits \subseteq Nat
    BY <1>1, <1>6
  <2>2. CASE hits = {}
    BY <1>1, <1>6, <2>2
  <2>3. CASE hits # {}
    BY <2>1, <2>3, MinIsLeast
  <2> QED
    BY <2>2, <2>3
<1>10. CASE hits # {}
  <2>1. Selectable(rows[At(last) + 1])
    BY <1>9, <1>10
  <2> HIDE DEF At, last, hits
  <2> QED
    BY <1>2, <1>8, <1>9, <2>1 DEF OnRow, n
<1>11. CASE hits = {}
  <2>1. ASSUME NEW i \in 1 .. n, (i - 1) \div d = At(last) \div d
        PROVE  ~Selectable(rows[i])
    <3>1. At(last) \in Nat /\ At(last) - p * d \in 0 .. d - 1
      BY <1>8, <1>9
    <3>2. i - 1 \in Nat /\ At(last) \div d = p
      <4> HIDE DEF At, last, hits
      <4>1. At(last) \div d = p
        BY <1>1, <1>5, <3>1, RowsOfAPage
      <4> QED
        BY <1>1, <4>1
    <3>3. i - 1 - start \in 0 .. d - 1
      BY <1>1, <1>5, <2>1, <3>2, RowsOfAPage DEF start
    <3>4. i - 1 - start \in 0 .. size - 1
      BY <1>1, <1>5, <1>6, <3>3
    <3>5. PICK k \in 0 .. size - 1 : (offset + k) % size = i - 1 - start
      <4>1. size \in Nat \ {0}
        BY <1>1, <1>6
      <4> QED
        BY <1>7, <3>4, <4>1, RingIsCovered
    <3>6. At(k) + 1 = i
      BY <1>1, <1>5, <3>5
    <3> QED
      BY <1>11, <3>5, <3>6
  <2> HIDE DEF At, last, hits
  <2> QED
    BY <1>2, <1>8, <1>9, <2>1 DEF OnRow, n, d
<1> QED
  BY <1>10, <1>11


-----------------------------------------------------------------------------
(* The invariant: types and cursor.                                        *)

\* Without its last menu a stack is still a stack of menus.
LEMMA RestOfStack ==
  ASSUME NEW s \in Seq(Menus), s # <<>>
  PROVE  /\ SubSeq(s, 1, Len(s) - 1) \in Seq(Menus)
         /\ Len(SubSeq(s, 1, Len(s) - 1)) = Len(s) - 1
<1> DEFINE n == Len(s) - 1
<1>1. n \in Int /\ n >= 0 /\ 1 \in Int /\ \A i \in 1 .. n : s[i] \in Menus
  OBVIOUS
<1> HIDE DEF n
<1>2. SubSeq(s, 1, n) \in Seq(Menus) /\ Len(SubSeq(s, 1, n)) = IF 1 <= n THEN n - 1 + 1 ELSE 0
  BY ONLY <1>1, SubSeqProperties
<1>3. SubSeq(s, 1, n) \in Seq(Menus) /\ Len(SubSeq(s, 1, n)) = n
  BY <1>1, <1>2
<1> QED
  BY <1>3 DEF n

\* A stack without menus is within the bound.
LEMMA EmptyStack == <<>> \in Seq(Menus) /\ Len(<<>>) <= MaxDepth
  BY DepthAssumption

\* Zero is a number of frames since the last input, and so is the debounce.
LEMMA Frames == 0 \in 0 .. InputDebounce /\ InputDebounce \in 0 .. InputDebounce
  BY DebounceAssumption

\* What the next call to return leaves: a settled rest under a call that is no
\* CloseMenu is a settled whole.
LEMMA SettledRest ==
  ASSUME NEW cs \in Seq({"close", "input"}), cs # <<>>, Head(cs) = "input", Settled(Tail(cs))
  PROVE  Settled(cs)
<1>1. ASSUME NEW i \in 1 .. Len(cs)
      PROVE  cs[i] # "close"
  <2>1. CASE i = 1
    BY <2>1
  <2>2. CASE i # 1
    <3>1. i - 1 \in 1 .. Len(Tail(cs)) /\ Tail(cs)[i - 1] = cs[i]
      BY <2>2
    <3> QED
      BY <3>1 DEF Settled
  <2> QED
    BY <2>1, <2>2
<1> QED
  BY <1>1 DEF Settled

\* A step keeps the types.
LEMMA TypeStep ==
  ASSUME TypeInv, CursorInv, Next
  PROVE  TypeInv'
<1>0. Elapsed \in 0 .. InputDebounce
  <2>1. since + 1 \in Nat /\ InputDebounce \in Nat
    BY DebounceAssumption DEF TypeInv
  <2>2. Elapsed = IF since + 1 < InputDebounce THEN since + 1 ELSE InputDebounce
    BY <2>1, MinOfTwo DEF Elapsed
  <2> QED
    BY <2>1, <2>2
<1>1. ASSUME NEW menu \in Menus, OpenMenu(menu)
      PROVE  TypeInv'
  <2>1. FirstRow(menu) \in Nat
    BY FirstRowIsARow, MenusAssumption
  <2>2. stack' \in Seq(Menus) /\ Len(stack') <= MaxDepth
    BY <1>1, DepthAssumption DEF OpenMenu, TypeInv
  <2>3. frozen' \in BOOLEAN
    BY <1>1 DEF OpenMenu, Freeze, TypeInv
  <2> QED
    BY <1>1, <2>1, <2>2, <2>3, DebounceAssumption DEF OpenMenu, TypeInv
<1>2. CASE CloseMenu
  <2>1. stack # <<>> /\ stack' = SubSeq(stack, 1, Len(stack) - 1)
    BY <1>2 DEF CloseMenu
  <2>2. stack' \in Seq(Menus) /\ Len(stack') <= MaxDepth
    BY <2>1, RestOfStack, DepthAssumption DEF TypeInv
  <2>3. calls' \in Seq({"close", "input"})
    BY <1>2 DEF CloseMenu, TypeInv
  <2> QED
    BY <1>2, <2>2, <2>3 DEF CloseMenu, TypeInv
<1>3. CASE CloseAllMenus
  <2>1. stack' = <<>> /\ since' = InputDebounce /\ frozen' = FALSE
    BY <1>3 DEF CloseAllMenus, Dismiss
  <2>2. stack' \in Seq(Menus) /\ Len(stack') <= MaxDepth /\ since' \in 0 .. InputDebounce
    BY <2>1, EmptyStack, Frames
  <2> QED
    BY <1>3, <2>1, <2>2 DEF CloseAllMenus, Dismiss, TypeInv
<1>4. ASSUME NEW b \in BOOLEAN, SetFreezePlayer(b)
      PROVE  TypeInv'
  BY <1>4 DEF SetFreezePlayer, stateVars, TypeInv
<1>5. ASSUME NEW b \in BOOLEAN, SetCapturing(b)
      PROVE  TypeInv'
  BY <1>5 DEF SetCapturing, stateVars, TypeInv
<1>6. CASE CloseReturns
  <2>1. calls' \in Seq({"close", "input"})
    BY <1>6 DEF CloseReturns, Idle, TypeInv
  <2>2. CASE stack = <<>>
    <3>1. /\ stack' = <<>> /\ since' = InputDebounce /\ frozen' = FALSE
          /\ cursor' = 0 /\ prev' = {}
          /\ UNCHANGED <<freeze, capturing, held, stale>>
      BY <1>6, <2>2 DEF CloseReturns, Dismiss
    <3>2. stack' \in Seq(Menus) /\ Len(stack') <= MaxDepth /\ since' \in 0 .. InputDebounce
      BY <3>1, EmptyStack, Frames
    <3> QED
      BY <2>1, <3>1, <3>2 DEF TypeInv
  <2>3. CASE stack # <<>>
    <3>1. Top \in Menus
      BY <2>3 DEF Top, TypeInv
    <3>2. FirstRow(Top) \in Nat
      BY <3>1, FirstRowIsARow, MenusAssumption
    <3> QED
      BY <1>6, <2>1, <2>3, <3>2 DEF CloseReturns, TypeInv
  <2> QED
    BY <2>2, <2>3
<1>7. CASE InputReturns
  <2>1. calls' \in Seq({"close", "input"})
    BY <1>7 DEF InputReturns, Idle, TypeInv
  <2> QED
    BY <1>7, <2>1, DebounceAssumption DEF InputReturns, TypeInv
<1>8. CASE CancelByKey
  <2>1. since' \in 0 .. InputDebounce
    BY <1>8, Frames DEF CancelByKey
  <2> QED
    BY <1>8, <2>1 DEF CancelByKey, TypeInv
<1>9. CASE MoveCursor
  <2>1. PICK key \in {"W", "S"} :
          Acts(key) /\ cursor' = StepCursor(Top, cursor, IF key = "W" THEN -1 ELSE 1)
    BY <1>9 DEF MoveCursor
  <2>2. Settled(calls) /\ stack # <<>> /\ Top # <<>>
    BY <2>1 DEF Acts, Listens, Idle, Settled
  <2>3. Top \in Seq(RowKinds)
    BY <2>2, MenusAssumption DEF Top, TypeInv
  <2>4. cursor' \in Nat
    BY <2>1, <2>2, <2>3, StepKeepsTheRow DEF CursorInv, TypeInv
  <2> QED
    BY <1>9, <2>4, DebounceAssumption DEF MoveCursor, TypeInv
<1>10. CASE TurnPage
  <2>1. PICK key \in {"A", "D"} : Acts(key) /\ cursor' = JumpPage(Top, cursor, Sideways(key))
    BY <1>10 DEF TurnPage
  <2>2. stack # <<>> /\ Top # <<>> /\ Sideways(key) \in {-1, 1}
    BY <2>1 DEF Acts, Listens, Sideways
  <2>3. Top \in Seq(RowKinds)
    BY <2>2, MenusAssumption DEF Top, TypeInv
  <2>4. cursor' \in Nat
    BY <2>1, <2>2, <2>3, JumpFindsARow DEF TypeInv
  <2> QED
    BY <1>10, <2>4, DebounceAssumption DEF TurnPage, TypeInv
<1>11. CASE CallRow
  <2>1. calls' \in Seq({"close", "input"})
    BY <1>11 DEF CallRow
  <2> QED
    BY <1>11, <1>0, <2>1 DEF CallRow, TypeInv
<1>12. CASE UseNothing
  BY <1>12, DebounceAssumption DEF UseNothing, TypeInv
<1>13. CASE Back
  <2>1. stack # <<>> /\ stack' = SubSeq(stack, 1, Len(stack) - 1)
    BY <1>13 DEF Back, Acts, Listens, Elapsed
  <2>2. stack' \in Seq(Menus) /\ Len(stack') <= MaxDepth
    BY <2>1, RestOfStack, DepthAssumption DEF TypeInv
  <2>3. calls' \in Seq({"close", "input"})
    BY <1>13 DEF Back, Acts, Listens, Elapsed, TypeInv
  <2> QED
    BY <1>13, <2>2, <2>3, <1>0 DEF Back, TypeInv
<1>14. CASE QuietFrame
  BY <1>14, <1>0 DEF QuietFrame, TypeInv
<1>15. ASSUME NEW keys \in KeySets, Hold(keys)
      PROVE  TypeInv'
  <2>1. held' \subseteq Keys /\ stale' \subseteq Keys
    BY <1>15, KeySetsAssumption DEF Hold, TypeInv
  <2> QED
    BY <1>15, <2>1 DEF Hold, stateVars, TypeInv
<1>16. ASSUME NEW type \in MoveTypes, SetMove(type)
      PROVE  TypeInv'
  BY <1>16 DEF SetMove, stateVars, TypeInv
<1>17. ASSUME NEW new \in {"bare", "pawn"}, Embody(new)
      PROVE  TypeInv'
  BY <1>17 DEF Embody, stateVars, TypeInv
<1>18. CASE OnPlayerDisconnect
  <2>1. stack' = <<>> /\ since' = InputDebounce
    BY <1>18 DEF OnPlayerDisconnect
  <2>2. stack' \in Seq(Menus) /\ Len(stack') <= MaxDepth /\ since' \in 0 .. InputDebounce
    BY <2>1, EmptyStack, Frames
  <2> QED
    BY <1>18, <2>2 DEF OnPlayerDisconnect, TypeInv
<1> QED
  BY <1>1, <1>2, <1>3, <1>4, <1>5, <1>6, <1>7, <1>8, <1>9,
     <1>10, <1>11, <1>12, <1>13, <1>14, <1>15, <1>16, <1>17, <1>18 DEF Next, PluginStep, FrameStep


\* A step leaves the cursor on a row of the menu it leaves on top.
LEMMA CursorStep ==
  ASSUME TypeInv, CursorInv, Next
  PROVE  CursorInv'
<1>0. UNCHANGED <<stack, cursor, calls>> => CursorInv'
  BY DEF CursorInv, OnRow, Top, Settled
<1>1. ASSUME NEW menu \in Menus, OpenMenu(menu)
      PROVE  CursorInv'
  <2>1. Top' = menu /\ cursor' = FirstRow(menu)
    BY <1>1 DEF OpenMenu, Top, TypeInv
  <2>2. OnRow(menu, FirstRow(menu))
    BY FirstRowIsARow, MenusAssumption
  <2> QED
    BY <2>1, <2>2 DEF CursorInv, OnRow
<1>2. CASE CloseMenu
  <2>1. Len(calls') \in Nat \ {0} /\ calls'[1] = "close"
    BY <1>2 DEF CloseMenu, TypeInv
  <2> QED
    BY <2>1 DEF CursorInv, Settled
<1>3. CASE CloseAllMenus
  BY <1>3 DEF CloseAllMenus, Dismiss, CursorInv
<1>4. ASSUME NEW b \in BOOLEAN, SetFreezePlayer(b)
      PROVE  CursorInv'
  BY <1>4, <1>0 DEF SetFreezePlayer, stateVars
<1>5. ASSUME NEW b \in BOOLEAN, SetCapturing(b)
      PROVE  CursorInv'
  BY <1>5, <1>0 DEF SetCapturing, stateVars
<1>6. CASE CloseReturns
  <2>1. CASE stack = <<>>
    BY <1>6, <2>1 DEF CloseReturns, Dismiss, CursorInv
  <2>2. CASE stack # <<>>
    <3>1. Top' = Top /\ Top \in Seq(RowKinds) /\ cursor' = FirstRow(Top)
      BY <1>6, <2>2, MenusAssumption DEF CloseReturns, Top, TypeInv
    <3>2. OnRow(Top, FirstRow(Top))
      BY <3>1, FirstRowIsARow
    <3> QED
      BY <3>1, <3>2 DEF CursorInv, OnRow
  <2> QED
    BY <2>1, <2>2
<1>7. CASE InputReturns
  <2>1. calls # <<>> /\ Head(calls) = "input" /\ calls' = Tail(calls)
    BY <1>7 DEF InputReturns, Idle
  <2>2. Settled(calls') => Settled(calls)
    BY <2>1, SettledRest DEF TypeInv, Settled
  <2>3. Top' = Top /\ cursor' = cursor /\ stack' = stack
    BY <1>7 DEF InputReturns, Top
  <2> QED
    BY <2>2, <2>3 DEF CursorInv, OnRow, Settled
<1>8. CASE CancelByKey
  BY <1>8, <1>0 DEF CancelByKey
<1>9. CASE MoveCursor
  <2>1. PICK key \in {"W", "S"} :
          Acts(key) /\ cursor' = StepCursor(Top, cursor, IF key = "W" THEN -1 ELSE 1)
    BY <1>9 DEF MoveCursor
  <2>2. stack # <<>> /\ Top # <<>> /\ Settled(calls) /\ Sideways(key) \in {-1, 1}
    BY <2>1 DEF Acts, Listens, Idle, Settled, Sideways
  <2>3. Top \in Seq(RowKinds) /\ Top' = Top
    BY <1>9, <2>2, MenusAssumption DEF MoveCursor, Top, TypeInv
  <2>4. OnRow(Top, cursor')
    BY <2>1, <2>2, <2>3, StepKeepsTheRow DEF CursorInv, TypeInv
  <2> QED
    BY <2>3, <2>4 DEF CursorInv, OnRow
<1>10. CASE TurnPage
  <2>1. PICK key \in {"A", "D"} : Acts(key) /\ cursor' = JumpPage(Top, cursor, Sideways(key))
    BY <1>10 DEF TurnPage
  <2>2. stack # <<>> /\ Top # <<>> /\ Settled(calls) /\ Sideways(key) \in {-1, 1}
    BY <2>1 DEF Acts, Listens, Idle, Settled, Sideways
  <2>3. Top \in Seq(RowKinds) /\ Top' = Top
    BY <1>10, <2>2, MenusAssumption DEF TurnPage, Top, TypeInv
  <2>4. OnRow(Top, cursor')
    BY <2>1, <2>2, <2>3, JumpFindsARow DEF CursorInv, TypeInv
  <2> QED
    BY <2>3, <2>4 DEF CursorInv, OnRow
<1>11. CASE CallRow
  <2>1. calls = <<>>
    BY <1>11 DEF CallRow, Acts, Listens, Idle
  <2>2. Settled(calls) /\ UNCHANGED <<stack, cursor>>
    BY <1>11, <2>1 DEF CallRow, Settled
  <2> QED
    BY <2>2 DEF CursorInv, OnRow, Top
<1>12. CASE UseNothing
  BY <1>12, <1>0 DEF UseNothing
<1>13. CASE Back
  <2>1. Len(calls') = 2 /\ calls'[1] = "close"
    BY <1>13 DEF Back
  <2> QED
    BY <2>1 DEF CursorInv, Settled
<1>14. CASE QuietFrame
  BY <1>14, <1>0 DEF QuietFrame
<1>15. ASSUME NEW keys \in KeySets, Hold(keys)
      PROVE  CursorInv'
  BY <1>15, <1>0 DEF Hold, stateVars
<1>16. ASSUME NEW type \in MoveTypes, SetMove(type)
      PROVE  CursorInv'
  BY <1>16, <1>0 DEF SetMove, stateVars
<1>17. ASSUME NEW new \in {"bare", "pawn"}, Embody(new)
      PROVE  CursorInv'
  BY <1>17, <1>0 DEF Embody, stateVars
<1>18. CASE OnPlayerDisconnect
  BY <1>18 DEF OnPlayerDisconnect, CursorInv
<1> QED
  BY <1>1, <1>2, <1>3, <1>4, <1>5, <1>6, <1>7, <1>8, <1>9,
     <1>10, <1>11, <1>12, <1>13, <1>14, <1>15, <1>16, <1>17, <1>18 DEF Next, PluginStep, FrameStep

-----------------------------------------------------------------------------
(* The invariant: keys.                                                    *)

\* A key of Chosen is pressed.
LEMMA ChosenIsPressed ==
  ASSUME NEW key, Listens, Chosen(key), held \subseteq Keys
  PROVE  key \in Pressed
<1> DEFINE order == <<"W", "S", "A", "D", "E", "R">>
           places == {i \in 1 .. 6 : order[i] \in Pressed}
<1>1. \A k \in Keys : \E i \in 1 .. 6 : order[i] = k
  BY DEF Keys
<1>2. Pressed # {} /\ Pressed \subseteq Keys
  BY DEF Listens, Pressed
<1>3. places # {} /\ places \subseteq Nat
  BY <1>1, <1>2
<1>4. Min(places) \in places
  BY <1>3, MinIsLeast
<1>5. key = order[Min(places)]
  BY DEF Chosen
<1> QED
  BY <1>4, <1>5

\* When a frame listens, no key it takes for pressed was down when the menu
\* was opened: the debounce of two frames has let one frame read it as held.
LEMMA PressedIsFresh ==
  ASSUME TypeInv, KeyInv, Listens
  PROVE  Pressed \cap stale = {}
<1>1. since + 1 \in Nat /\ InputDebounce \in Nat /\ InputDebounce >= 2
  BY DebounceAssumption DEF TypeInv
<1>2. Elapsed = IF since + 1 < InputDebounce THEN since + 1 ELSE InputDebounce
  BY <1>1, MinOfTwo DEF Elapsed
<1>3. since # 0 /\ stack # <<>>
  BY <1>1, <1>2 DEF Listens
<1> QED
  BY <1>3 DEF KeyInv, Pressed

\* A step reads the held keys before it listens to them.
LEMMA KeyStep ==
  ASSUME TypeInv, KeyInv, Next
  PROVE  KeyInv'
<1>1. ASSUME NEW menu \in Menus, OpenMenu(menu)
      PROVE  KeyInv'
  BY <1>1 DEF OpenMenu, KeyInv
<1>2. CASE CloseMenu
  BY <1>2 DEF CloseMenu, KeyInv
<1>3. CASE CloseAllMenus
  BY <1>3 DEF CloseAllMenus, Dismiss, KeyInv
<1>4. ASSUME NEW b \in BOOLEAN, SetFreezePlayer(b)
      PROVE  KeyInv'
  BY <1>4 DEF SetFreezePlayer, stateVars, KeyInv
<1>5. ASSUME NEW b \in BOOLEAN, SetCapturing(b)
      PROVE  KeyInv'
  BY <1>5 DEF SetCapturing, stateVars, KeyInv
<1>6. CASE CloseReturns
  <2>1. CASE stack = <<>>
    BY <1>6, <2>1 DEF CloseReturns, Dismiss, KeyInv
  <2>2. CASE stack # <<>>
    BY <1>6, <2>2 DEF CloseReturns, KeyInv
  <2> QED
    BY <2>1, <2>2
<1>7. CASE InputReturns
  BY <1>7 DEF InputReturns, KeyInv
<1>8. CASE CancelByKey
  BY <1>8 DEF CancelByKey, KeyInv
<1>9. CASE MoveCursor
  BY <1>9 DEF MoveCursor, KeyInv
<1>10. CASE TurnPage
  BY <1>10 DEF TurnPage, KeyInv
<1>11. CASE CallRow
  BY <1>11 DEF CallRow, KeyInv
<1>12. CASE UseNothing
  BY <1>12 DEF UseNothing, KeyInv
<1>13. CASE Back
  BY <1>13 DEF Back, KeyInv
<1>14. CASE QuietFrame
  BY <1>14 DEF QuietFrame, KeyInv
<1>15. ASSUME NEW keys \in KeySets, Hold(keys)
      PROVE  KeyInv'
  BY <1>15 DEF Hold, stateVars, KeyInv
<1>16. ASSUME NEW type \in MoveTypes, SetMove(type)
      PROVE  KeyInv'
  BY <1>16 DEF SetMove, stateVars, KeyInv
<1>17. ASSUME NEW new \in {"bare", "pawn"}, Embody(new)
      PROVE  KeyInv'
  BY <1>17 DEF Embody, stateVars, KeyInv
<1>18. CASE OnPlayerDisconnect
  BY <1>18 DEF OnPlayerDisconnect, KeyInv
<1> QED
  BY <1>1, <1>2, <1>3, <1>4, <1>5, <1>6, <1>7, <1>8, <1>9,
     <1>10, <1>11, <1>12, <1>13, <1>14, <1>15, <1>16, <1>17, <1>18 DEF Next, PluginStep, FrameStep

-----------------------------------------------------------------------------
(* The invariant: movement.                                                *)

\* A step keeps the types of what is read and written of a body.
LEMMA BodyStep ==
  ASSUME BodyInv, Next
  PROVE  BodyInv'
<1>0. UNCHANGED <<prevMove, bodyVars>> => BodyInv'
  BY DEF BodyInv, bodyVars
<1>1. ASSUME Dismiss, UNCHANGED <<body, original, kept>>
      PROVE  BodyInv'
  BY <1>1, MoveTypesAssumption DEF Dismiss, BodyInv
<1>2. ASSUME NEW menu \in Menus, OpenMenu(menu)
      PROVE  BodyInv'
  BY <1>2 DEF OpenMenu, Freeze, BodyInv
<1>3. CASE CloseReturns
  <2>1. CASE stack = <<>>
    BY <1>1, <1>3, <2>1 DEF CloseReturns
  <2>2. CASE stack # <<>>
    BY <1>3, <2>2 DEF CloseReturns, BodyInv
  <2> QED
    BY <2>1, <2>2
<1>4. CASE CloseAllMenus
  BY <1>1, <1>4 DEF CloseAllMenus
<1>5. ASSUME NEW b \in BOOLEAN, SetFreezePlayer(b) \/ SetCapturing(b)
      PROVE  BodyInv'
  BY <1>0, <1>5 DEF SetFreezePlayer, SetCapturing, stateVars
<1>6. CASE CloseMenu \/ InputReturns
  BY <1>0, <1>6 DEF CloseMenu, InputReturns
<1>7. CASE FrameStep
  <2>1. UNCHANGED <<prevMove, bodyVars>>
    BY <1>7 DEF FrameStep, CancelByKey, MoveCursor, TurnPage, CallRow, UseNothing, Back, QuietFrame
  <2> QED
    BY <1>0, <2>1
<1>8. ASSUME NEW keys \in KeySets, Hold(keys)
      PROVE  BodyInv'
  BY <1>0, <1>8 DEF Hold, stateVars
<1>9. ASSUME NEW new \in {"bare", "pawn"}, Embody(new)
      PROVE  BodyInv'
  BY <1>9, MoveTypesAssumption DEF Embody, stateVars, BodyInv
<1>10. ASSUME NEW type \in MoveTypes, SetMove(type)
       PROVE  BodyInv'
  BY <1>10 DEF SetMove, stateVars, BodyInv
<1>11. CASE OnPlayerDisconnect
  BY <1>11, MoveTypesAssumption DEF OnPlayerDisconnect, BodyInv
<1> QED
  BY <1>2, <1>3, <1>4, <1>5, <1>6, <1>7, <1>8, <1>9, <1>10, <1>11 DEF Next, PluginStep

\* Dismiss returns the movement the menus took, and nothing if they took none.
LEMMA DismissGivesBack ==
  ASSUME MoveInv, Dismiss, UNCHANGED <<freeze, original, kept, body>>
  PROVE  MoveInv'
<1>1. stack' = <<>> /\ frozen' = FALSE /\ prevMove' = "walk"
  BY DEF Dismiss
<1>2. kept => move' = original
  BY DEF Dismiss, MoveInv
<1> QED
  BY <1>1, <1>2 DEF MoveInv

\* A step takes the movement of a player who has it and gives back what it
\* took.
LEMMA MoveStep ==
  ASSUME TypeInv, BodyInv, MoveInv, ~FreezeAnytime, Next
  PROVE  MoveInv'
<1>0. UNCHANGED <<stack, frozen, prevMove, freeze, bodyVars, calls>> => MoveInv'
  BY DEF MoveInv, Settled, bodyVars
<1>1. ASSUME NEW menu \in Menus, OpenMenu(menu)
      PROVE  MoveInv'
  <2>1. calls' = calls /\ stack' # <<>> /\ freeze' = freeze /\ body' = body
    BY <1>1 DEF OpenMenu, TypeInv
  <2>2. CASE stack = <<>> /\ ~frozen
    <3>1. original' = move /\ kept' = (body = "pawn") /\ Freeze
      BY <1>1, <2>2 DEF OpenMenu
    <3> QED
      BY <2>1, <2>2, <3>1 DEF Freeze, MoveInv, TypeInv, BodyInv
  <2>3. CASE ~(stack = <<>> /\ ~frozen)
    <3>1. UNCHANGED <<frozen, prevMove, move, original, kept>>
      BY <1>1, <2>3 DEF OpenMenu, Freeze
    <3> QED
      BY <2>1, <2>3, <3>1 DEF MoveInv
  <2> QED
    BY <2>2, <2>3
<1>2. CASE CloseMenu
  BY <1>2 DEF CloseMenu, bodyVars, MoveInv, Settled, TypeInv
<1>3. CASE CloseAllMenus
  <2>1. Dismiss /\ UNCHANGED <<freeze, original, kept, body>>
    BY <1>3 DEF CloseAllMenus
  <2> QED
    BY <2>1, DismissGivesBack
<1>4. ASSUME NEW b \in BOOLEAN, SetFreezePlayer(b)
      PROVE  MoveInv'
  BY <1>4 DEF SetFreezePlayer, stateVars, bodyVars, MoveInv, Settled, TypeInv
<1>5. ASSUME NEW b \in BOOLEAN, SetCapturing(b)
      PROVE  MoveInv'
  BY <1>5, <1>0 DEF SetCapturing, stateVars
<1>6. CASE CloseReturns
  <2>1. CASE stack = <<>>
    <3>1. Dismiss /\ UNCHANGED <<freeze, original, kept, body>>
      BY <1>6, <2>1 DEF CloseReturns
    <3> QED
      BY <3>1, DismissGivesBack
  <2>2. CASE stack # <<>>
    <3>1. UNCHANGED <<stack, frozen, prevMove, freeze, bodyVars>>
      BY <1>6, <2>2 DEF CloseReturns, bodyVars
    <3> QED
      BY <2>2, <3>1 DEF MoveInv, bodyVars
  <2> QED
    BY <2>1, <2>2
<1>7. CASE InputReturns
  <2>1. calls # <<>> /\ Head(calls) = "input" /\ calls' = Tail(calls)
    BY <1>7 DEF InputReturns, Idle
  <2>2. Settled(calls') => Settled(calls)
    BY <2>1, SettledRest DEF TypeInv, Settled
  <2>3. UNCHANGED <<stack, frozen, prevMove, freeze, bodyVars>>
    BY <1>7 DEF InputReturns
  <2> QED
    BY <2>2, <2>3 DEF MoveInv, bodyVars
<1>8. CASE CancelByKey
  BY <1>8, <1>0 DEF CancelByKey
<1>9. CASE MoveCursor
  BY <1>9, <1>0 DEF MoveCursor
<1>10. CASE TurnPage
  BY <1>10, <1>0 DEF TurnPage
<1>11. CASE CallRow
  <2>1. stack # <<>> /\ UNCHANGED <<stack, frozen, prevMove, freeze, bodyVars>>
    BY <1>11 DEF CallRow, Acts, Listens
  <2> QED
    BY <2>1 DEF MoveInv, bodyVars
<1>12. CASE UseNothing
  BY <1>12, <1>0 DEF UseNothing
<1>13. CASE Back
  <2>1. stack # <<>> /\ UNCHANGED <<frozen, prevMove, freeze, bodyVars>>
    BY <1>13 DEF Back, Acts, Listens
  <2>2. ~Settled(calls')
    <3>1. Len(calls') = 2 /\ calls'[1] = "close"
      BY <1>13 DEF Back
    <3> QED
      BY <3>1 DEF Settled
  <2> QED
    BY <2>1, <2>2 DEF MoveInv, Settled, bodyVars
<1>14. CASE QuietFrame
  BY <1>14, <1>0 DEF QuietFrame
<1>15. ASSUME NEW keys \in KeySets, Hold(keys)
      PROVE  MoveInv'
  BY <1>15, <1>0 DEF Hold, stateVars
<1>16. ASSUME NEW type \in MoveTypes, SetMove(type)
      PROVE  MoveInv'
  <2>1. ~frozen /\ stack = <<>>
    BY <1>16 DEF SetMove, Idle, MoveInv, Settled
  <2>2. stack' = stack /\ frozen' = frozen /\ prevMove' = prevMove /\ move' = original'
    BY <1>16 DEF SetMove, stateVars
  <2>3. UNCHANGED <<freeze, calls>>
    BY <1>16 DEF SetMove
  <2> QED
    BY <2>1, <2>2, <2>3 DEF MoveInv
<1>17. ASSUME NEW new \in {"bare", "pawn"}, Embody(new)
      PROVE  MoveInv'
  <2>1. stack = <<>> => ~frozen
    BY <1>17 DEF Embody, Idle, MoveInv, Settled
  <2>2. /\ UNCHANGED <<stack, frozen, prevMove, freeze, calls>>
        /\ move' = original' /\ kept' = (stack = <<>>)
    BY <1>17 DEF Embody, stateVars
  <2> QED
    BY <2>1, <2>2 DEF MoveInv, Settled
<1>18. CASE OnPlayerDisconnect
  BY <1>18 DEF OnPlayerDisconnect, MoveInv, Settled, TypeInv
<1> QED
  BY <1>1, <1>2, <1>3, <1>4, <1>5, <1>6, <1>7, <1>8, <1>9,
     <1>10, <1>11, <1>12, <1>13, <1>14, <1>15, <1>16, <1>17, <1>18 DEF Next, PluginStep, FrameStep

-----------------------------------------------------------------------------
(* The theorems.                                                           *)

\* The invariant holds initially.
LEMMA InitInv == Init => Inv
<1> SUFFICES ASSUME Init
             PROVE  Inv
  OBVIOUS
<1>1. TypeInv
  <2>1. stack \in Seq(Menus) /\ Len(stack) <= MaxDepth /\ since \in 0 .. InputDebounce
    BY EmptyStack, Frames DEF Init
  <2>3. cursor \in Nat /\ calls \in Seq({"close", "input"})
    BY DEF Init
  <2>4. frozen \in BOOLEAN /\ freeze \in BOOLEAN /\ capturing \in BOOLEAN
    BY DEF Init
  <2>5. prev \subseteq Keys /\ held \subseteq Keys /\ stale \subseteq Keys
    BY DEF Init
  <2> QED
    BY <2>1, <2>3, <2>4, <2>5 DEF TypeInv
<1>2. CursorInv /\ KeyInv
  BY DEF Init, CursorInv, KeyInv
<1>3. BodyInv /\ MoveInv
  BY MoveTypesAssumption DEF Init, BodyInv, MoveInv
<1> QED
  BY <1>1, <1>2, <1>3 DEF Inv

\* A step keeps the invariant.
LEMMA NextInv == Inv /\ [Next]_vars => Inv'
<1> SUFFICES ASSUME Inv, [Next]_vars
             PROVE  Inv'
  OBVIOUS
<1>1. CASE Next
  BY <1>1, TypeStep, BodyStep, CursorStep, KeyStep, MoveStep DEF Inv
<1>2. CASE UNCHANGED vars
  BY <1>2 DEF Inv, TypeInv, BodyInv, CursorInv, KeyInv, MoveInv, OnRow, Settled, Top,
              vars, stateVars, bodyVars
<1> QED
  BY <1>1, <1>2

\* The invariant holds in every state; its part about the movement only if the
\* freeze is switched between sessions.
THEOREM InvHolds == Spec => []Inv
  BY InitInv, NextInv, PTL DEF Spec

\* SessionInv: HandleInput indexes the rows of the open menu inside their
\* bounds, on a selectable row unless the whole page has none, whoever
\* switches the freeze and whenever.
THEOREM SessionInvHolds == Spec => []SessionInv
<1>1. Inv => SessionInv
  <2> SUFFICES ASSUME Inv
               PROVE  SessionInv
    OBVIOUS
  <2>1. TypeOK
    BY DEF Inv, TypeInv, BodyInv, TypeOK
  <2>2. CursorOnRow
    BY DEF Inv, CursorInv, Settled, Idle, OnRow, Row, CursorOnRow
  <2> QED
    BY <2>1, <2>2 DEF SessionInv
<1> QED
  BY <1>1, InvHolds, PTL

\* MovementIsLent: SetPlayerFrozen takes the MoveType with the first menu and
\* gives the player's own back with the last, whatever OnClose and row
\* callbacks open and close in between, as long as the pawn is the one the
\* first menu was opened on and the freeze is switched between sessions.
THEOREM MovementIsLentHolds ==
  ASSUME ~FreezeAnytime
  PROVE  Spec => []MovementIsLent
<1>1. Inv => MovementIsLent
  BY DEF Inv, MoveInv, Settled, Idle, MovementIsLent, FrozenWhileOpen, MoveRestored
<1> QED
  BY <1>1, InvHolds, PTL

\* KeysAreMeant: HandleInput acts on no key that was down when a menu was
\* opened before it is released, and on none but R during a chat capture.
THEOREM KeysAreMeantHolds == Spec => KeysAreMeant
<1> DEFINE Meant ==
      /\ \A key \in Keys : Acts(key) => key \notin stale
      /\ capturing /\ Idle /\ FrameStep => UNCHANGED <<stack, cursor, calls, move>>
<1>1. Inv => [Meant]_vars
  <2> SUFFICES ASSUME Inv
               PROVE  Meant
    OBVIOUS
  <2>1. ASSUME NEW key \in Keys, Acts(key)
        PROVE  key \notin stale
    <3>1. key \in Pressed
      BY <2>1, ChosenIsPressed DEF Acts, Inv, TypeInv
    <3>2. Pressed \cap stale = {}
      BY <2>1, PressedIsFresh DEF Acts, Inv
    <3> QED
      BY <3>1, <3>2
  <2>2. ASSUME capturing, FrameStep
        PROVE  UNCHANGED <<stack, cursor, calls, move>>
    <3>1. CancelByKey \/ QuietFrame
      BY <2>2 DEF FrameStep, MoveCursor, TurnPage, CallRow, UseNothing, Back, Acts
    <3> QED
      BY <3>1 DEF CancelByKey, QuietFrame, bodyVars
  <2> QED
    BY <2>1, <2>2
<1> QED
  BY <1>1, InvHolds, PTL DEF KeysAreMeant

=============================================================================
