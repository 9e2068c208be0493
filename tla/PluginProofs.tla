---------------------------- MODULE PluginProofs -----------------------------
(* Safety of a plugin's load and unload over the kit's services, for any        *)
(* events, resources, factories, requests, servers, migration files and any     *)
(* number of loads.                                                             *)
EXTENDS Plugin, FiniteSetTheorems, SequenceTheorems, TLAPS

(* ---- the invariants ---------------------------------------------------------- *)

\* HttpClient: a request under way is pending or collected, and one whose worker is not done is
\* pending.
HttpInv ==
  /\ items \in Seq(Request) /\ batch \in Seq(Request) /\ it \in Nat
  /\ fate \in [Request -> {"new", "waiting", "called", "dropped"}]
  /\ IsInjective(items) /\ IsInjective(batch)
  /\ Range(items) \cap Range(batch) = {}
  /\ Range(items) \cup Range(batch) = Waiting
  /\ working \subseteq Range(items)

\* GameEventService: where the walk of FireGameEvent stands, if its callbacks only remove others.
\* What is left is there and was not called, and who is there since the start was called or is left.
SafeVerbs == EventVerbs \subseteq {"remove others"}
WalkFields == {"event", "rounds", "start", "left", "running", "heard", "again"}
WalkInv ==
  firing # None =>
    /\ DOMAIN firing = WalkFields /\ firing = [f \in WalkFields |-> firing[f]]
    /\ firing.rounds = 1
    /\ firing.left \subseteq ListenersOf(listeners, firing.event)
    /\ firing.left \cap firing.heard = {} /\ firing.again = {}
    /\ firing.start \cap DOMAIN listeners \subseteq firing.heard \cup firing.left

\* The engine's table has the service once for each event it registered and was not refused, and
\* every listener's event is registered.
EventInv ==
  /\ manager \in BOOLEAN
  /\ registered \subseteq Event
  /\ registered # {} => manager
  /\ refused \subseteq registered
  /\ attached = [e \in Event |-> IF e \in registered \ refused THEN 1 ELSE 0]
  /\ \A h \in DOMAIN listeners : listeners[h] \in registered
  /\ SafeVerbs => WalkInv

\* The set S cannot be left by a walk from h along n, and Walk(h, n) is what it meets.
Closed(S, h, n) == {h} \ {None} \subseteq S /\ \A g \in S : n[g] \in S \cup {None}
Walk(h, n) == {f \in Factory : \A S \in SUBSET Factory : Closed(S, h, n) => f \in S}

\* The walk runs downwards in some order, so that it meets no factory twice.
Ranked(rank, h, n) ==
  /\ rank \in [Factory -> Nat]
  /\ \A f \in Walk(h, n) : n[f] # None => rank[n[f]] < rank[f]

ListInv ==
  /\ linked \in BOOLEAN
  /\ head \in Factory \cup {None}
  /\ next \in [Factory -> Factory \cup {None}]
  /\ others \subseteq Other
  /\ ListIsWhole
  /\ \E rank : Ranked(rank, head, next)
  /\ Kit \in session => linked

\* MetamodPluginBase: a hook that is installed has its cleanup, and what the phases have left.
BaseInv ==
  /\ phase \in {"off", "loading", "on", "unloading", "deferred", "stopping"}
  /\ deferred \in Seq({"kitHooks", "pluginHook", "farewell"})
  /\ hooks \subseteq {"kit", "plugin"}
  /\ "kit" \in hooks => "kitHooks" \in Range(deferred)
  /\ "plugin" \in hooks => "pluginHook" \in Range(deferred)
  /\ phase \in {"loading", "on", "unloading"} => "kit" \in hooks
  /\ phase \in {"off", "stopping"} => hooks = {} /\ registered = {} /\ ~linked
  /\ phase = "off" => ~command /\ working = {}
  /\ firing # None => phase = "on"

ServiceInv == HttpInv /\ EventInv /\ ListInv /\ BaseInv

\* Migrator: what the states of a run s mean.
RunTypes(s) ==
  /\ at[s] \in {"idle", "table", "lock", "current", "files", "unlock", "ended"}
  /\ todo[s] \in Seq(File) /\ current[s] \in Nat
  /\ broken[s] \in BOOLEAN
  /\ result[s] \in [success : BOOLEAN, applied : Nat, version : Nat]
  /\ Running(s) => dir[s] \subseteq File /\ ~result[s].success
  /\ at[s] \in {"table", "lock", "current", "files"} => ~broken[s]

\* The files still to come are files of the directory, by version.
InOrder(s) ==
  Running(s) =>
    /\ Range(todo[s]) \subseteq dir[s]
    /\ IsInjective(todo[s])
    /\ \A i, j \in DOMAIN todo[s] : i < j => Version(todo[s][i]) <= Version(todo[s][j])
    /\ at[s] \in {"table", "lock", "current"} => Range(todo[s]) = dir[s]

\* The run that has the lock.
HasLock(s) == at[s] \in {"current", "files"} \/ (at[s] = "unlock" /\ ~broken[s]) => holder = s

\* In the middle of its files, a run knows the table: nothing else adds rows.
Applying(s) ==
  LET v == result[s].version IN
    at[s] = "files" =>
      /\ v \in rows \cup {0} /\ current[s] <= v
      /\ \A w \in rows : w <= v
      /\ \A w \in rows : w <= current[s] \/ \E g \in dir[s] \ Range(todo[s]) : Version(g) = w
      /\ \A f \in Range(todo[s]) : Version(f) <= current[s] \/ Version(f) >= v
      /\ \A f \in dir[s] \ Range(todo[s]) :
           Version(f) <= v /\ (Version(f) > current[s] => f \in Range(ran))

\* What a run that got through its files may report, and what excuses another.
Done(s) ==
  /\ \A f \in dir[s] : Version(f) > current[s] => f \in Range(ran)
  /\ result[s].version \in rows \cup {0}
  /\ \A f \in dir[s] : Version(f) <= result[s].version

Excused(s) ==
  \E f \in dir[s] : f \notin Good \/ \E g \in dir[s] \ {f} : Version(f) = Version(g)

Finishing(s) ==
  at[s] = "unlock" /\ ~broken[s] => IF todo[s] = << >> THEN Done(s) ELSE Excused(s)

Reporting(s) ==
  at[s] = "ended" /\ dir[s] # Missing =>
    IF result[s].success THEN Done(s) ELSE broken[s] \/ Excused(s)

Sound(s) ==
  RunTypes(s) /\ InOrder(s) /\ HasLock(s) /\ Applying(s) /\ Finishing(s) /\ Reporting(s)

\* The history table has a latest version and is what was run.
TableInv ==
  /\ rows \subseteq Nat \ {0}
  /\ rows # {} => \E v \in rows : \A w \in rows : w <= v
  /\ ran \in Seq(File)
  /\ MigrationsRunOnce

MigratorInv ==
  /\ DOMAIN at = Server /\ DOMAIN dir = Server /\ DOMAIN todo = Server
  /\ DOMAIN current = Server /\ DOMAIN broken = Server /\ DOMAIN result = Server
  /\ TableInv
  /\ \A s \in Server : Sound(s)

(* ---- sequences without repetitions -------------------------------------------- *)

LEMMA AppendOne ==
  ASSUME NEW S, NEW s \in Seq(S), NEW x \in S, IsInjective(s), x \notin Range(s)
  PROVE  /\ Append(s, x) \in Seq(S) /\ IsInjective(Append(s, x))
         /\ Range(Append(s, x)) = Range(s) \cup {x}
<1>1. /\ Append(s, x) \in Seq(S) /\ Len(Append(s, x)) = Len(s) + 1 /\ Len(s) \in Nat
      /\ \A i \in 1 .. Len(s) : Append(s, x)[i] = s[i]
      /\ Append(s, x)[Len(s) + 1] = x
  OBVIOUS
<1>2. DOMAIN s = 1 .. Len(s) /\ DOMAIN Append(s, x) = 1 .. Len(s) + 1
  BY <1>1
<1>3. IsInjective(Append(s, x))
  BY <1>1, <1>2 DEF IsInjective, Range
<1>4. Range(Append(s, x)) = Range(s) \cup {x}
  BY <1>1, <1>2 DEF Range
<1>. QED BY <1>1, <1>3, <1>4

LEMMA WithoutFirst ==
  ASSUME NEW S, NEW s \in Seq(S), IsInjective(s), s # << >>
  PROVE  /\ Tail(s) \in Seq(S) /\ IsInjective(Tail(s))
         /\ Head(s) \in Range(s) /\ Range(Tail(s)) = Range(s) \ {Head(s)}
<1>1. /\ Tail(s) \in Seq(S) /\ Len(Tail(s)) = Len(s) - 1 /\ Len(s) \in Nat \ {0}
      /\ \A i \in 1 .. Len(s) - 1 : Tail(s)[i] = s[i + 1]
      /\ Head(s) = s[1]
  OBVIOUS
<1>2. DOMAIN s = 1 .. Len(s) /\ DOMAIN Tail(s) = 1 .. Len(s) - 1
  BY <1>1
<1>3. IsInjective(Tail(s))
  <2>. SUFFICES ASSUME NEW i \in DOMAIN Tail(s), NEW j \in DOMAIN Tail(s), Tail(s)[i] = Tail(s)[j]
                PROVE  i = j
    BY DEF IsInjective
  <2>1. i + 1 \in DOMAIN s /\ j + 1 \in DOMAIN s /\ s[i + 1] = s[j + 1]
    BY <1>1, <1>2
  <2>2. i + 1 = j + 1
    BY <2>1 DEF IsInjective
  <2>. QED BY <1>2, <2>2
<1>4. Range(Tail(s)) = Range(s) \ {Head(s)}
  <2>1. ASSUME NEW y \in Range(Tail(s))
        PROVE  y \in Range(s) \ {Head(s)}
    <3>1. PICK i \in 1 .. Len(s) - 1 : y = s[i + 1]
      BY <1>1, <1>2, <2>1 DEF Range
    <3>2. i + 1 \in DOMAIN s /\ 1 \in DOMAIN s /\ i + 1 # 1
      BY <1>1, <1>2
    <3>. QED BY <1>1, <3>1, <3>2 DEF IsInjective, Range
  <2>2. ASSUME NEW y \in Range(s) \ {Head(s)}
        PROVE  y \in Range(Tail(s))
    <3>1. PICK i \in 1 .. Len(s) : y = s[i]
      BY <1>2 DEF Range
    <3>2. i - 1 \in DOMAIN Tail(s) /\ Tail(s)[i - 1] = s[i]
      BY <1>1, <1>2, <3>1
    <3>. QED BY <3>1, <3>2 DEF Range
  <2>. QED BY <2>1, <2>2
<1>5. Head(s) \in Range(s)
  <2>1. 1 \in DOMAIN s
    BY <1>1, <1>2
  <2>. QED BY <1>1, <2>1 DEF Range
<1>. QED BY <1>1, <1>3, <1>4, <1>5

\* A part of a sequence.
LEMMA Part ==
  ASSUME NEW S, NEW s \in Seq(S), NEW m \in 1 .. Len(s) + 1, NEW n \in m - 1 .. Len(s)
  PROVE  /\ SubSeq(s, m, n) \in Seq(S) /\ Len(SubSeq(s, m, n)) = n - m + 1
         /\ \A i \in 1 .. n - m + 1 : SubSeq(s, m, n)[i] = s[m + i - 1]
<1>1. m \in Int /\ n \in Int /\ \A i \in m .. n : s[i] \in S
  OBVIOUS
<1>2. /\ SubSeq(s, m, n) \in Seq(S)
      /\ Len(SubSeq(s, m, n)) = IF m <= n THEN n - m + 1 ELSE 0
      /\ \A i \in 1 .. n - m + 1 : SubSeq(s, m, n)[i] = s[m + i - 1]
  BY ONLY <1>1, SubSeqProperties
<1>3. (IF m <= n THEN n - m + 1 ELSE 0) = n - m + 1
  OBVIOUS
<1>. QED BY <1>2, <1>3

\* What a concatenation holds at its first and at its last places.
LEMMA Concatenated ==
  ASSUME NEW S, NEW a \in Seq(S), NEW b \in Seq(S)
  PROVE  /\ a \o b \in Seq(S) /\ Len(a \o b) = Len(a) + Len(b)
         /\ \A i \in 1 .. Len(a) : (a \o b)[i] = a[i]
         /\ \A i \in 1 .. Len(b) : (a \o b)[Len(a) + i] = b[i]
<1>1. a \o b \in Seq(S) /\ Len(a \o b) = Len(a) + Len(b)
  OBVIOUS
<1>2. \A i \in 1 .. Len(a) : (a \o b)[i] = a[i]
  OBVIOUS
<1>3. \A i \in 1 .. Len(b) : (a \o b)[Len(a) + i] = b[i]
  OBVIOUS
<1>. QED BY <1>1, <1>2, <1>3

LEMMA WithoutPlace ==
  ASSUME NEW S, NEW s \in Seq(S), IsInjective(s), NEW k \in 1 .. Len(s)
  PROVE  LET t == SubSeq(s, 1, k - 1) \o SubSeq(s, k + 1, Len(s)) IN
           t \in Seq(S) /\ IsInjective(t) /\ Range(t) = Range(s) \ {s[k]}
<1>. DEFINE n == Len(s)
            a == SubSeq(s, 1, k - 1)
            b == SubSeq(s, k + 1, n)
            t == a \o b
            old(i) == IF i < k THEN i ELSE i + 1
<1>1. n \in Nat /\ k \in 1 .. n /\ DOMAIN s = 1 .. n
  OBVIOUS
<1>2. a \in Seq(S) /\ Len(a) = k - 1 /\ \A i \in 1 .. k - 1 : a[i] = s[i]
  <2>1. 1 \in 1 .. Len(s) + 1 /\ k - 1 \in 1 - 1 .. Len(s)
    BY <1>1
  <2>2. a \in Seq(S) /\ Len(a) = k - 1 - 1 + 1 /\ \A i \in 1 .. k - 1 - 1 + 1 : a[i] = s[1 + i - 1]
    BY <2>1, Part
  <2>. QED BY <1>1, <2>2
<1>3. b \in Seq(S) /\ Len(b) = n - k /\ \A i \in 1 .. n - k : b[i] = s[k + i]
  <2>1. k + 1 \in 1 .. Len(s) + 1 /\ n \in k + 1 - 1 .. Len(s)
    BY <1>1
  <2>2. /\ b \in Seq(S) /\ Len(b) = n - (k + 1) + 1
        /\ \A i \in 1 .. n - (k + 1) + 1 : b[i] = s[k + 1 + i - 1]
    BY <2>1, Part
  <2>. HIDE DEF b
  <2>3. n - (k + 1) + 1 = n - k /\ \A i \in 1 .. n - k : k + 1 + i - 1 = k + i
    BY <1>1
  <2>. QED BY <2>2, <2>3
<1>. HIDE DEF n, a, b
<1>4. /\ t \in Seq(S) /\ DOMAIN t = 1 .. n - 1
      /\ \A i \in 1 .. n - 1 : t[i] = s[old(i)]
  <2>1. t \in Seq(S) /\ Len(t) = n - 1
    <3>1. a \in Seq(S) /\ b \in Seq(S)
      BY <1>2, <1>3
    <3>2. t \in Seq(S) /\ Len(t) = Len(a) + Len(b)
      BY <3>1
    <3>. QED BY <1>1, <1>2, <1>3, <3>2
  <2>2. ASSUME NEW i \in 1 .. n - 1, i < k
        PROVE  t[i] = s[old(i)]
    <3>1. i \in 1 .. Len(a)
      BY <1>1, <1>2, <2>2
    <3>2. t[i] = a[i]
      BY <1>2, <1>3, <3>1, Concatenated
    <3>. QED BY <1>2, <2>2, <3>1, <3>2
  <2>3. ASSUME NEW i \in 1 .. n - 1, i >= k
        PROVE  t[i] = s[old(i)]
    <3>1. i - (k - 1) \in 1 .. Len(b) /\ i \in Len(a) + 1 .. Len(a) + Len(b) /\ i - Len(a) = i - (k - 1)
      BY <1>1, <1>2, <1>3, <2>3
    <3>2. t[i] = b[i - Len(a)]
      <4>1. i - Len(a) \in 1 .. Len(b) /\ Len(a) + (i - Len(a)) = i
        BY <1>1, <1>2, <1>3, <3>1
      <4>. QED BY <1>2, <1>3, <4>1, Concatenated
    <3>3. b[i - (k - 1)] = s[k + (i - (k - 1))] /\ k + (i - (k - 1)) = i + 1 /\ old(i) = i + 1
      BY <1>1, <1>3, <2>3, <3>1
    <3>. QED BY <3>1, <3>2, <3>3
  <2>. QED BY <1>1, <2>1, <2>2, <2>3
<1>. HIDE DEF t
<1>5. \A i \in 1 .. n - 1 : old(i) \in DOMAIN s /\ old(i) # k
  BY <1>1
<1>6. IsInjective(t)
  <2>. SUFFICES ASSUME NEW i \in 1 .. n - 1, NEW j \in 1 .. n - 1, t[i] = t[j]
                PROVE  i = j
    BY <1>4 DEF IsInjective
  <2>1. old(i) = old(j)
    <3>. HIDE DEF old
    <3>. QED BY <1>4, <1>5 DEF IsInjective
  <2>. QED BY <1>1, <2>1
<1>7. Range(t) = Range(s) \ {s[k]}
  <2>1. ASSUME NEW y \in Range(t)
        PROVE  y \in Range(s) \ {s[k]}
    <3>1. PICK i \in 1 .. n - 1 : y = s[old(i)]
      BY <1>4, <2>1 DEF Range
    <3>. HIDE DEF old
    <3>2. s[old(i)] # s[k]
      BY <1>1, <1>5 DEF IsInjective
    <3>. QED BY <1>5, <3>1, <3>2 DEF Range
  <2>2. ASSUME NEW y \in Range(s) \ {s[k]}
        PROVE  y \in Range(t)
    <3>1. PICK i \in 1 .. n : y = s[i] /\ i # k
      BY <1>1, <2>2 DEF Range
    <3>2. CASE i < k
      <4>1. i \in 1 .. n - 1 /\ old(i) = i
        BY <1>1, <3>2
      <4>. QED BY <1>4, <3>1, <4>1 DEF Range
    <3>3. CASE i > k
      <4>1. i - 1 \in 1 .. n - 1 /\ old(i - 1) = i
        BY <1>1, <3>3
      <4>. QED BY <1>4, <3>1, <4>1 DEF Range
    <3>. QED BY <1>1, <3>1, <3>2, <3>3
  <2>. QED BY <2>1, <2>2
<1>. QED BY <1>4, <1>6, <1>7 DEF t, a, b, n

\* Two sequences that share nothing, one after the other.
LEMMA ApartConcat ==
  ASSUME NEW S, NEW s \in Seq(S), NEW t \in Seq(S), IsInjective(s), IsInjective(t),
         Range(s) \cap Range(t) = {}
  PROVE  IsInjective(s \o t) /\ Range(s \o t) = Range(s) \cup Range(t)
<1>1. /\ Len(s) \in Nat /\ Len(t) \in Nat
      /\ DOMAIN s = 1 .. Len(s) /\ DOMAIN t = 1 .. Len(t) /\ DOMAIN (s \o t) = 1 .. Len(s) + Len(t)
      /\ \A i \in 1 .. Len(s) : (s \o t)[i] = s[i]
      /\ \A i \in 1 .. Len(t) : (s \o t)[Len(s) + i] = t[i]
  OBVIOUS
<1>. DEFINE u == s \o t
<1>2. \A i \in DOMAIN u : \/ i \in DOMAIN s /\ u[i] = s[i]
                          \/ i > Len(s) /\ i - Len(s) \in DOMAIN t /\ u[i] = t[i - Len(s)]
  <2>. SUFFICES ASSUME NEW i \in DOMAIN u, i > Len(s)
                PROVE  i - Len(s) \in DOMAIN t /\ u[i] = t[i - Len(s)]
    BY <1>1
  <2>1. i - Len(s) \in 1 .. Len(t) /\ Len(s) + (i - Len(s)) = i
    BY <1>1
  <2>. QED BY <1>1, <2>1
<1>3. (\A i \in DOMAIN s : i \in DOMAIN u /\ u[i] = s[i])
      /\ \A i \in DOMAIN t : Len(s) + i \in DOMAIN u /\ u[Len(s) + i] = t[i]
  BY <1>1
<1>. HIDE DEF u
<1>4. Range(u) = Range(s) \cup Range(t)
  BY <1>2, <1>3 DEF Range
<1>5. ASSUME NEW i \in DOMAIN u, NEW j \in DOMAIN u, u[i] = u[j]
      PROVE  i = j
  <2>1. CASE i \in DOMAIN s /\ u[i] = s[i] /\ j \in DOMAIN s /\ u[j] = s[j]
    BY <1>5, <2>1 DEF IsInjective
  <2>2. CASE i > Len(s) /\ i - Len(s) \in DOMAIN t /\ u[i] = t[i - Len(s)]
             /\ j > Len(s) /\ j - Len(s) \in DOMAIN t /\ u[j] = t[j - Len(s)]
    <3>1. i - Len(s) = j - Len(s)
      BY <1>5, <2>2 DEF IsInjective
    <3>2. i \in Int /\ j \in Int
      BY <1>1 DEF u
    <3>. QED BY <1>1, <3>1, <3>2
  <2>3. ~(u[i] \in Range(s) /\ u[j] \in Range(t)) /\ ~(u[i] \in Range(t) /\ u[j] \in Range(s))
    BY <1>5
  <2>. QED BY <1>2, <2>1, <2>2, <2>3 DEF Range
<1>6. IsInjective(u)
  BY <1>5 DEF IsInjective
<1>. QED BY <1>4, <1>6 DEF u

(* ---- HttpClient ---------------------------------------------------------------- *)

LEMMA WaitingAfter ==
  ASSUME NEW r \in Request, fate \in [Request -> {"new", "waiting", "called", "dropped"}],
         NEW w \in {"waiting", "called"}, fate' = [fate EXCEPT ![r] = w]
  PROVE  /\ fate' \in [Request -> {"new", "waiting", "called", "dropped"}]
         /\ Waiting' = IF w = "waiting" THEN Waiting \cup {r} ELSE Waiting \ {r}
BY DEF Waiting

LEMMA PostKeeps ==
  ASSUME HttpInv, NEW r \in Request, Post(r)
  PROVE  HttpInv'
<1>1. r \notin Waiting /\ UNCHANGED <<it, batch>>
  BY DEF Post
<1>2. /\ items' \in Seq(Request) /\ IsInjective(items')
      /\ Range(items') = Range(items) \cup {r}
  <2>1. r \notin Range(items)
    BY <1>1 DEF HttpInv
  <2>. QED BY <2>1, AppendOne DEF HttpInv, Post
<1>3. /\ fate' \in [Request -> {"new", "waiting", "called", "dropped"}]
      /\ Waiting' = Waiting \cup {r}
  BY WaitingAfter DEF HttpInv, Post
<1>4. working' \subseteq Range(items')
  BY <1>2 DEF HttpInv, Post
<1>. QED BY <1>1, <1>2, <1>3, <1>4 DEF HttpInv

LEMMA CollectKeeps ==
  ASSUME HttpInv, Collect
  PROVE  HttpInv'
<1>1. UNCHANGED <<working, fate>> /\ Waiting' = Waiting
  BY DEF Collect, Waiting
<1>2. CASE it > Len(items) /\ it' = 0 /\ UNCHANGED <<items, batch>>
  BY <1>1, <1>2 DEF HttpInv
<1>3. CASE it <= Len(items) /\ it' = it + 1 /\ UNCHANGED <<items, batch>>
  BY <1>1, <1>3 DEF HttpInv
<1>4. CASE /\ it <= Len(items) /\ Ready(items[it])
           /\ batch' = Append(batch, items[it])
           /\ items' = SubSeq(items, 1, it - 1) \o SubSeq(items, it + 1, Len(items))
           /\ UNCHANGED it
  <2>1. it \in 1 .. Len(items)
    BY <1>4 DEF HttpInv, Collect
  <2>2. items[it] \in Request /\ items[it] \in Range(items)
    BY <2>1 DEF HttpInv, Range
  <2>3. /\ items' \in Seq(Request) /\ IsInjective(items')
        /\ Range(items') = Range(items) \ {items[it]}
    BY <1>4, <2>1, WithoutPlace DEF HttpInv
  <2>4. /\ batch' \in Seq(Request) /\ IsInjective(batch')
        /\ Range(batch') = Range(batch) \cup {items[it]}
    BY <1>4, <2>2, AppendOne DEF HttpInv
  <2>5. items[it] \notin working
    BY <1>4 DEF Ready
  <2>. QED BY <1>1, <1>4, <2>2, <2>3, <2>4, <2>5 DEF HttpInv
<1>. QED BY <1>2, <1>3, <1>4 DEF Collect

LEMMA CompleteKeeps ==
  ASSUME HttpInv, Complete
  PROVE  HttpInv'
<1>. DEFINE done == Head(batch)
            called == [fate EXCEPT ![done] = "called"]
<1>1. batch # << >> /\ batch' = Tail(batch) /\ UNCHANGED it
  BY DEF Complete
<1>2. /\ batch' \in Seq(Request) /\ IsInjective(batch')
      /\ done \in Range(batch) /\ Range(batch') = Range(batch) \ {done}
  BY <1>1, WithoutFirst DEF HttpInv
<1>3. done \in Request
  BY <1>2 DEF HttpInv, Waiting
<1>. HIDE DEF done
<1>4. CASE fate' = called /\ UNCHANGED <<items, working>>
  <2>1. /\ fate' \in [Request -> {"new", "waiting", "called", "dropped"}]
        /\ Waiting' = Waiting \ {done}
    BY <1>3, <1>4, WaitingAfter DEF HttpInv
  <2>. QED BY <1>1, <1>2, <1>4, <2>1 DEF HttpInv
<1>5. ASSUME NEW r \in Request \ Waiting,
             items' = Append(items, r), working' = working \cup {r},
             fate' = [called EXCEPT ![r] = "waiting"]
      PROVE  HttpInv'
  <2>1. /\ items' \in Seq(Request) /\ IsInjective(items')
        /\ Range(items') = Range(items) \cup {r}
    <3>1. r \notin Range(items)
      BY DEF HttpInv
    <3>. QED BY <1>5, <3>1, AppendOne DEF HttpInv
  <2>2. /\ fate' \in [Request -> {"new", "waiting", "called", "dropped"}]
        /\ Waiting' = (Waiting \ {done}) \cup {r}
    BY <1>3, <1>5 DEF HttpInv, Waiting
  <2>3. r # done /\ r \notin Range(batch)
    BY <1>2 DEF HttpInv
  <2>4. Range(items') \cap Range(batch') = {} /\ Range(items') \cup Range(batch') = Waiting'
    BY <1>2, <2>1, <2>2, <2>3 DEF HttpInv
  <2>5. working' \subseteq Range(items')
    BY <1>5, <2>1 DEF HttpInv
  <2>6. it' \in Nat
    BY <1>1 DEF HttpInv
  <2>. QED BY <1>2, <2>1, <2>2, <2>4, <2>5, <2>6 DEF HttpInv
<1>6. \/ fate' = called /\ UNCHANGED <<items, working>>
      \/ \E r \in Request \ Waiting :
           /\ items' = Append(items, r) /\ working' = working \cup {r}
           /\ fate' = [called EXCEPT ![r] = "waiting"]
  BY DEF Complete, done
<1>. QED BY <1>4, <1>5, <1>6

\* Once Stop has waited, nothing works, and nothing pending is called any more.
LEMMA StopReturnsKeeps ==
  ASSUME HttpInv, StopReturns
  PROVE  HttpInv' /\ working' = {}
<1>1. working = {}
  BY DEF HttpInv, StopReturns, Ready
<1>2. items' = << >> /\ items' \in Seq(Request) /\ IsInjective(items') /\ Range(items') = {}
  BY DEF StopReturns, IsInjective, Range
<1>3. fate' \in [Request -> {"new", "waiting", "called", "dropped"}]
  BY DEF HttpInv, StopReturns
<1>4. Waiting' = Waiting \ Range(items)
  BY DEF StopReturns, Waiting
<1>5. UNCHANGED <<working, it, batch>>
  BY DEF StopReturns
<1>. QED BY <1>1, <1>2, <1>3, <1>4, <1>5 DEF HttpInv

\* A step of the client keeps its invariant.
LEMMA HttpStep ==
  ASSUME HttpInv,
         \/ \E r \in Request : Post(r) \/ Answer(r)
         \/ DispatchCompletions \/ Collect \/ Complete \/ Stop \/ StopReturns
         \/ UNCHANGED httpVars
  PROVE  HttpInv'
<1>1. ASSUME NEW r \in Request, Answer(r)
      PROVE  HttpInv'
  BY <1>1 DEF Answer, HttpInv, Waiting
<1>2. CASE DispatchCompletions \/ Stop \/ UNCHANGED httpVars
  BY <1>2 DEF DispatchCompletions, Stop, httpVars, HttpInv, Waiting
<1>. QED BY <1>1, <1>2, PostKeeps, CollectKeeps, CompleteKeeps, StopReturnsKeeps

(* ---- GameEventService ----------------------------------------------------------- *)

LEMMA ListenKeeps ==
  ASSUME EventInv, NEW e \in Event, Listen(e), firing = None \/ ~SafeVerbs
  PROVE  EventInv' /\ (firing = None => firing' = None)
<1>1. CASE ~manager
  BY <1>1 DEF Listen, eventVars, EventInv, WalkInv
<1>2. CASE manager
  <2>1. registered' = registered \cup {e} /\ manager' = manager
    BY <1>2 DEF Listen
  <2>2. /\ refused' \subseteq registered'
        /\ attached' = [f \in Event |-> IF f \in registered' \ refused' THEN 1 ELSE 0]
    <3>1. CASE e \in registered
      BY <1>2, <2>1, <3>1 DEF Listen, EventInv
    <3>2. CASE e \notin registered /\ attached' = [attached EXCEPT ![e] = @ + 1] /\ refused' = refused
      <4>1. attached[e] = 0 /\ refused \subseteq registered /\ e \notin refused
        BY <3>2 DEF EventInv
      <4>2. attached' = [attached EXCEPT ![e] = 1]
        BY <3>2, <4>1
      <4>3. registered' \ refused' = (registered \ refused) \cup {e}
        BY <2>1, <3>2, <4>1
      <4>4. attached = [f \in Event |-> IF f \in registered \ refused THEN 1 ELSE 0]
        BY DEF EventInv
      <4>5. attached' = [f \in Event |-> IF f \in (registered \ refused) \cup {e} THEN 1 ELSE 0]
        BY <4>2, <4>4
      <4>6. refused' \subseteq registered'
        BY <2>1, <3>2, <4>1
      <4>. QED BY <4>3, <4>5, <4>6
    <3>3. CASE e \notin registered /\ attached' = attached /\ refused' = refused \cup {e}
      BY <2>1, <3>3 DEF EventInv
    <3>. QED BY <1>2, <3>1, <3>2, <3>3 DEF Listen
  <2>3. \A h \in DOMAIN listeners' : listeners'[h] \in registered'
    BY <1>2, <2>1 DEF Listen, EventInv, Add
  <2>4. firing = None => firing' = None
    BY <1>2 DEF Listen
  <2>5. SafeVerbs => WalkInv'
    BY <2>4 DEF WalkInv
  <2>. QED BY <1>2, <2>1, <2>2, <2>3, <2>4, <2>5 DEF EventInv
<1>. QED BY <1>1, <1>2

\* A callback that removes another listener takes it out of the walk, if it is still ahead.
LEMMA RemovalKeepsTheWalk ==
  ASSUME WalkInv, NEW h, RemoveListener(h), firing # None => h # firing.running
  PROVE  WalkInv'
<1>. SUFFICES ASSUME firing' # None, firing # None
              PROVE  WalkInv'
  BY DEF RemoveListener, WalkInv
<1>1. DOMAIN listeners' = DOMAIN listeners \ {h} /\ \A g \in DOMAIN listeners' : listeners'[g] = listeners[g]
  BY DEF RemoveListener, Remove, Restrict
<1>2. firing' = [firing EXCEPT !.left = firing.left \cap DOMAIN listeners']
  BY DEF RemoveListener, Onward
<1>3. /\ DOMAIN firing = WalkFields /\ firing = [f \in WalkFields |-> firing[f]]
      /\ firing.rounds = 1
      /\ firing.left \subseteq ListenersOf(listeners, firing.event)
      /\ firing.left \cap firing.heard = {} /\ firing.again = {}
      /\ firing.start \cap DOMAIN listeners \subseteq firing.heard \cup firing.left
  BY DEF WalkInv
<1>4. /\ DOMAIN firing' = WalkFields /\ firing' = [f \in WalkFields |-> firing'[f]]
      /\ firing'.left = firing.left \cap DOMAIN listeners'
      /\ \A f \in WalkFields \ {"left"} : firing'[f] = firing[f]
  BY <1>2, <1>3 DEF WalkFields
<1>5. /\ firing'.rounds = 1 /\ firing'.event = firing.event /\ firing'.start = firing.start
      /\ firing'.heard = firing.heard /\ firing'.again = {}
  BY <1>3, <1>4 DEF WalkFields
<1>6. firing'.left \subseteq ListenersOf(listeners', firing'.event)
  BY <1>1, <1>3, <1>4, <1>5 DEF ListenersOf
<1>. QED BY <1>1, <1>3, <1>4, <1>5, <1>6 DEF WalkInv

LEMMA RemoveListenerKeeps ==
  ASSUME EventInv, NEW h, RemoveListener(h), firing = None \/ ~SafeVerbs \/ h # firing.running
  PROVE  EventInv' /\ (firing = None => firing' = None)
<1>1. SafeVerbs => WalkInv'
  BY RemovalKeepsTheWalk DEF EventInv
<1>. QED BY <1>1 DEF RemoveListener, EventInv, Remove, Restrict

\* The walk calls a listener, a callback returns, the walk ends.
LEMMA DeliveryKeepsTheWalk ==
  ASSUME WalkInv, (\E h \in DOMAIN listeners : CallListener(h)) \/ ListenerReturns \/ WalkEnds,
         UNCHANGED listeners
  PROVE  WalkInv'
<1>0. firing # None
  BY DEF CallListener, ListenerReturns, WalkEnds, WalkDone
<1>1. /\ DOMAIN firing = WalkFields /\ firing = [f \in WalkFields |-> firing[f]]
      /\ firing.rounds = 1
      /\ firing.left \subseteq ListenersOf(listeners, firing.event)
      /\ firing.left \cap firing.heard = {} /\ firing.again = {}
      /\ firing.start \cap DOMAIN listeners \subseteq firing.heard \cup firing.left
  BY <1>0 DEF WalkInv
<1>2. ASSUME NEW h \in DOMAIN listeners, CallListener(h)
      PROVE  WalkInv'
  <2>1. h \in firing.left /\ h \notin firing.heard
    BY <1>1, <1>2 DEF CallListener
  <2>2. firing' = [firing EXCEPT !.running = h, !.left = firing.left \ {h},
                                 !.heard = firing.heard \cup {h}, !.again = firing.again]
    BY <1>2, <2>1 DEF CallListener
  <2>3. /\ DOMAIN firing' = WalkFields /\ firing' = [f \in WalkFields |-> firing'[f]]
        /\ firing'.left = firing.left \ {h} /\ firing'.heard = firing.heard \cup {h}
        /\ firing'.rounds = 1 /\ firing'.event = firing.event /\ firing'.start = firing.start
        /\ firing'.again = {}
    BY <1>1, <2>2 DEF WalkFields
  <2>. QED BY <1>1, <2>1, <2>3 DEF WalkInv
<1>3. CASE ListenerReturns
  <2>1. firing' = [firing EXCEPT !.running = NoHandle]
    BY <1>3 DEF ListenerReturns
  <2>2. /\ DOMAIN firing' = WalkFields /\ firing' = [f \in WalkFields |-> firing'[f]]
        /\ firing'.left = firing.left /\ firing'.heard = firing.heard
        /\ firing'.rounds = 1 /\ firing'.event = firing.event /\ firing'.start = firing.start
        /\ firing'.again = {}
    BY <1>1, <2>1 DEF WalkFields
  <2>. QED BY <1>1, <2>2 DEF WalkInv
<1>4. CASE WalkEnds
  BY <1>1, <1>4 DEF WalkEnds, WalkInv
<1>. QED BY <1>2, <1>3, <1>4

\* A walk begins with every listener of its event ahead.
LEMMA EngineFiresKeeps ==
  ASSUME EventInv, EngineFires
  PROVE  EventInv'
<1>1. UNCHANGED <<manager, listeners, registered, attached, refused>>
  BY DEF EngineFires
<1>2. PICK e \in Event : firing' = WalkOf(e, attached[e]) /\ attached[e] > 0
  BY DEF EngineFires, FireGameEvent
<1>3. attached[e] = 1
  BY <1>2 DEF EventInv
<1>4. /\ DOMAIN firing' = WalkFields /\ firing' = [f \in WalkFields |-> firing'[f]]
      /\ firing'.rounds = 1 /\ firing'.event = e
      /\ firing'.left = ListenersOf(listeners, e) /\ firing'.start = ListenersOf(listeners, e)
      /\ firing'.heard = {} /\ firing'.again = {}
  BY <1>2, <1>3 DEF WalkOf, WalkFields
<1>5. WalkInv'
  BY <1>1, <1>4 DEF WalkInv
<1>. QED BY <1>1, <1>5 DEF EventInv

\* The table after a map start: what survived the reset is replaced, not added to.
LEMMA MapStartsKeepsEvents ==
  ASSUME EventInv, NEW hooked \in BOOLEAN, registered # {} => hooked, MapStarts(hooked)
  PROVE  EventInv'
<1>1. UNCHANGED <<manager, listeners, registered, firing>>
  BY DEF MapStarts
<1>2. PICK table \in TableAfterReset :
        IF hooked THEN OnServerStartup(table) ELSE attached' = table /\ UNCHANGED refused
  BY DEF MapStarts
<1>3. SafeVerbs => WalkInv'
  BY <1>1 DEF EventInv, WalkInv
<1>4. CASE registered = {}
  <2>1. attached = NotAttached
    BY <1>4 DEF EventInv, NotAttached
  <2>2. attached' = NotAttached /\ refused' = refused
    BY <1>2, <1>4, <2>1 DEF TableAfterReset, OnServerStartup
  <2>. QED BY <1>1, <1>3, <1>4, <2>1, <2>2 DEF EventInv
<1>5. CASE registered # {}
  <2>1. PICK accepted \in SUBSET registered :
          attached' = Reattached(table, accepted) /\ refused' = registered \ accepted
    BY <1>2, <1>5 DEF OnServerStartup, EventInv
  <2>2. registered \ refused' = accepted
    BY <2>1
  <2>. QED BY <1>1, <1>3, <2>1, <2>2 DEF EventInv, Reattached
<1>. QED BY <1>4, <1>5

(* ---- the engine's list of factories --------------------------------------------- *)

LEMMA ReachedByWalk == Reached = Walk(head, next) /\ Reached' = Walk(head', next')
BY DEF Reached, Walk, Closed

\* It is the least set that the walk cannot leave.
LEMMA WalkIsLeast ==
  ASSUME NEW h \in Factory \cup {None}, NEW n \in [Factory -> Factory \cup {None}]
  PROVE  /\ Walk(h, n) \subseteq Factory /\ Closed(Walk(h, n), h, n)
         /\ \A S \in SUBSET Factory : Closed(S, h, n) => Walk(h, n) \subseteq S
<1>1. {h} \ {None} \subseteq Walk(h, n)
  BY DEF Walk, Closed
<1>2. ASSUME NEW g \in Walk(h, n), n[g] # None
      PROVE  n[g] \in Walk(h, n)
  <2>1. g \in Factory /\ n[g] \in Factory
    BY <1>2 DEF Walk
  <2>2. ASSUME NEW S \in SUBSET Factory, Closed(S, h, n)
        PROVE  n[g] \in S
    <3>1. g \in S
      BY <2>2 DEF Walk
    <3>. QED BY <1>2, <2>2, <3>1 DEF Closed
  <2>. QED BY <2>1, <2>2 DEF Walk
<1>. QED BY <1>1, <1>2 DEF Walk, Closed

\* A factory that is not in the list comes first in it.
LEMMA LinkAdds ==
  ASSUME NEW h \in Factory \cup {None}, NEW n \in [Factory -> Factory \cup {None}],
         NEW rank, Ranked(rank, h, n), NEW f \in Factory \ Walk(h, n),
         NEW m \in [Factory -> Factory \cup {None}],
         m[f] = h, \A g \in Factory \ {f} : m[g] = n[g]
  PROVE  Walk(f, m) = Walk(h, n) \cup {f} /\ \E r : Ranked(r, f, m)
<1>. DEFINE W == Walk(h, n)
<1>0. f # None
  BY KitAssumption DEF Factory
<1>1. m[f] = h /\ \A g \in Factory \ {f} : m[g] = n[g]
  OBVIOUS
<1>2. W \subseteq Factory /\ Closed(W, h, n)
  BY WalkIsLeast
<1>3. h # f
  BY <1>0, <1>2 DEF Closed
<1>4. Walk(f, m) \subseteq W \cup {f}
  <2>1. Closed(W \cup {f}, f, m)
    BY <1>1, <1>2 DEF Closed
  <2>2. W \cup {f} \in SUBSET Factory /\ f \in Factory \cup {None}
    BY <1>2
  <2>. HIDE DEF W
  <2>. QED BY <1>1, <2>1, <2>2, WalkIsLeast
<1>5. W \cup {f} \subseteq Walk(f, m)
  <2>. DEFINE V == Walk(f, m)
  <2>1. V \subseteq Factory /\ Closed(V, f, m)
    BY <1>1, WalkIsLeast
  <2>2. f \in V
    BY <1>0, <2>1 DEF Closed
  <2>3. Closed(V \cap W, h, n)
    <3>1. {h} \ {None} \subseteq V \cap W
      BY <1>1, <1>2, <2>1, <2>2 DEF Closed
    <3>2. ASSUME NEW g \in V \cap W
          PROVE  n[g] \in (V \cap W) \cup {None}
      <4>1. g # f /\ m[g] = n[g]
        BY <1>1, <1>2
      <4>. QED BY <1>2, <2>1, <4>1 DEF Closed
    <3>. QED BY <3>1, <3>2 DEF Closed
  <2>4. W \subseteq V \cap W
    BY <2>1, <2>3, WalkIsLeast
  <2>. QED BY <2>2, <2>4
<1>6. \E r : Ranked(r, f, m)
  <2>. DEFINE above == IF h = None THEN 0 ELSE rank[h] + 1
              r == [rank EXCEPT ![f] = above]
  <2>1. rank \in [Factory -> Nat] /\ above \in Nat
    BY DEF Ranked
  <2>2. r \in [Factory -> Nat] /\ r[f] = above /\ \A g \in Factory \ {f} : r[g] = rank[g]
    BY <2>1
  <2>3. ASSUME NEW g \in Walk(f, m), m[g] # None
        PROVE  r[m[g]] < r[g]
    <3>1. CASE g = f
      <4>1. m[g] = h /\ h \in Factory \ {f} /\ r[h] = rank[h] /\ above = rank[h] + 1 /\ rank[h] \in Nat
        BY <1>1, <1>3, <2>1, <2>2, <2>3, <3>1
      <4>. HIDE DEF above, r
      <4>. QED BY <2>2, <3>1, <4>1
    <3>2. CASE g # f
      <4>1. g \in W /\ m[g] = n[g]
        BY <1>1, <1>2, <1>4, <3>2
      <4>2. n[g] \in W /\ n[g] # f /\ n[g] \in Factory
        BY <1>2, <2>3, <4>1 DEF Closed
      <4>3. r[n[g]] = rank[n[g]] /\ r[g] = rank[g]
        BY <1>2, <2>2, <3>2, <4>1, <4>2
      <4>4. rank[n[g]] < rank[g]
        BY <2>3, <4>1 DEF Ranked
      <4>. QED BY <4>1, <4>3, <4>4
    <3>. QED BY <3>1, <3>2
  <2>4. Ranked(r, f, m)
    <3>. HIDE DEF r
    <3>. QED BY <2>2, <2>3 DEF Ranked
  <2>. QED BY <2>4
<1>. QED BY <1>4, <1>5, <1>6

\* A factory of the list that everybody skips is the only one that leaves it.
LEMMA UnlinkRemoves ==
  ASSUME NEW h \in Factory \cup {None}, NEW n \in [Factory -> Factory \cup {None}],
         NEW rank, Ranked(rank, h, n), NEW f \in Walk(h, n),
         NEW k, k = IF h = f THEN n[f] ELSE h, NEW m \in [Factory -> Factory \cup {None}],
         \A g \in Walk(h, n) : m[g] = IF n[g] = f /\ g # f THEN n[f] ELSE n[g]
  PROVE  Walk(k, m) = Walk(h, n) \ {f} /\ \E r : Ranked(r, k, m)
<1>. DEFINE W == Walk(h, n)
<1>0. f # None /\ f \in Factory
  BY KitAssumption, WalkIsLeast DEF Factory
<1>1. W \in SUBSET Factory /\ Closed(W, h, n)
  BY WalkIsLeast
<1>2. n[f] \in Factory \cup {None} /\ n[f] \in W \cup {None} /\ n[f] # f
  <2>1. n[f] # f
    <3>1. n[f] = f => rank[f] < rank[f] /\ rank[f] \in Nat
      BY <1>0 DEF Ranked
    <3>. QED BY <3>1
  <2>. QED BY <1>0, <1>1, <2>1 DEF Closed
<1>3. k \in Factory \cup {None}
  BY <1>2
<1>4. \A g \in W : m[g] = IF n[g] = f /\ g # f THEN n[f] ELSE n[g]
  OBVIOUS
<1>5. Walk(k, m) \subseteq W \ {f}
  <2>1. {k} \ {None} \subseteq W \ {f}
    BY <1>1, <1>2 DEF Closed
  <2>2. ASSUME NEW g \in W \ {f}
        PROVE  m[g] \in (W \ {f}) \cup {None}
    BY <1>1, <1>2, <1>4 DEF Closed
  <2>3. Closed(W \ {f}, k, m) /\ W \ {f} \in SUBSET Factory
    BY <1>1, <2>1, <2>2 DEF Closed
  <2>. HIDE DEF W
  <2>. QED BY <1>3, <2>3, WalkIsLeast
<1>6. W \ {f} \subseteq Walk(k, m)
  <2>. DEFINE V == Walk(k, m)
  <2>1. V \in SUBSET Factory /\ Closed(V, k, m)
    <3>. QED BY <1>3, WalkIsLeast
  <2>. HIDE DEF V
  <2>2. CASE n[f] \in V \cup {None}
    <3>. DEFINE S == (V \cap W) \cup {f}
    <3>1. {h} \ {None} \subseteq S
      BY <1>1, <2>1 DEF Closed
    <3>2. ASSUME NEW g \in S
          PROVE  n[g] \in S \cup {None}
      <4>1. CASE g = f
        BY <1>2, <2>2, <4>1
      <4>2. CASE g # f
        <5>1. g \in W /\ g \in V /\ n[g] \in W \cup {None} /\ m[g] \in V \cup {None}
          BY <1>1, <2>1, <4>2 DEF Closed
        <5>. QED BY <1>4, <4>2, <5>1
      <4>. QED BY <4>1, <4>2
    <3>3. S \in SUBSET Factory /\ Closed(S, h, n)
      BY <1>0, <1>1, <3>1, <3>2 DEF Closed
    <3>4. W \subseteq S
      BY <3>3, WalkIsLeast
    <3>. QED BY <3>4 DEF V
  <2>3. CASE n[f] \notin V \cup {None}
    <3>. DEFINE S == (V \cap W) \ {f}
    <3>1. {h} \ {None} \subseteq S
      BY <1>1, <2>1, <2>3 DEF Closed
    <3>2. ASSUME NEW g \in S
          PROVE  n[g] \in S \cup {None}
      <4>1. g \in W /\ g # f /\ g \in V /\ n[g] \in W \cup {None} /\ m[g] \in V \cup {None}
        BY <1>1, <2>1 DEF Closed
      <4>. QED BY <1>4, <2>3, <4>1
    <3>3. S \in SUBSET Factory /\ Closed(S, h, n)
      BY <1>1, <3>1, <3>2 DEF Closed
    <3>4. W \subseteq S
      BY <3>3, WalkIsLeast
    <3>. QED BY <3>4 DEF V
  <2>. QED BY <2>2, <2>3
<1>7. Ranked(rank, k, m)
  <2>1. rank \in [Factory -> Nat]
    BY DEF Ranked
  <2>2. ASSUME NEW g \in Walk(k, m), m[g] # None
        PROVE  rank[m[g]] < rank[g]
    <3>1. g \in W /\ g # f /\ g \in Factory
      BY <1>1, <1>5
    <3>2. CASE n[g] = f
      <4>1. m[g] = n[f] /\ n[f] \in Factory
        BY <1>2, <1>4, <2>2, <3>1, <3>2
      <4>2. rank[n[f]] < rank[f] /\ rank[f] < rank[g]
        BY <1>0, <2>2, <3>1, <3>2, <4>1 DEF Ranked
      <4>3. rank[n[f]] \in Nat /\ rank[f] \in Nat /\ rank[g] \in Nat
        BY <1>0, <2>1, <3>1, <4>1
      <4>. QED BY <4>1, <4>2, <4>3
    <3>3. CASE n[g] # f
      BY <1>4, <2>2, <3>1, <3>3 DEF Ranked
    <3>. QED BY <3>2, <3>3
  <2>. QED BY <2>1, <2>2 DEF Ranked
<1>. QED BY <1>3, <1>5, <1>6, <1>7

\* Link and Unlink of one factory.
LEMMA LinkKeepsTheList ==
  ASSUME head \in Factory \cup {None}, next \in [Factory -> Factory \cup {None}],
         \E rank : Ranked(rank, head, next), NEW f \in Factory \ Reached, Link(f)
  PROVE  /\ head' \in Factory \cup {None} /\ next' \in [Factory -> Factory \cup {None}]
         /\ Reached' = Reached \cup {f} /\ \E rank : Ranked(rank, head', next')
<1>1. /\ head' = f /\ next' \in [Factory -> Factory \cup {None}]
      /\ next'[f] = head /\ \A g \in Factory \ {f} : next'[g] = next[g]
  BY DEF Link
<1>2. f \in Factory \ Walk(head, next)
  BY ReachedByWalk
<1>3. PICK rank : Ranked(rank, head, next)
  OBVIOUS
<1>4. Walk(f, next') = Walk(head, next) \cup {f} /\ \E r : Ranked(r, f, next')
  BY <1>1, <1>2, <1>3, LinkAdds
<1>. QED BY <1>1, <1>4, ReachedByWalk

LEMMA UnlinkKeepsTheList ==
  ASSUME head \in Factory \cup {None}, next \in [Factory -> Factory \cup {None}],
         \E rank : Ranked(rank, head, next), NEW f \in Reached, Unlink(f)
  PROVE  /\ head' \in Factory \cup {None} /\ next' \in [Factory -> Factory \cup {None}]
         /\ Reached' = Reached \ {f} /\ \E rank : Ranked(rank, head', next')
<1>1. f \in Walk(head, next) /\ f \in Factory
  BY ReachedByWalk DEF Reached
<1>2. /\ head' = IF head = f THEN next[f] ELSE head
      /\ next' \in [Factory -> Factory \cup {None}]
      /\ \A g \in Walk(head, next) :
           next'[g] = IF next[g] = f /\ g # f THEN next[f] ELSE next[g]
  BY <1>1, ReachedByWalk DEF Unlink, Walk
<1>3. PICK rank : Ranked(rank, head, next)
  OBVIOUS
<1>4. Walk(head', next') = Walk(head, next) \ {f} /\ \E r : Ranked(r, head', next')
  BY <1>1, <1>2, <1>3, UnlinkRemoves
<1>5. head' \in Factory \cup {None}
  BY <1>1, <1>2
<1>. QED BY <1>2, <1>4, <1>5, ReachedByWalk

(* ---- the feeds over the steps of a load ------------------------------------------ *)

LEMMA FeedsStand ==
  ASSUME EventInv, ListInv, UNCHANGED feedVars
  PROVE  EventInv' /\ ListInv'
<1>1. EventInv'
  BY DEF feedVars, EventInv, WalkInv
<1>2. Reached' = Reached
  BY DEF feedVars, Reached
<1>3. ListInv'
  BY <1>2 DEF feedVars, ListInv, ListIsWhole
<1>. QED BY <1>1, <1>3

\* What does not touch the factories.
LEMMA ListStands ==
  ASSUME ListInv, UNCHANGED <<others, linked, head, next, session>>
  PROVE  ListInv'
<1>1. Reached' = Reached
  BY DEF Reached
<1>. QED BY <1>1 DEF ListInv, ListIsWhole

LEMMA EventsStand ==
  ASSUME EventInv, UNCHANGED <<manager, listeners, registered, attached, refused, firing>>
  PROVE  EventInv'
BY DEF EventInv, WalkInv

\* The session of a map has the kit's system only if its factory is linked.
LEMMA MapStartsKeepsList ==
  ASSUME ListInv, NEW hooked, MapStarts(hooked)
  PROVE  ListInv'
<1>1. UNCHANGED <<others, linked, head, next>> /\ session' = Reached
  BY DEF MapStarts
<1>2. Reached' = Reached
  BY <1>1 DEF Reached
<1>3. Kit \in Reached => linked
  BY KitAssumption DEF ListInv, ListIsWhole
<1>. QED BY <1>1, <1>2, <1>3 DEF ListInv, ListIsWhole

LEMMA OtherComesKeepsList ==
  ASSUME ListInv, NEW f \in Other, OtherComes(f)
  PROVE  ListInv'
<1>1. f \in Factory \ Reached /\ f # Kit
  BY KitAssumption DEF ListInv, ListIsWhole, OtherComes, Factory
<1>2. /\ head' \in Factory \cup {None} /\ next' \in [Factory -> Factory \cup {None}]
      /\ Reached' = Reached \cup {f} /\ \E rank : Ranked(rank, head', next')
  BY <1>1, LinkKeepsTheList DEF ListInv, OtherComes
<1>3. UNCHANGED <<linked, session>> /\ others' = others \cup {f}
  BY DEF OtherComes
<1>. QED BY <1>2, <1>3 DEF ListInv, ListIsWhole

LEMMA OtherGoesKeepsList ==
  ASSUME ListInv, NEW f \in Other, OtherGoes(f)
  PROVE  ListInv'
<1>1. f \in Reached /\ f # Kit
  BY KitAssumption DEF ListInv, ListIsWhole, OtherGoes
<1>2. /\ head' \in Factory \cup {None} /\ next' \in [Factory -> Factory \cup {None}]
      /\ Reached' = Reached \ {f} /\ \E rank : Ranked(rank, head', next')
  BY <1>1, UnlinkKeepsTheList DEF ListInv, OtherGoes
<1>3. UNCHANGED linked /\ session' = session \ {f} /\ others' = others \ {f}
  BY DEF OtherGoes
<1>. QED BY <1>1, <1>2, <1>3 DEF ListInv, ListIsWhole

\* The shutdown of the service takes its factory and its system away.
LEMMA UnprecacheKeepsList ==
  ASSUME ListInv, Unprecache, UNCHANGED others
  PROVE  ListInv'
<1>1. CASE ~linked
  <2>1. UNCHANGED <<others, linked, head, next, session>>
    BY <1>1 DEF Unprecache, ListInv
  <2>. QED BY <2>1, ListStands
<1>2. CASE linked
  <2>1. Kit \in Reached /\ Kit \notin others
    BY <1>2, KitAssumption DEF ListInv, ListIsWhole
  <2>2. /\ head' \in Factory \cup {None} /\ next' \in [Factory -> Factory \cup {None}]
        /\ Reached' = Reached \ {Kit} /\ \E rank : Ranked(rank, head', next')
    BY <1>2, <2>1, UnlinkKeepsTheList DEF ListInv, Unprecache
  <2>3. linked' = FALSE /\ session' = session \ {Kit}
    BY <1>2 DEF Unprecache
  <2>. QED BY <1>2, <2>1, <2>2, <2>3 DEF ListInv, ListIsWhole
<1>. QED BY <1>1, <1>2 DEF ListInv

\* A new load starts from what the last one left.
LEMMA FreshServicesKeep ==
  ASSUME EventInv, ListInv, registered = {}, ~linked,
         NEW resolved \in BOOLEAN, NEW signatures \in BOOLEAN,
         FreshServices(resolved, signatures)
  PROVE  EventInv' /\ ListInv'
<1>1. EventInv'
  BY DEF EventInv, WalkInv, FreshServices
<1>2. UNCHANGED <<others, session>> /\ linked' = signatures
  BY DEF FreshServices
<1>3. CASE signatures
  <2>1. Kit \in Factory \ Reached
    BY KitAssumption DEF ListInv, ListIsWhole, Factory
  <2>2. /\ head' \in Factory \cup {None} /\ next' \in [Factory -> Factory \cup {None}]
        /\ Reached' = Reached \cup {Kit} /\ \E rank : Ranked(rank, head', next')
    BY <1>3, <2>1, LinkKeepsTheList DEF ListInv, FreshServices
  <2>. QED BY <1>1, <1>2, <1>3, <2>2 DEF ListInv, ListIsWhole
<1>4. CASE ~signatures
  <2>1. UNCHANGED <<others, linked, head, next, session>>
    BY <1>2, <1>4 DEF FreshServices, ListInv
  <2>. QED BY <1>1, <2>1, ListStands
<1>. QED BY <1>3, <1>4

LEMMA NoServicesKeep ==
  ASSUME EventInv, ListInv, registered = {}, firing = None, ~linked, NoServices
  PROVE  EventInv' /\ ListInv'
<1>1. EventInv'
  BY DEF EventInv, WalkInv, NoServices, NoItems
<1>2. UNCHANGED <<others, linked, head, next, session>>
  BY DEF NoServices, ListInv
<1>. QED BY <1>1, <1>2, ListStands

(* ---- MetamodPluginBase ----------------------------------------------------------- *)

\* The walk of RunDeferred takes the last cleanup.
LEMMA WithoutLast ==
  ASSUME NEW S, NEW s \in Seq(S), s # << >>
  PROVE  LET t == SubSeq(s, 1, Len(s) - 1) IN
           t \in Seq(S) /\ Range(s) = Range(t) \cup {s[Len(s)]} /\ s[Len(s)] \in S
<1>. DEFINE n == Len(s)
            t == SubSeq(s, 1, n - 1)
<1>1. n \in Nat \ {0} /\ DOMAIN s = 1 .. n /\ s[n] \in S
  OBVIOUS
<1>2. t \in Seq(S) /\ DOMAIN t = 1 .. n - 1 /\ \A i \in 1 .. n - 1 : t[i] = s[i]
  <2>1. 1 \in 1 .. Len(s) + 1 /\ n - 1 \in 1 - 1 .. Len(s)
    BY <1>1
  <2>2. t \in Seq(S) /\ Len(t) = n - 1 - 1 + 1 /\ \A i \in 1 .. n - 1 - 1 + 1 : t[i] = s[1 + i - 1]
    BY <2>1, Part
  <2>. QED BY <1>1, <2>2
<1>. HIDE DEF t, n
<1>3. Range(s) = Range(t) \cup {s[n]}
  <2>1. \A i \in 1 .. n : i = n \/ i \in 1 .. n - 1
    BY <1>1
  <2>2. n \in 1 .. n /\ \A i \in 1 .. n - 1 : i \in 1 .. n
    BY <1>1
  <2>. QED BY <1>1, <1>2, <2>1, <2>2 DEF Range
<1>. QED BY <1>1, <1>2, <1>3 DEF t, n

\* What a phase says of the feeds and the requests survives what does not change them.
LEMMA BaseStands ==
  ASSUME BaseInv, UNCHANGED <<phase, deferred, hooks>>, firing' # None => phase = "on",
         phase \in {"off", "stopping"} => registered' = {} /\ ~linked',
         phase = "off" => ~command' /\ working' = {}
  PROVE  BaseInv'
BY DEF BaseInv

LEMMA RunDeferredKeeps ==
  ASSUME ServiceInv, RunDeferred
  PROVE  ServiceInv'
<1>. DEFINE last == deferred[Len(deferred)]
            rest == SubSeq(deferred, 1, Len(deferred) - 1)
<1>1. phase = "deferred" /\ UNCHANGED phase /\ UNCHANGED feedVars
  BY DEF RunDeferred
<1>2. /\ rest \in Seq({"kitHooks", "pluginHook", "farewell"})
      /\ Range(deferred) = Range(rest) \cup {last}
  BY WithoutLast DEF RunDeferred, ServiceInv, BaseInv
<1>3. deferred' = rest
  BY DEF RunDeferred
<1>4. hooks' = CASE last = "kitHooks" -> hooks \ {"kit"}
                 [] last = "pluginHook" -> hooks \ {"plugin"}
                 [] OTHER -> hooks
  BY DEF RunDeferred
<1>5. HttpInv'
  <2>1. (\E r \in Request : Post(r)) \/ UNCHANGED httpVars
    BY DEF RunDeferred
  <2>. QED BY <2>1, HttpStep DEF ServiceInv
<1>6. EventInv' /\ ListInv'
  BY <1>1, FeedsStand DEF ServiceInv
<1>. HIDE DEF last, rest
<1>7. /\ hooks' \subseteq hooks /\ (last = "kitHooks" => "kit" \notin hooks')
      /\ (last = "pluginHook" => "plugin" \notin hooks')
  BY <1>4
<1>9. UNCHANGED <<registered, linked, command, firing>>
  BY <1>1 DEF feedVars
<1>8. BaseInv'
  BY <1>1, <1>2, <1>3, <1>7, <1>9 DEF ServiceInv, BaseInv
<1>. QED BY <1>5, <1>6, <1>8 DEF ServiceInv

LEMMA ShutdownKeeps ==
  ASSUME ServiceInv, Shutdown
  PROVE  ServiceInv'
<1>1. /\ phase' = "stopping" /\ UNCHANGED <<manager, others, deferred, hooks, firing>>
      /\ deferred = << >> /\ Unprecache /\ ForgetEvents /\ Stop /\ firing = None
  BY DEF Shutdown, ServiceInv, BaseInv
<1>2. HttpInv'
  BY <1>1, HttpStep DEF ServiceInv
<1>3. EventInv'
  BY <1>1 DEF ServiceInv, EventInv, WalkInv, ForgetEvents, NotAttached, NoItems
<1>4. ListInv'
  BY <1>1, UnprecacheKeepsList DEF ServiceInv
<1>5. Range(deferred) = {}
  BY <1>1 DEF Range
<1>6. hooks = {}
  BY <1>5 DEF ServiceInv, BaseInv
<1>7. registered' = {} /\ ~linked'
  BY <1>1 DEF ForgetEvents, Unprecache
<1>8. BaseInv'
  BY <1>1, <1>6, <1>7 DEF ServiceInv, BaseInv
<1>. QED BY <1>2, <1>3, <1>4, <1>8 DEF ServiceInv

LEMMA DestroyKeeps ==
  ASSUME ServiceInv, Destroy
  PROVE  ServiceInv'
<1>1. /\ phase = "stopping" /\ phase' = "off" /\ UNCHANGED <<deferred, hooks>>
      /\ StopReturns /\ NoServices
  BY DEF Destroy
<1>2. HttpInv' /\ working' = {}
  BY <1>1, StopReturnsKeeps DEF ServiceInv
<1>3. registered = {} /\ firing = None /\ ~linked /\ hooks = {}
  BY <1>1 DEF ServiceInv, BaseInv
<1>4. EventInv' /\ ListInv'
  BY <1>1, <1>3, NoServicesKeep DEF ServiceInv
<1>5. registered' = {} /\ ~linked' /\ ~command' /\ firing' = None
  BY <1>1, <1>3 DEF NoServices
<1>6. BaseInv'
  BY <1>1, <1>2, <1>3, <1>5 DEF ServiceInv, BaseInv
<1>. QED BY <1>2, <1>4, <1>6 DEF ServiceInv

\* What the plugin asks of the services, with the hooks installed.
LEMMA PluginCallsKeep ==
  ASSUME ServiceInv, PluginCalls
  PROVE  ServiceInv'
<1>1. phase \in {"loading", "on", "unloading"} /\ firing = None
  BY DEF PluginCalls
<1>2. CASE Defer
  <2>1. UNCHANGED <<feedVars, httpVars, phase, hooks>> /\ deferred' = Append(deferred, "farewell")
    BY <1>2 DEF Defer
  <2>2. /\ deferred' \in Seq({"kitHooks", "pluginHook", "farewell"})
        /\ Range(deferred) \subseteq Range(deferred')
    <3>1. /\ deferred' \in Seq({"kitHooks", "pluginHook", "farewell"})
          /\ DOMAIN deferred \subseteq DOMAIN deferred'
          /\ \A i \in DOMAIN deferred : deferred'[i] = deferred[i]
      BY <2>1 DEF ServiceInv, BaseInv
    <3>. QED BY <3>1 DEF Range
  <2>3. HttpInv'
    BY <2>1, HttpStep DEF ServiceInv
  <2>4. EventInv' /\ ListInv'
    BY <2>1, FeedsStand DEF ServiceInv
  <2>5. BaseInv'
    BY <1>1, <2>1, <2>2 DEF ServiceInv, BaseInv, feedVars
  <2>. QED BY <2>3, <2>4, <2>5 DEF ServiceInv
<1>3. ASSUME UNCHANGED <<baseVars, httpVars>>, EventInv', ListInv', firing' = None
      PROVE  ServiceInv'
  <2>1. HttpInv'
    BY <1>3, HttpStep DEF ServiceInv
  <2>2. BaseInv'
    BY <1>1, <1>3, BaseStands DEF ServiceInv, baseVars
  <2>. QED BY <1>3, <2>1, <2>2 DEF ServiceInv
<1>4. ASSUME NEW e \in Event, Listen(e)
      PROVE  EventInv' /\ ListInv' /\ firing' = None
  <2>1. UNCHANGED <<others, linked, head, next, session>>
    BY <1>4 DEF Listen, precacheVars
  <2>. QED BY <1>1, <1>4, <2>1, ListenKeeps, ListStands DEF ServiceInv
<1>5. ASSUME NEW h, RemoveListener(h)
      PROVE  EventInv' /\ ListInv' /\ firing' = None
  <2>1. UNCHANGED <<others, linked, head, next, session>>
    BY <1>5 DEF RemoveListener, precacheVars
  <2>. QED BY <1>1, <1>5, <2>1, RemoveListenerKeeps, ListStands DEF ServiceInv
<1>6. ASSUME NEW path \in Resource, AddResource(path)
      PROVE  EventInv' /\ ListInv' /\ firing' = None
  <2>1. UNCHANGED <<others, linked, head, next, session>> /\ UNCHANGED eventVars
    BY <1>6 DEF AddResource
  <2>. QED BY <1>1, <2>1, EventsStand, ListStands DEF ServiceInv, eventVars
<1>7. CASE (OnChange \/ InstallCommand) /\ UNCHANGED <<baseVars, httpVars>>
  <2>1. UNCHANGED <<others, linked, head, next, session>> /\ UNCHANGED eventVars
    BY <1>7 DEF OnChange, InstallCommand, precacheVars
  <2>2. EventInv' /\ ListInv' /\ firing' = None
    BY <1>1, <2>1, EventsStand, ListStands DEF ServiceInv, eventVars
  <2>. QED BY <1>3, <1>7, <2>2
<1>8. ASSUME NEW r \in Request, Post(r), UNCHANGED <<baseVars, feedVars>>
      PROVE  ServiceInv'
  <2>1. HttpInv'
    BY <1>8, HttpStep DEF ServiceInv
  <2>2. EventInv' /\ ListInv'
    BY <1>8, FeedsStand DEF ServiceInv
  <2>3. BaseInv'
    BY <1>1, <1>8, BaseStands DEF ServiceInv, BaseInv, baseVars, feedVars
  <2>. QED BY <2>1, <2>2, <2>3 DEF ServiceInv
<1>. QED BY <1>2, <1>3, <1>4, <1>5, <1>6, <1>7, <1>8 DEF PluginCalls

\* An event is delivered.
LEMMA EventsKeep ==
  ASSUME ServiceInv, Events
  PROVE  ServiceInv'
<1>1. phase = "on" /\ UNCHANGED <<baseVars, httpVars>>
  BY DEF Events
<1>2. HttpInv'
  BY <1>1, HttpStep DEF ServiceInv
<1>3. ASSUME EventInv', UNCHANGED precacheVars
      PROVE  ServiceInv'
  <2>1. ListInv'
    BY <1>3, ListStands DEF ServiceInv, precacheVars
  <2>2. BaseInv'
    BY <1>1, BaseStands DEF ServiceInv, baseVars
  <2>. QED BY <1>2, <1>3, <2>1, <2>2 DEF ServiceInv
<1>4. CASE EngineFires
  <2>1. UNCHANGED precacheVars
    BY <1>4 DEF EngineFires
  <2>. QED BY <1>3, <1>4, <2>1, EngineFiresKeeps DEF ServiceInv
<1>5. CASE Delivery
  <2>1. UNCHANGED <<manager, listeners, registered, attached, refused, precacheVars>>
    BY <1>5 DEF Delivery
  <2>2. SafeVerbs => WalkInv'
    BY <1>5, <2>1, DeliveryKeepsTheWalk DEF ServiceInv, EventInv, Delivery
  <2>3. EventInv'
    BY <2>1, <2>2 DEF ServiceInv, EventInv
  <2>. QED BY <1>3, <2>1, <2>3
<1>6. CASE ListenerCalls
  <2>1. ASSUME NEW e \in Event, Listen(e), ~SafeVerbs
        PROVE  EventInv' /\ UNCHANGED precacheVars
    BY <2>1, ListenKeeps DEF ServiceInv, Listen
  <2>2. ASSUME NEW h, RemoveListener(h), ~SafeVerbs \/ h # firing.running
        PROVE  EventInv' /\ UNCHANGED precacheVars
    BY <2>2, RemoveListenerKeeps DEF ServiceInv, RemoveListener
  <2>. QED BY <1>3, <1>6, <2>1, <2>2 DEF ListenerCalls, SafeVerbs
<1>. QED BY <1>4, <1>5, <1>6 DEF Events

LEMMA ServiceStep ==
  ASSUME ServiceInv, PluginStep
  PROVE  ServiceInv'
<1>1. ASSUME NEW resolved \in BOOLEAN, NEW signatures \in BOOLEAN, Load(resolved, signatures)
      PROVE  ServiceInv'
  <2>1. /\ phase = "off" /\ FreshServices(resolved, signatures) /\ phase' = "loading"
        /\ hooks' = {"kit", "plugin"} /\ deferred' = << "kitHooks", "pluginHook" >>
        /\ UNCHANGED httpVars
    BY <1>1 DEF Load
  <2>2. HttpInv'
    BY <2>1, HttpStep DEF ServiceInv
  <2>3. registered = {} /\ ~linked
    BY <2>1 DEF ServiceInv, BaseInv
  <2>4. EventInv' /\ ListInv'
    BY <2>1, <2>3, FreshServicesKeep DEF ServiceInv
  <2>5. "kitHooks" \in Range(deferred') /\ "pluginHook" \in Range(deferred')
    <3>1. /\ 1 \in DOMAIN deferred' /\ deferred'[1] = "kitHooks"
          /\ 2 \in DOMAIN deferred' /\ deferred'[2] = "pluginHook"
      BY <2>1
    <3>. QED BY <3>1 DEF Range
  <2>6. deferred' \in Seq({"kitHooks", "pluginHook", "farewell"})
    BY <2>1
  <2>8. firing' = None
    BY <2>1 DEF FreshServices, ServiceInv, BaseInv
  <2>7. BaseInv'
    BY <2>1, <2>5, <2>6, <2>8 DEF BaseInv
  <2>. QED BY <2>2, <2>4, <2>7 DEF ServiceInv
<1>2. ASSUME UNCHANGED <<deferred, hooks, feedVars, httpVars>>, firing = None,
             phase' \in {"on", "unloading", "deferred"}, phase' # "deferred" => "kit" \in hooks
      PROVE  ServiceInv'
  <2>1. HttpInv'
    BY <1>2, HttpStep DEF ServiceInv
  <2>2. EventInv' /\ ListInv'
    BY <1>2, FeedsStand DEF ServiceInv
  <2>3. BaseInv'
    BY <1>2 DEF ServiceInv, BaseInv, feedVars
  <2>. QED BY <2>1, <2>2, <2>3 DEF ServiceInv
<1>3. ASSUME NEW ok \in BOOLEAN, OnLoadReturns(ok)
      PROVE  ServiceInv'
  BY <1>2, <1>3 DEF OnLoadReturns, ServiceInv, BaseInv
<1>4. CASE Unload \/ OnUnloadReturns
  BY <1>2, <1>4 DEF Unload, OnUnloadReturns, ServiceInv, BaseInv
<1>5. CASE GameFrame
  <2>1. /\ phase = "on" /\ UNCHANGED <<baseVars, feedVars>>
        /\ DispatchCompletions \/ Collect \/ Complete \/ StopReturns
    BY <1>5 DEF GameFrame
  <2>2. HttpInv'
    BY <2>1, HttpStep DEF ServiceInv
  <2>3. EventInv' /\ ListInv'
    BY <2>1, FeedsStand DEF ServiceInv
  <2>4. BaseInv'
    BY <2>1, BaseStands DEF ServiceInv, BaseInv, baseVars, feedVars
  <2>. QED BY <2>2, <2>3, <2>4 DEF ServiceInv
<1>6. CASE Hook_StartupServer
  <2>1. phase \in {"off", "on"} /\ MapStarts("kit" \in hooks) /\ UNCHANGED <<baseVars, httpVars>>
    BY <1>6 DEF Hook_StartupServer
  <2>2. HttpInv'
    BY <2>1, HttpStep DEF ServiceInv
  <2>3. ("kit" \in hooks) \in BOOLEAN /\ (registered # {} => "kit" \in hooks)
    BY <2>1 DEF ServiceInv, BaseInv
  <2>4. EventInv' /\ ListInv'
    BY <2>1, <2>3, MapStartsKeepsEvents, MapStartsKeepsList DEF ServiceInv
  <2>5. UNCHANGED <<registered, linked, command, working, firing>>
    BY <2>1 DEF MapStarts, consoleVars, httpVars
  <2>6. BaseInv'
    BY <2>1, <2>5 DEF ServiceInv, BaseInv, baseVars
  <2>. QED BY <2>2, <2>4, <2>6 DEF ServiceInv
<1>7. CASE OtherPlugins
  <2>1. UNCHANGED <<baseVars, httpVars>> /\ \E f \in Other : OtherComes(f) \/ OtherGoes(f)
    BY <1>7 DEF OtherPlugins
  <2>2. HttpInv'
    BY <2>1, HttpStep DEF ServiceInv
  <2>3. ListInv'
    BY <2>1, OtherComesKeepsList, OtherGoesKeepsList DEF ServiceInv
  <2>4. UNCHANGED <<eventVars, linked, consoleVars>>
    BY <2>1 DEF OtherComes, OtherGoes
  <2>5. EventInv'
    BY <2>4, EventsStand DEF ServiceInv, eventVars
  <2>6. BaseInv'
    BY <2>1, <2>4 DEF ServiceInv, BaseInv, baseVars, httpVars, eventVars, consoleVars
  <2>. QED BY <2>2, <2>3, <2>5, <2>6 DEF ServiceInv
<1>8. ASSUME NEW r \in Request, Worker(r)
      PROVE  ServiceInv'
  <2>1. Answer(r) /\ UNCHANGED <<baseVars, feedVars>>
    BY <1>8 DEF Worker
  <2>2. HttpInv'
    BY <2>1, HttpStep DEF ServiceInv
  <2>3. EventInv' /\ ListInv'
    BY <2>1, FeedsStand DEF ServiceInv
  <2>4. working' \subseteq working
    BY <2>1 DEF Answer
  <2>5. BaseInv'
    BY <2>1, <2>4 DEF ServiceInv, BaseInv, baseVars, feedVars
  <2>. QED BY <2>2, <2>3, <2>5 DEF ServiceInv
<1>. QED BY <1>1, <1>3, <1>4, <1>5, <1>6, <1>7, <1>8, RunDeferredKeeps, ShutdownKeeps,
            DestroyKeeps, PluginCallsKeep, EventsKeep DEF PluginStep, Teardown

LEMMA ServiceStutters ==
  ASSUME ServiceInv, UNCHANGED <<feedVars, httpVars, baseVars>>
  PROVE  ServiceInv'
<1>1. HttpInv'
  BY HttpStep DEF ServiceInv
<1>2. EventInv' /\ ListInv'
  BY FeedsStand DEF ServiceInv
<1>3. BaseInv'
  BY DEF ServiceInv, BaseInv, baseVars, feedVars, httpVars
<1>. QED BY <1>1, <1>2, <1>3 DEF ServiceInv

(* ---- Migrator: what a step of one run leaves of the others ------------------------ *)

\* A step of the run s leaves the other runs where they are.
Elsewhere(s) ==
  /\ DOMAIN at' = Server /\ DOMAIN dir' = Server /\ DOMAIN todo' = Server
  /\ DOMAIN current' = Server /\ DOMAIN broken' = Server /\ DOMAIN result' = Server
  /\ \A t \in Server \ {s} :
       /\ at'[t] = at[t] /\ dir'[t] = dir[t] /\ todo'[t] = todo[t]
       /\ current'[t] = current[t] /\ broken'[t] = broken[t] /\ result'[t] = result[t]

\* Who changes the table has the lock, and who gives it away had it.
LEMMA OthersKeep ==
  ASSUME MigratorInv, NEW s \in Server, Elsewhere(s), TableInv', Sound(s)',
         \/ UNCHANGED <<rows, ran>>
         \/ holder = s /\ rows \subseteq rows' /\ Range(ran) \subseteq Range(ran'),
         holder' = holder \/ holder \in {s, Missing}
  PROVE  MigratorInv'
<1>1. ASSUME NEW t \in Server \ {s}
      PROVE  Sound(t)'
  <2>1. /\ at'[t] = at[t] /\ dir'[t] = dir[t] /\ todo'[t] = todo[t]
        /\ current'[t] = current[t] /\ broken'[t] = broken[t] /\ result'[t] = result[t]
    BY DEF Elsewhere
  <2>2. Sound(t)
    BY DEF MigratorInv
  <2>3. RunTypes(t)' /\ InOrder(t)'
    BY <2>1, <2>2 DEF Sound, RunTypes, InOrder, Running
  <2>4. HasLock(t)'
    BY <2>1, <2>2, MissingAssumption DEF Sound, HasLock
  <2>5. rows \subseteq rows' /\ Range(ran) \subseteq Range(ran')
    OBVIOUS
  <2>6. Done(t) => Done(t)'
    BY <2>1, <2>5 DEF Done
  <2>7. Excused(t)' = Excused(t)
    BY <2>1 DEF Excused
  <2>8. Applying(t)' /\ Finishing(t)'
    <3>1. CASE UNCHANGED <<rows, ran>>
      BY <2>1, <2>2, <2>6, <2>7, <3>1 DEF Sound, Applying, Finishing
    <3>2. CASE holder = s
      BY <2>1, <2>2, <3>2 DEF Sound, HasLock, Applying, Finishing
    <3>. QED BY <3>1, <3>2
  <2>9. Reporting(t)'
    BY <2>1, <2>2, <2>6, <2>7 DEF Sound, Reporting
  <2>. QED BY <2>3, <2>4, <2>8, <2>9 DEF Sound
<1>2. \A t \in Server : Sound(t)'
  BY <1>1
<1>. QED BY <1>2 DEF MigratorInv, Elsewhere

LEMMA TableStands ==
  ASSUME TableInv, UNCHANGED <<rows, ran>>
  PROVE  TableInv'
BY DEF TableInv, MigrationsRunOnce

\* A commit beyond the latest version keeps the order.
LEMMA CommitKeepsTable ==
  ASSUME TableInv, NEW f \in File, Version(f) \notin rows, f \notin Unreadable,
         \A w \in rows : w <= Version(f), Committed(f)
  PROVE  /\ TableInv'
         /\ rows' = rows \cup {Version(f)} /\ Range(ran') = Range(ran) \cup {f}
<1>1. rows' = rows \cup {Version(f)} /\ ran' = Append(ran, f)
  BY DEF Committed
<1>2. Version(f) \in Nat \ {0} /\ rows \subseteq Nat \ {0} /\ ran \in Seq(File)
  BY VersionAssumption DEF Version, TableInv
<1>3. /\ ran' \in Seq(File) /\ Len(ran) \in Nat
      /\ DOMAIN ran = 1 .. Len(ran) /\ DOMAIN ran' = 1 .. Len(ran) + 1
      /\ ran'[Len(ran) + 1] = f
      /\ \A i \in 1 .. Len(ran) : ran'[i] = ran[i]
  BY <1>1, <1>2
<1>4. Range(ran') = Range(ran) \cup {f}
  BY <1>3 DEF Range
<1>5. rows' = {Version(g) : g \in Range(ran')}
  BY <1>1, <1>4 DEF TableInv, MigrationsRunOnce
<1>6. ASSUME NEW i \in DOMAIN ran', NEW j \in DOMAIN ran', i < j
      PROVE  Version(ran'[i]) < Version(ran'[j])
  <2>1. i \in 1 .. Len(ran) /\ ran'[i] = ran[i]
    BY <1>3, <1>6
  <2>2. CASE j \in 1 .. Len(ran)
    <3>1. ran'[j] = ran[j] /\ i \in DOMAIN ran /\ j \in DOMAIN ran
      BY <1>3, <2>1, <2>2
    <3>. QED BY <1>6, <2>1, <3>1 DEF TableInv, MigrationsRunOnce
  <2>3. CASE j = Len(ran) + 1
    <3>1. Version(ran[i]) \in rows
      BY <1>3, <2>1 DEF TableInv, MigrationsRunOnce, Range
    <3>2. Version(ran[i]) <= Version(f) /\ Version(ran[i]) # Version(f) /\ Version(ran[i]) \in Nat
      BY <1>2, <3>1
    <3>. QED BY <1>2, <1>3, <2>1, <2>3, <3>2
  <2>. QED BY <1>3, <2>2, <2>3
<1>7. \E v \in rows' : \A w \in rows' : w <= v
  BY <1>1, <1>2
<1>. QED BY <1>1, <1>2, <1>3, <1>4, <1>5, <1>6, <1>7 DEF TableInv, MigrationsRunOnce

\* The latest version is the greatest.
LEMMA LatestIsGreatest ==
  ASSUME TableInv
  PROVE  Latest \in rows \cup {0} /\ Latest \in Nat /\ \A w \in rows : w <= Latest
<1>1. CASE rows = {}
  BY <1>1 DEF Latest
<1>2. CASE rows # {}
  <2>1. \E v \in rows : \A w \in rows : w <= v
    BY <1>2 DEF TableInv
  <2>2. Latest = CHOOSE v \in rows : \A w \in rows : w <= v
    BY <1>2 DEF Latest
  <2>3. Latest \in rows /\ \A w \in rows : w <= Latest
    BY <2>1, <2>2
  <2>. QED BY <2>3 DEF TableInv
<1>. QED BY <1>1, <1>2

\* The file at hand, and what the loop has left once it is through.
LEMMA AtHand ==
  ASSUME MigratorInv, NEW s \in Server, Running(s), todo[s] # << >>
  PROVE  LET f == Head(todo[s])  rest == Tail(todo[s]) IN
         /\ f \in File /\ f \in dir[s] /\ f \in Range(todo[s]) /\ Version(f) \in Nat \ {0}
         /\ rest \in Seq(File) /\ IsInjective(rest) /\ Range(rest) = Range(todo[s]) \ {f}
         /\ \A i, j \in DOMAIN rest : i < j => Version(rest[i]) <= Version(rest[j])
         /\ \A g \in Range(rest) : Version(f) <= Version(g)
<1>. DEFINE fs == todo[s]
            f == Head(fs)
            rest == Tail(fs)
<1>1. /\ fs \in Seq(File) /\ IsInjective(fs) /\ Range(fs) \subseteq dir[s] /\ dir[s] \subseteq File
      /\ \A i, j \in DOMAIN fs : i < j => Version(fs[i]) <= Version(fs[j])
  BY DEF MigratorInv, Sound, RunTypes, InOrder
<1>2. fs # << >>
  OBVIOUS
<1>. HIDE DEF fs
<1>3. /\ rest \in Seq(File) /\ IsInjective(rest)
      /\ f \in Range(fs) /\ Range(rest) = Range(fs) \ {f}
  BY <1>1, <1>2, WithoutFirst
<1>4. /\ Len(fs) \in Nat \ {0} /\ DOMAIN fs = 1 .. Len(fs) /\ DOMAIN rest = 1 .. Len(fs) - 1
      /\ f = fs[1] /\ \A i \in 1 .. Len(fs) - 1 : rest[i] = fs[i + 1]
  BY <1>1, <1>2
<1>. HIDE DEF f, rest
<1>5. ASSUME NEW i \in DOMAIN rest, NEW j \in DOMAIN rest, i < j
      PROVE  Version(rest[i]) <= Version(rest[j])
  <2>1. /\ i + 1 \in DOMAIN fs /\ j + 1 \in DOMAIN fs /\ i + 1 < j + 1
        /\ rest[i] = fs[i + 1] /\ rest[j] = fs[j + 1]
    BY <1>4, <1>5
  <2>2. Version(fs[i + 1]) <= Version(fs[j + 1])
    BY <1>1, <2>1
  <2>. QED BY <2>1, <2>2
<1>6. ASSUME NEW g \in Range(rest)
      PROVE  Version(f) <= Version(g)
  <2>1. PICK i \in DOMAIN rest : g = rest[i]
    BY DEF Range
  <2>2. 1 \in DOMAIN fs /\ i + 1 \in DOMAIN fs /\ 1 < i + 1 /\ g = fs[i + 1]
    BY <1>4, <2>1
  <2>. QED BY <1>1, <1>4, <2>2
<1>7. f \in File /\ f \in dir[s] /\ Version(f) \in Nat \ {0}
  BY <1>1, <1>3, VersionAssumption DEF Version
<1>. QED BY <1>3, <1>5, <1>6, <1>7 DEF f, rest, fs

(* ---- Migrator: the steps of a run --------------------------------------------------- *)

LEMMA EndsEarlyKeeps ==
  ASSUME MigratorInv, NEW s \in Server, NEW success \in BOOLEAN,
         ~Running(s), EndsEarly(s, success),
         current' = [current EXCEPT ![s] = 0], broken' = [broken EXCEPT ![s] = FALSE],
         UNCHANGED <<rows, ran, holder>>
  PROVE  MigratorInv'
<1>1. Elsewhere(s)
  BY DEF Elsewhere, EndsEarly, MigratorInv
<1>2. TableInv'
  BY TableStands DEF MigratorInv
<1>3. /\ at'[s] = "ended" /\ dir'[s] = Missing /\ todo'[s] = todo[s]
      /\ current'[s] = 0 /\ broken'[s] \in BOOLEAN /\ ~broken'[s]
      /\ result'[s] = [Nothing EXCEPT !.success = success]
  BY DEF EndsEarly, MigratorInv
<1>4. result'[s] \in [success : BOOLEAN, applied : Nat, version : Nat]
  BY <1>3 DEF Nothing
<1>5. todo[s] \in Seq(File)
  BY DEF MigratorInv, Sound, RunTypes
<1>6. RunTypes(s)'
  <2>1. ~Running(s)' /\ 0 \in Nat
    BY <1>3 DEF Running
  <2>. QED BY <1>3, <1>4, <1>5, <2>1 DEF RunTypes
<1>7. InOrder(s)' /\ HasLock(s)' /\ Applying(s)' /\ Finishing(s)' /\ Reporting(s)'
  BY <1>3 DEF InOrder, HasLock, Applying, Finishing, Reporting, Running
<1>. QED BY <1>1, <1>2, <1>6, <1>7, OthersKeep DEF Sound

\* A sorted directory is a sequence of its files.
LEMMA SortedIsOrdered ==
  ASSUME NEW d \in Dirs \ {Missing}, NEW fs \in Sorted(d)
  PROVE  /\ d \subseteq File /\ fs \in Seq(File) /\ Range(fs) = d /\ IsInjective(fs)
         /\ \A i, j \in DOMAIN fs : i < j => Version(fs[i]) <= Version(fs[j])
<1>1. d \subseteq File /\ IsFiniteSet(d)
  BY DirsAssumption
<1>2. Cardinality(d) \in Nat
  BY <1>1, FS_CardinalityType
<1>3. /\ fs \in [1 .. Cardinality(d) -> d] /\ IsInjective(fs)
      /\ \A f \in d : \E i \in 1 .. Cardinality(d) : fs[i] = f
      /\ \A i, j \in DOMAIN fs : i < j => Version(fs[i]) <= Version(fs[j])
  BY DEF Sorted, Bijection, Injection, Surjection, IsInjective
<1>4. Range(fs) = d
  BY <1>3 DEF Range
<1>5. fs \in Seq(File)
  BY <1>1, <1>2, <1>3
<1>. QED BY <1>1, <1>3, <1>4, <1>5

LEMMA RunMigrationsKeeps ==
  ASSUME MigratorInv, NEW s \in Server, RunMigrations(s)
  PROVE  MigratorInv'
<1>1. /\ ~Running(s) /\ UNCHANGED <<rows, ran, holder>>
      /\ current' = [current EXCEPT ![s] = 0] /\ broken' = [broken EXCEPT ![s] = FALSE]
  BY DEF RunMigrations
<1>2. ASSUME NEW d \in Dirs \ {Missing}, NEW fs \in Sorted(d),
             dir' = [dir EXCEPT ![s] = d], at' = [at EXCEPT ![s] = "table"],
             result' = [result EXCEPT ![s] = Nothing], todo' = [todo EXCEPT ![s] = fs]
      PROVE  MigratorInv'
  <2>1. Elsewhere(s)
    BY <1>1, <1>2 DEF Elsewhere, MigratorInv
  <2>2. TableInv'
    BY <1>1, TableStands DEF MigratorInv
  <2>3. /\ at'[s] = "table" /\ dir'[s] = d /\ todo'[s] = fs
        /\ current'[s] = 0 /\ broken'[s] \in BOOLEAN /\ ~broken'[s] /\ result'[s] = Nothing
    BY <1>1, <1>2 DEF MigratorInv
  <2>4. /\ d \subseteq File /\ fs \in Seq(File) /\ Range(fs) = d /\ IsInjective(fs)
        /\ \A i, j \in DOMAIN fs : i < j => Version(fs[i]) <= Version(fs[j])
    BY SortedIsOrdered
  <2>5. RunTypes(s)' /\ InOrder(s)'
    <3>1. /\ result'[s] \in [success : BOOLEAN, applied : Nat, version : Nat]
          /\ ~result'[s].success
      BY <2>3 DEF Nothing
    <3>2. RunTypes(s)'
      BY <2>3, <2>4, <3>1 DEF RunTypes
    <3>3. InOrder(s)'
      BY <2>3, <2>4 DEF InOrder
    <3>. QED BY <3>2, <3>3
  <2>6. HasLock(s)' /\ Applying(s)' /\ Finishing(s)' /\ Reporting(s)'
    BY <2>3 DEF HasLock, Applying, Finishing, Reporting
  <2>. QED BY <1>1, <2>1, <2>2, <2>5, <2>6, OthersKeep DEF Sound
<1>3. ASSUME NEW success \in BOOLEAN, EndsEarly(s, success)
      PROVE  MigratorInv'
  BY <1>1, <1>3, EndsEarlyKeeps
<1>. QED BY <1>2, <1>3 DEF RunMigrations

LEMMA CreateTableKeeps ==
  ASSUME MigratorInv, NEW s \in Server, CreateTable(s)
  PROVE  MigratorInv'
<1>1. Elsewhere(s) /\ at[s] = "table" /\ at'[s] = "lock"
      /\ UNCHANGED <<dir, todo, current, broken, result, rows, ran, holder>>
  BY DEF Elsewhere, CreateTable, MigratorInv
<1>2. TableInv'
  BY <1>1, TableStands DEF MigratorInv
<1>3. Sound(s)'
  BY <1>1 DEF MigratorInv, Sound, RunTypes, InOrder, HasLock, Applying, Finishing, Reporting, Running
<1>. QED BY <1>1, <1>2, <1>3, OthersKeep

LEMMA LockKeeps ==
  ASSUME MigratorInv, NEW s \in Server, Lock(s)
  PROVE  MigratorInv'
<1>1. Elsewhere(s) /\ at[s] = "lock" /\ at'[s] = "current" /\ holder' = s
      /\ UNCHANGED <<dir, todo, current, broken, result, rows, ran>>
  BY DEF Elsewhere, Lock, MigratorInv
<1>2. TableInv'
  BY <1>1, TableStands DEF MigratorInv
<1>3. Sound(s)'
  BY <1>1 DEF MigratorInv, Sound, RunTypes, InOrder, HasLock, Applying, Finishing, Reporting, Running
<1>4. holder = Missing
  BY DEF Lock
<1>. QED BY <1>1, <1>2, <1>3, <1>4, OthersKeep

\* The run reads the table under the lock, and knows it from then on.
LEMMA ReadCurrentKeeps ==
  ASSUME MigratorInv, NEW s \in Server, ReadCurrent(s)
  PROVE  MigratorInv'
<1>. DEFINE v == Latest
<1>1. /\ Elsewhere(s) /\ at[s] = "current" /\ at'[s] = "files"
      /\ current'[s] = v /\ result' = [result EXCEPT ![s].version = v]
      /\ UNCHANGED <<dir, todo, broken, rows, ran, holder>>
  BY DEF Elsewhere, ReadCurrent, MigratorInv
<1>2. TableInv'
  BY <1>1, TableStands DEF MigratorInv
<1>3. v \in rows \cup {0} /\ v \in Nat /\ \A w \in rows : w <= v
  BY LatestIsGreatest DEF MigratorInv
<1>. HIDE DEF v
<1>4. RunTypes(s) /\ InOrder(s) /\ HasLock(s) /\ DOMAIN result = Server
  BY DEF MigratorInv, Sound
<1>5. result'[s].version = v /\ result'[s] \in [success : BOOLEAN, applied : Nat, version : Nat]
      /\ result'[s].success = result[s].success
  BY <1>1, <1>3, <1>4 DEF RunTypes
<1>6. RunTypes(s)' /\ InOrder(s)' /\ HasLock(s)'
  BY <1>1, <1>3, <1>4, <1>5 DEF RunTypes, InOrder, HasLock, Running
<1>7. Range(todo[s]) = dir[s] /\ dir[s] \subseteq File
  BY <1>1, <1>4 DEF RunTypes, InOrder, Running
<1>8. \A f \in dir[s] : Version(f) \in Nat
  BY <1>7, VersionAssumption DEF Version
<1>9. Applying(s)'
  BY <1>1, <1>3, <1>5, <1>7, <1>8 DEF Applying
<1>10. Finishing(s)' /\ Reporting(s)'
  BY <1>1 DEF Finishing, Reporting
<1>. QED BY <1>1, <1>2, <1>6, <1>9, <1>10, OthersKeep DEF Sound

LEMMA PassOverKeeps ==
  ASSUME MigratorInv, NEW s \in Server, PassOver(s)
  PROVE  MigratorInv'
<1>. DEFINE f == Head(todo[s])
            rest == Tail(todo[s])
<1>1. /\ Elsewhere(s) /\ at[s] = "files" /\ todo[s] # << >> /\ todo'[s] = rest
      /\ ~(Version(f) > current[s])
      /\ UNCHANGED <<at, dir, current, broken, result, rows, ran, holder>>
  BY DEF Elsewhere, PassOver, Due, MigratorInv
<1>2. TableInv'
  BY <1>1, TableStands DEF MigratorInv
<1>3. /\ f \in dir[s] /\ f \in Range(todo[s]) /\ Version(f) \in Nat \ {0}
      /\ rest \in Seq(File) /\ IsInjective(rest) /\ Range(rest) = Range(todo[s]) \ {f}
      /\ \A i, j \in DOMAIN rest : i < j => Version(rest[i]) <= Version(rest[j])
  BY <1>1, AtHand DEF Running
<1>. HIDE DEF f, rest
<1>4. RunTypes(s) /\ InOrder(s) /\ HasLock(s) /\ Applying(s)
  BY DEF MigratorInv, Sound
<1>5. RunTypes(s)' /\ InOrder(s)' /\ HasLock(s)'
  BY <1>1, <1>3, <1>4 DEF RunTypes, InOrder, HasLock, Running
<1>6. current[s] \in Nat /\ result[s].version \in Nat
  BY <1>4 DEF RunTypes
<1>7. Version(f) <= result[s].version
  BY <1>1, <1>3, <1>4, <1>6 DEF Applying
<1>8. Applying(s)'
  BY <1>1, <1>3, <1>4, <1>7 DEF Applying
<1>9. Finishing(s)' /\ Reporting(s)'
  BY <1>1 DEF Finishing, Reporting
<1>. QED BY <1>1, <1>2, <1>5, <1>8, <1>9, OthersKeep DEF Sound

\* A file that is due is beyond everything in the table, or its version is there already because
\* of another file of the same version.
LEMMA DueIsBeyond ==
  ASSUME MigratorInv, NEW s \in Server, at[s] = "files", todo[s] # << >>, Due(s)
  PROVE  LET f == Head(todo[s]) IN
         /\ result[s].version <= Version(f)
         /\ \A w \in rows : w <= Version(f)
         /\ Version(f) \in rows => Excused(s)
<1>. DEFINE f == Head(todo[s])
<1>1. f \in dir[s] /\ f \in Range(todo[s]) /\ Version(f) \in Nat \ {0}
  BY AtHand DEF Running
<1>2. Version(f) > current[s]
  BY DEF Due
<1>. HIDE DEF f
<1>3. current[s] \in Nat /\ result[s].version \in Nat /\ rows \subseteq Nat
  BY DEF MigratorInv, Sound, RunTypes, TableInv
<1>4. Applying(s)
  BY DEF MigratorInv, Sound
<1>5. result[s].version <= Version(f)
  BY <1>1, <1>2, <1>3, <1>4 DEF Applying
<1>6. \A w \in rows : w <= result[s].version
  BY <1>4 DEF Applying
<1>7. \A w \in rows : w <= Version(f)
  BY <1>1, <1>3, <1>5, <1>6
<1>8. ASSUME Version(f) \in rows
      PROVE  Excused(s)
  <2>1. PICK g \in dir[s] \ Range(todo[s]) : Version(g) = Version(f)
    BY <1>1, <1>2, <1>3, <1>4, <1>8 DEF Applying
  <2>. QED BY <1>1, <2>1 DEF Excused
<1>. QED BY <1>5, <1>7, <1>8 DEF f

LEMMA ApplyFileKeeps ==
  ASSUME MigratorInv, NEW s \in Server, ApplyFile(s), Unreadable = {}
  PROVE  MigratorInv'
<1>. DEFINE f == Head(todo[s])
            rest == Tail(todo[s])
<1>1. /\ at[s] = "files" /\ todo[s] # << >> /\ Due(s) /\ Version(f) > current[s]
      /\ UNCHANGED <<dir, current, broken, holder>>
  BY DEF ApplyFile, Due
<1>2. /\ f \in File /\ f \in dir[s] /\ f \in Range(todo[s]) /\ Version(f) \in Nat \ {0}
      /\ rest \in Seq(File) /\ IsInjective(rest) /\ Range(rest) = Range(todo[s]) \ {f}
      /\ \A i, j \in DOMAIN rest : i < j => Version(rest[i]) <= Version(rest[j])
      /\ \A g \in Range(rest) : Version(f) <= Version(g)
  BY <1>1, AtHand DEF Running
<1>3. /\ result[s].version <= Version(f) /\ \A w \in rows : w <= Version(f)
      /\ Version(f) \in rows => Excused(s)
  BY <1>1, DueIsBeyond
<1>4. RunTypes(s) /\ InOrder(s) /\ HasLock(s) /\ Applying(s) /\ TableInv
  BY DEF MigratorInv, Sound
<1>5. CASE /\ Commits(f) /\ Committed(f) /\ UNCHANGED at
           /\ result' = [result EXCEPT ![s].applied = @ + 1, ![s].version = Version(f)]
           /\ todo' = [todo EXCEPT ![s] = rest]
  <2>. HIDE DEF f, rest
  <2>1. Elsewhere(s) /\ todo'[s] = rest
    BY <1>1, <1>5 DEF Elsewhere, MigratorInv
  <2>2. /\ TableInv' /\ rows' = rows \cup {Version(f)} /\ Range(ran') = Range(ran) \cup {f}
    BY <1>2, <1>3, <1>4, <1>5, CommitKeepsTable DEF Commits
  <2>3. /\ result'[s].version = Version(f) /\ result'[s].success = result[s].success
        /\ result'[s] \in [success : BOOLEAN, applied : Nat, version : Nat]
    <3>1. result[s] \in [success : BOOLEAN, applied : Nat, version : Nat] /\ DOMAIN result = Server
      BY <1>4 DEF RunTypes, MigratorInv
    <3>2. result'[s] = [result[s] EXCEPT !.applied = result[s].applied + 1, !.version = Version(f)]
      BY <1>5, <3>1
    <3>3. Version(f) \in Nat /\ result[s].applied + 1 \in Nat
      BY <1>2, <3>1
    <3>. QED BY <3>1, <3>2, <3>3
  <2>4. RunTypes(s)' /\ InOrder(s)' /\ HasLock(s)'
    BY <1>1, <1>2, <1>4, <1>5, <2>1, <2>3 DEF RunTypes, InOrder, HasLock, Running
  <2>5. current[s] \in Nat /\ result[s].version \in Nat
    BY <1>4 DEF RunTypes
  <2>6. \A g \in dir[s] : Version(g) \in Nat
    BY <1>1, <1>4, VersionAssumption DEF RunTypes, Running, Version
  <2>7. Applying(s)'
    <3>1. Version(f) \in rows' \cup {0} /\ current[s] <= Version(f) /\ \A w \in rows' : w <= Version(f)
      BY <1>1, <1>2, <1>3, <2>2, <2>5
    <3>2. ASSUME NEW w \in rows'
          PROVE  w <= current[s] \/ \E g \in dir[s] \ Range(rest) : Version(g) = w
      <4>1. CASE w = Version(f)
        BY <1>2, <4>1
      <4>2. CASE w \in rows
        BY <1>1, <1>2, <1>4, <4>2 DEF Applying
      <4>. QED BY <2>2, <4>1, <4>2
    <3>3. \A g \in Range(rest) : Version(g) <= current[s] \/ Version(g) >= Version(f)
      <4>1. Range(rest) \subseteq dir[s]
        BY <1>1, <1>2, <1>4 DEF InOrder, Running
      <4>. QED BY <1>2, <2>6, <4>1
    <3>4. ASSUME NEW g \in dir[s] \ Range(rest)
          PROVE  Version(g) <= Version(f) /\ (Version(g) > current[s] => g \in Range(ran'))
      <4>1. CASE g = f
        BY <1>2, <2>2, <4>1
      <4>2. CASE g # f
        <5>1. /\ Version(g) <= result[s].version
              /\ Version(g) > current[s] => g \in Range(ran)
          BY <1>1, <1>2, <1>4, <4>2 DEF Applying
        <5>. QED BY <1>2, <1>3, <2>2, <2>5, <2>6, <5>1
      <4>. QED BY <4>1, <4>2
    <3>. QED BY <1>1, <2>1, <2>3, <3>1, <3>2, <3>3, <3>4 DEF Applying
  <2>8. Finishing(s)' /\ Reporting(s)'
    BY <1>1, <1>5 DEF Finishing, Reporting
  <2>9. holder = s
    BY <1>1, <1>4 DEF HasLock
  <2>10. rows \subseteq rows' /\ Range(ran) \subseteq Range(ran') /\ holder' = holder
    BY <1>1, <2>2
  <2>. QED BY <2>1, <2>2, <2>4, <2>7, <2>8, <2>9, <2>10, OthersKeep DEF Sound
<1>6. CASE ~Commits(f) /\ at' = [at EXCEPT ![s] = "unlock"] /\ UNCHANGED <<todo, result, rows, ran>>
  <2>. HIDE DEF f, rest
  <2>1. Elsewhere(s) /\ at'[s] = "unlock"
    BY <1>1, <1>6 DEF Elsewhere, MigratorInv
  <2>2. TableInv'
    BY <1>4, <1>6, TableStands
  <2>3. RunTypes(s)' /\ InOrder(s)' /\ HasLock(s)'
    BY <1>1, <1>4, <1>6, <2>1 DEF RunTypes, InOrder, HasLock, Running
  <2>4. Excused(s)
    BY <1>2, <1>3, <1>6 DEF Commits, Excused
  <2>5. Excused(s)'
    BY <1>1, <2>4 DEF Excused
  <2>6. Applying(s)' /\ Finishing(s)' /\ Reporting(s)'
    BY <1>1, <1>6, <2>1, <2>5 DEF Applying, Finishing, Reporting
  <2>. QED BY <1>1, <1>6, <2>1, <2>2, <2>3, <2>6, OthersKeep DEF Sound
<1>. QED BY <1>5, <1>6 DEF ApplyFile, MigratorInv

\* Through all its files, the run has applied what was new.
LEMMA LastFileKeeps ==
  ASSUME MigratorInv, NEW s \in Server, LastFile(s)
  PROVE  MigratorInv'
<1>1. /\ Elsewhere(s) /\ at[s] = "files" /\ todo[s] = << >> /\ at'[s] = "unlock"
      /\ UNCHANGED <<dir, todo, current, broken, result, rows, ran, holder>>
  BY DEF Elsewhere, LastFile, MigratorInv
<1>2. TableInv'
  BY <1>1, TableStands DEF MigratorInv
<1>3. RunTypes(s) /\ InOrder(s) /\ HasLock(s) /\ Applying(s)
  BY DEF MigratorInv, Sound
<1>4. RunTypes(s)' /\ InOrder(s)' /\ HasLock(s)'
  BY <1>1, <1>3 DEF RunTypes, InOrder, HasLock, Running
<1>5. Range(todo[s]) = {}
  BY <1>1 DEF Range
<1>6. Done(s)
  BY <1>1, <1>3, <1>5 DEF Applying, Done
<1>7. Done(s)'
  BY <1>1, <1>6 DEF Done
<1>8. Applying(s)' /\ Finishing(s)' /\ Reporting(s)'
  BY <1>1, <1>7 DEF Applying, Finishing, Reporting
<1>. QED BY <1>1, <1>2, <1>4, <1>8, OthersKeep DEF Sound

LEMMA UnlockKeeps ==
  ASSUME MigratorInv, NEW s \in Server, Unlock(s)
  PROVE  MigratorInv'
<1>1. /\ Elsewhere(s) /\ at[s] = "unlock" /\ ~broken[s] /\ at'[s] = "ended"
      /\ result' = [result EXCEPT ![s].success = todo[s] = << >>]
      /\ holder' = holder \/ holder = s
      /\ UNCHANGED <<dir, todo, current, broken, rows, ran>>
  BY DEF Elsewhere, Unlock, MigratorInv, Released
<1>2. TableInv'
  BY <1>1, TableStands DEF MigratorInv
<1>3. RunTypes(s) /\ Finishing(s) /\ DOMAIN result = Server
  BY DEF MigratorInv, Sound
<1>4. /\ result'[s].version = result[s].version
      /\ (todo[s] = << >>) \in BOOLEAN /\ result'[s].success = (todo[s] = << >>)
      /\ result'[s] \in [success : BOOLEAN, applied : Nat, version : Nat]
  BY <1>1, <1>3 DEF RunTypes
<1>5. RunTypes(s)' /\ InOrder(s)' /\ HasLock(s)' /\ Applying(s)' /\ Finishing(s)'
  BY <1>1, <1>3, <1>4 DEF RunTypes, InOrder, HasLock, Applying, Finishing, Running
<1>6. (Done(s) => Done(s)') /\ (Excused(s) => Excused(s)')
  BY <1>1, <1>4 DEF Done, Excused
<1>7. Reporting(s)'
  BY <1>1, <1>3, <1>4, <1>6 DEF Finishing, Reporting
<1>. QED BY <1>1, <1>2, <1>5, <1>7, OthersKeep DEF Sound

\* A run that falls over, with the commit of its file or without it.
LEMMA FailsKeeps ==
  ASSUME MigratorInv, NEW s \in Server, Fails(s), Unreadable = {}
  PROVE  MigratorInv'
<1>1. /\ Elsewhere(s) /\ Running(s) /\ at'[s] \in {"unlock", "ended"}
      /\ at'[s] = "unlock" => at[s] = "files"
      /\ broken'[s] \in BOOLEAN /\ broken'[s]
      /\ holder' = holder \/ holder = s
      /\ UNCHANGED <<dir, todo, current, result>>
  BY DEF Elsewhere, Fails, MigratorInv, Released
<1>2. RunTypes(s) /\ InOrder(s) /\ HasLock(s) /\ TableInv
  BY DEF MigratorInv, Sound
<1>3. RunTypes(s)' /\ InOrder(s)' /\ HasLock(s)'
  <2>1. dir[s] \subseteq File /\ ~result[s].success
    BY <1>1, <1>2 DEF RunTypes
  <2>2. RunTypes(s)'
    BY <1>1, <1>2, <2>1 DEF RunTypes
  <2>3. InOrder(s)'
    BY <1>1, <1>2 DEF InOrder
  <2>4. HasLock(s)'
    BY <1>1 DEF HasLock
  <2>. QED BY <2>2, <2>3, <2>4
<1>4. Applying(s)' /\ Finishing(s)' /\ Reporting(s)'
  <2>1. ~result'[s].success
    BY <1>1, <1>2 DEF RunTypes
  <2>. QED BY <1>1, <2>1 DEF Applying, Finishing, Reporting
<1>5. CASE /\ at[s] = "files" /\ todo[s] # << >> /\ Due(s)
           /\ Commits(Head(todo[s])) /\ Committed(Head(todo[s]))
  <2>. DEFINE f == Head(todo[s])
  <2>1. f \in File
    BY <1>1, <1>5, AtHand
  <2>2. \A w \in rows : w <= Version(f)
    BY <1>5, DueIsBeyond
  <2>3. Commits(f) /\ Committed(f)
    BY <1>5
  <2>. HIDE DEF f
  <2>4. TableInv' /\ rows' = rows \cup {Version(f)} /\ Range(ran') = Range(ran) \cup {f}
    BY <1>2, <2>1, <2>2, <2>3, CommitKeepsTable DEF Commits
  <2>5. holder = s
    BY <1>2, <1>5 DEF HasLock
  <2>6. rows \subseteq rows' /\ Range(ran) \subseteq Range(ran')
    BY <2>4
  <2>. QED BY <1>1, <1>3, <1>4, <2>4, <2>5, <2>6, OthersKeep DEF Sound
<1>6. CASE UNCHANGED <<rows, ran>>
  <2>1. TableInv'
    BY <1>2, <1>6, TableStands
  <2>. QED BY <1>1, <1>3, <1>4, <1>6, <2>1, OthersKeep DEF Sound
<1>. QED BY <1>5, <1>6 DEF Fails

LEMMA MigratorStep ==
  ASSUME MigratorInv, MigratorRuns, Unreadable = {}
  PROVE  MigratorInv'
<1>1. PICK s \in Server : Migrates(s) \/ Lock(s) \/ MigrationStep(s) \/ Fails(s)
  BY DEF MigratorRuns
<1>2. CASE Migrates(s)
  BY <1>2, RunMigrationsKeeps DEF Migrates
<1>3. CASE MigrationStep(s)
  BY <1>3, CreateTableKeeps, ReadCurrentKeeps, PassOverKeeps, ApplyFileKeeps, LastFileKeeps,
     UnlockKeeps, FailsKeeps DEF MigrationStep
<1>. QED BY <1>1, <1>2, <1>3, LockKeeps, FailsKeeps

LEMMA MigratorStutters ==
  ASSUME MigratorInv, UNCHANGED migratorVars
  PROVE  MigratorInv'
BY DEF MigratorInv, migratorVars, TableInv, MigrationsRunOnce, Sound, RunTypes, InOrder, HasLock,
       Applying, Finishing, Reporting, Done, Excused, Running

(* ---- types --------------------------------------------------------------------------- *)

\* What PluginTypeOK needs besides: nothing pending or deferred is left for the next load.
TypeInv ==
  /\ nextHandle \in Nat \ {0} /\ DOMAIN listeners \subseteq 1 .. nextHandle - 1
  /\ resources \subseteq Resource /\ manifest \subseteq Resource /\ session \subseteq Factory
  /\ phase \in {"off", "stopping"} => deferred = << >> /\ batch = << >>
  /\ phase = "off" => items = << >>

LEMMA ListenCounts ==
  ASSUME TypeInv, NEW e, Listen(e)
  PROVE  nextHandle' \in Nat \ {0} /\ DOMAIN listeners' \subseteq 1 .. nextHandle' - 1
<1>1. CASE ~manager
  BY <1>1 DEF Listen, eventVars, TypeInv
<1>2. CASE manager
  <2>1. nextHandle' = nextHandle + 1 /\ DOMAIN listeners' = DOMAIN listeners \cup {nextHandle}
    BY <1>2 DEF Listen, Add
  <2>. QED BY <2>1 DEF TypeInv
<1>. QED BY <1>1, <1>2

LEMMA TypesStand ==
  ASSUME TypeInv, UNCHANGED <<nextHandle, listeners, resources, manifest, session>>,
         phase' \in {"off", "stopping"} => deferred' = << >> /\ batch' = << >>,
         phase' = "off" => items' = << >>
  PROVE  TypeInv'
BY DEF TypeInv

LEMMA TypeStep ==
  ASSUME ServiceInv, TypeInv, PluginStep
  PROVE  TypeInv'
<1>1. ASSUME NEW resolved \in BOOLEAN, NEW signatures \in BOOLEAN, Load(resolved, signatures)
      PROVE  TypeInv'
  BY <1>1, TypesStand DEF Load, FreshServices
<1>2. ASSUME NEW ok \in BOOLEAN, OnLoadReturns(ok)
      PROVE  TypeInv'
  BY <1>2, TypesStand DEF OnLoadReturns, feedVars
<1>3. CASE Unload \/ OnUnloadReturns \/ RunDeferred
  BY <1>3, TypesStand DEF Unload, OnUnloadReturns, RunDeferred, feedVars
<1>4. CASE Shutdown
  <2>1. /\ UNCHANGED <<nextHandle, resources, manifest, deferred>> /\ deferred = << >>
        /\ phase' = "stopping" /\ session' \subseteq session /\ listeners' = NoItems
        /\ batch = << >> /\ batch' = batch
    BY <1>4 DEF Shutdown, Unprecache, ForgetEvents, Stop, GameThreadFree
  <2>2. DOMAIN listeners' = {}
    BY <2>1 DEF NoItems
  <2>. QED BY <2>1, <2>2 DEF TypeInv
<1>5. CASE Destroy
  <2>1. /\ UNCHANGED <<deferred, batch, manifest, session>> /\ items' = << >>
        /\ nextHandle' = FirstHandle /\ listeners' = NoItems /\ resources' = {}
        /\ phase = "stopping"
    BY <1>5 DEF Destroy, StopReturns, NoServices
  <2>2. DOMAIN listeners' = {} /\ nextHandle' = 1
    BY <2>1 DEF NoItems, FirstHandle
  <2>. QED BY <2>1, <2>2 DEF TypeInv
<1>6. CASE PluginCalls
  <2>1. phase \in {"loading", "on", "unloading"}
    BY <1>6 DEF PluginCalls
  <2>2. phase' = phase
    BY <1>6 DEF PluginCalls, Defer, baseVars
  <2>3. ASSUME NEW e \in Event, Listen(e)
        PROVE  TypeInv'
    <3>1. UNCHANGED <<resources, manifest, session>>
      BY <2>3 DEF Listen, precacheVars
    <3>. QED BY <2>1, <2>2, <2>3, <3>1, ListenCounts DEF TypeInv
  <2>4. ASSUME NEW h, RemoveListener(h)
        PROVE  TypeInv'
    <3>1. UNCHANGED <<nextHandle, resources, manifest, session>> /\ DOMAIN listeners' \subseteq DOMAIN listeners
      BY <2>4 DEF RemoveListener, precacheVars, Remove, Restrict
    <3>. QED BY <2>1, <2>2, <3>1 DEF TypeInv
  <2>5. ASSUME NEW path \in Resource, AddResource(path)
        PROVE  TypeInv'
    BY <2>1, <2>2, <2>5 DEF AddResource, eventVars, TypeInv
  <2>6. CASE OnChange \/ InstallCommand
    BY <2>1, <2>2, <2>6, TypesStand DEF OnChange, InstallCommand, eventVars, precacheVars
  <2>7. CASE Defer \/ UNCHANGED feedVars
    BY <2>1, <2>2, <2>7, TypesStand DEF Defer, feedVars
  <2>. QED BY <1>6, <2>3, <2>4, <2>5, <2>6, <2>7 DEF PluginCalls
<1>7. CASE GameFrame
  BY <1>7, TypesStand DEF GameFrame, baseVars, feedVars
<1>11. CASE Events
  <2>1. phase = "on" /\ UNCHANGED <<phase, deferred, batch, items>>
    BY <1>11 DEF Events, baseVars, httpVars
  <2>2. CASE EngineFires \/ Delivery
    BY <2>1, <2>2, TypesStand DEF EngineFires, Delivery, precacheVars
  <2>3. ASSUME NEW e \in Event, Listen(e)
        PROVE  TypeInv'
    <3>1. UNCHANGED <<resources, manifest, session>>
      BY <2>3 DEF Listen, precacheVars
    <3>. QED BY <2>1, <2>3, <3>1, ListenCounts DEF TypeInv
  <2>4. ASSUME NEW h, RemoveListener(h)
        PROVE  TypeInv'
    <3>1. UNCHANGED <<nextHandle, resources, manifest, session>> /\ DOMAIN listeners' \subseteq DOMAIN listeners
      BY <2>4 DEF RemoveListener, precacheVars, Remove, Restrict
    <3>. QED BY <2>1, <3>1 DEF TypeInv
  <2>. QED BY <1>11, <2>2, <2>3, <2>4 DEF Events, ListenerCalls
<1>8. CASE Hook_StartupServer
  <2>1. Reached \subseteq Factory
    BY DEF Reached
  <2>2. /\ UNCHANGED <<nextHandle, listeners, resources, phase, deferred, batch, items>>
        /\ session' = Reached /\ manifest' \subseteq resources
    BY <1>8 DEF Hook_StartupServer, MapStarts, baseVars, httpVars
  <2>. QED BY <2>1, <2>2 DEF TypeInv
<1>9. CASE OtherPlugins
  <2>1. /\ UNCHANGED <<nextHandle, listeners, resources, manifest, phase, deferred, batch, items>>
        /\ session' \subseteq session
    BY <1>9 DEF OtherPlugins, OtherComes, OtherGoes, eventVars, baseVars, httpVars
  <2>. QED BY <2>1 DEF TypeInv
<1>10. ASSUME NEW r \in Request, Worker(r)
       PROVE  TypeInv'
  <2>1. UNCHANGED <<nextHandle, listeners, resources, manifest, session, phase, deferred, batch, items>>
    BY <1>10 DEF Worker, Answer, baseVars, feedVars
  <2>. QED BY <2>1 DEF TypeInv
<1>. QED BY <1>1, <1>2, <1>3, <1>4, <1>5, <1>6, <1>7, <1>8, <1>9, <1>10, <1>11
         DEF PluginStep, Teardown

(* ---- the theorems --------------------------------------------------------------------- *)

LEMMA ServiceInit ==
  ASSUME PluginInit
  PROVE  ServiceInv /\ TypeInv
<1>1. /\ items = << >> /\ working = {} /\ it = 0 /\ batch = << >>
      /\ fate = [r \in Request |-> "new"]
  BY DEF PluginInit, HttpInit
<1>2. HttpInv
  BY <1>1 DEF HttpInv, IsInjective, Range, Waiting
<1>3. /\ manager = FALSE /\ listeners = NoItems /\ nextHandle = FirstHandle
      /\ registered = {} /\ attached = NotAttached /\ refused = {} /\ firing = None
      /\ resources = {} /\ others = {} /\ linked = FALSE
      /\ head = None /\ next = [f \in Factory |-> None]
      /\ session = {} /\ manifest = {} /\ command = FALSE
  BY DEF PluginInit, FeedsInit
<1>4. EventInv
  BY <1>3 DEF EventInv, WalkInv, NotAttached, NoItems
<1>5. Closed({}, head, next) /\ {} \in SUBSET Factory
  BY <1>3 DEF Closed
<1>6. Walk(head, next) = {}
  BY <1>5 DEF Walk
<1>7. Ranked([f \in Factory |-> 0], head, next)
  BY <1>6 DEF Ranked
<1>8. ListInv
  BY <1>3, <1>6, <1>7, ReachedByWalk DEF ListInv, ListIsWhole
<1>9. phase = "off" /\ deferred = << >> /\ hooks = {}
  BY DEF PluginInit
<1>10. BaseInv
  BY <1>1, <1>3, <1>9 DEF BaseInv
<1>11. TypeInv
  BY <1>1, <1>3, <1>9 DEF TypeInv, FirstHandle, NoItems
<1>. QED BY <1>2, <1>4, <1>8, <1>10, <1>11 DEF ServiceInv

\* Over any number of loads, failed or not, with completions, cleanups and callbacks that call the
\* services at every point, the services, the engine and the plugin's phase keep their invariant.
THEOREM ServiceInvHolds == PluginSpec => [](ServiceInv /\ TypeInv)
<1>1. PluginInit => ServiceInv /\ TypeInv
  BY ServiceInit
<1>2. ServiceInv /\ TypeInv /\ [PluginNext]_pluginVars => (ServiceInv /\ TypeInv)'
  <2>. SUFFICES ASSUME ServiceInv, TypeInv, [PluginNext]_pluginVars
                PROVE  ServiceInv' /\ TypeInv'
    OBVIOUS
  <2>1. CASE PluginStep
    BY <2>1, ServiceStep, TypeStep
  <2>2. CASE UNCHANGED <<feedVars, httpVars, baseVars>>
    <3>1. ServiceInv'
      BY <2>2, ServiceStutters
    <3>2. TypeInv'
      BY <2>2 DEF TypeInv, feedVars, httpVars, baseVars
    <3>. QED BY <3>1, <3>2
  <2>. QED BY <2>1, <2>2 DEF PluginNext, MigratorRuns, pluginVars, baseVars
<1>. QED BY <1>1, <1>2, PTL DEF PluginSpec

\* The state of the plugin has its types, and no load starts with cleanups or requests of another.
THEOREM PluginTypeOKHolds == PluginSpec => []PluginTypeOK
<1>1. ServiceInv /\ TypeInv => PluginTypeOK
  <2>. SUFFICES ASSUME ServiceInv, TypeInv
                PROVE  PluginTypeOK
    OBVIOUS
  <2>1. attached \in [Event -> Nat] /\ registered \subseteq Event
    BY DEF ServiceInv, EventInv
  <2>2. phase = "off" => Waiting = {}
    <3>1. phase = "off" => Range(items) = {} /\ Range(batch) = {}
      BY DEF TypeInv, Range
    <3>. QED BY <3>1 DEF ServiceInv, HttpInv
  <2>. QED BY <2>1, <2>2 DEF ServiceInv, BaseInv, TypeInv, PluginTypeOK
<1>. QED BY <1>1, ServiceInvHolds, PTL

\* HttpClient's pending list and its batch hold each request under way once and nothing else, so
\* that no completion runs twice or after Stop, whatever the completions post or stop.
THEOREM EachRequestOnceHolds == PluginSpec => []EachRequestOnce
<1>1. ASSUME HttpInv PROVE EachRequestOnce
  <2>1. /\ items \in Seq(Request) /\ batch \in Seq(Request) /\ IsInjective(items)
        /\ IsInjective(batch) /\ Range(items) \cap Range(batch) = {}
        /\ Range(items) \cup Range(batch) = Waiting
    BY <1>1 DEF HttpInv
  <2>2. IsInjective(items \o batch) /\ Range(items \o batch) = Range(items) \cup Range(batch)
    BY <2>1, ApartConcat
  <2>. QED BY <2>1, <2>2 DEF EachRequestOnce
<1>2. ServiceInv => EachRequestOnce
  BY <1>1 DEF ServiceInv
<1>. QED BY <1>2, ServiceInvHolds, PTL

\* As long as the listeners of events change the registry during a delivery only by removing others,
\* a fired event that the engine did not refuse reaches each listener that stays once, and the walk
\* along the engine's list of factories meets exactly those that are linked, over any number of
\* maps, loads and other plugins.
THEOREM FeedsAreExactHolds ==
  ASSUME EventVerbs \subseteq {"remove others"}
  PROVE  PluginSpec => []FeedsAreExact
<1>1. ServiceInv => FeedsAreExact
  <2>. SUFFICES ASSUME ServiceInv
                PROVE  FeedsAreExact
    OBVIOUS
  <2>1. EventsArriveOnce
    <3>1. WalkInv
      BY DEF ServiceInv, EventInv, SafeVerbs
    <3>2. \A h \in DOMAIN listeners : listeners[h] \notin refused => attached[listeners[h]] = 1
      BY DEF ServiceInv, EventInv
    <3>. QED BY <3>1, <3>2 DEF WalkInv, EventsArriveOnce, WalkDone
  <2>2. ListIsWhole
    BY DEF ServiceInv, ListInv
  <2>. QED BY <2>1, <2>2 DEF FeedsAreExact
<1>. QED BY <1>1, ServiceInvHolds, PTL

\* While no plugin is loaded the engine has no hook, listener, command, factory or game system of
\* it, and no worker runs.
THEOREM EngineForgetsThePluginHolds == PluginSpec => []EngineForgetsThePlugin
<1>1. ServiceInv => EngineForgetsThePlugin
  <2>. SUFFICES ASSUME ServiceInv, phase = "off"
                PROVE  /\ hooks = {} /\ attached = NotAttached /\ ~command
                       /\ Kit \notin Reached \cup session
                       /\ working = {}
    BY DEF EngineForgetsThePlugin
  <2>1. hooks = {} /\ registered = {} /\ ~linked /\ ~command /\ working = {}
    BY DEF ServiceInv, BaseInv
  <2>2. attached = NotAttached
    BY <2>1 DEF ServiceInv, EventInv, NotAttached
  <2>3. Kit \notin Reached \cup session
    BY <2>1, KitAssumption DEF ServiceInv, ListInv, ListIsWhole
  <2>. QED BY <2>1, <2>2, <2>3
<1>. QED BY <1>1, ServiceInvHolds, PTL

LEMMA MigratorStarts ==
  ASSUME PluginInit
  PROVE  MigratorInv
<1>1. MigratorInit
  BY DEF PluginInit
<1>2. TableInv
  BY <1>1 DEF MigratorInit, TableInv, MigrationsRunOnce, Range
<1>3. ASSUME NEW s \in Server
      PROVE  Sound(s)
  <2>1. /\ at[s] = "idle" /\ todo[s] = << >> /\ current[s] = 0
        /\ broken[s] \in BOOLEAN /\ ~broken[s] /\ result[s] = Nothing
    BY <1>1 DEF MigratorInit
  <2>2. result[s] \in [success : BOOLEAN, applied : Nat, version : Nat]
    BY <2>1 DEF Nothing
  <2>3. ~Running(s)
    BY <2>1 DEF Running
  <2>4. RunTypes(s)
    BY <2>1, <2>2, <2>3 DEF RunTypes
  <2>. QED BY <2>1, <2>3, <2>4 DEF Sound, InOrder, HasLock, Applying, Finishing, Reporting
<1>. QED BY <1>1, <1>2, <1>3 DEF MigratorInv, MigratorInit

\* As long as every migration file can be read, the runs of any number of servers over one
\* database keep the invariant of the lock, the history table and the loop over the files.
THEOREM MigratorInvHolds ==
  ASSUME Unreadable = {}
  PROVE  PluginSpec => []MigratorInv
<1>1. PluginInit => MigratorInv
  BY MigratorStarts
<1>2. MigratorInv /\ [PluginNext]_pluginVars => MigratorInv'
  <2>. SUFFICES ASSUME MigratorInv, [PluginNext]_pluginVars
                PROVE  MigratorInv'
    OBVIOUS
  <2>1. CASE MigratorRuns
    BY <2>1, MigratorStep
  <2>2. CASE UNCHANGED migratorVars
    BY <2>2, MigratorStutters
  <2>. QED BY <2>1, <2>2 DEF PluginNext, pluginVars
<1>. QED BY <1>1, <1>2, PTL DEF PluginSpec

\* Every migration is applied at most once and in order, the history table says which, and each
\* run's result is what it did, under concurrent servers, failures and lost commits.
THEOREM MigrationsAreToldHolds ==
  ASSUME Unreadable = {}
  PROVE  PluginSpec => []MigrationsAreTold
<1>1. MigratorInv => MigrationsAreTold
  <2>. SUFFICES ASSUME MigratorInv
                PROVE  MigrationsAreTold
    OBVIOUS
  <2>1. MigrationsRunOnce
    BY DEF MigratorInv, TableInv
  <2>2. \A s \in Server : Reporting(s)
    BY DEF MigratorInv, Sound
  <2>3. ResultsAreTrue
    BY <2>2 DEF Reporting, Done, Excused, ResultsAreTrue
  <2>. QED BY <2>1, <2>3 DEF MigrationsAreTold
<1>. QED BY <1>1, MigratorInvHolds, PTL

=============================================================================
