----------------------------- MODULE TextProofs -----------------------------
(***************************************************************************)
(* The two modules about texts: the chat history and its summary, and a    *)
(* document and its chunks.                                                *)
(*                                                                         *)
(* A chat session forgets nothing unless a request was overtaken or has    *)
(* compacted a history with messages missing: what                         *)
(* compacted_message_count excludes from the prompt is in the rolling      *)
(* summary, for any requests at a time, evictions and cold loads, any      *)
(* number of messages and of recent turns.                                 *)
(*                                                                         *)
(* The chunks of any document keep its tokens, order and sections and the  *)
(* budgets, for all settings.  Texts are runs of intervals, and each step  *)
(* of the chunker turns a run into runs over the same tokens.  A recursive *)
(* definition is unfolded once, to an iteration that exists (RunExists),   *)
(* and then followed by induction over its index (NatInd).                 *)
(***************************************************************************)
EXTENDS ChatMemory, Chunking, FiniteSetTheorems, SequenceTheorems, WellFoundedInduction,
        TLAPS

\* Sets of numbers that are not empty have a least member.
LEMMA Least ==
    ASSUME NEW T \in SUBSET Nat, T # {}
    PROVE  \E x \in T : \A y \in T : x <= y
PROOF
  <1>1. PICK x \in T : \A y \in T : ~(<<y, x>> \in OpToRel(<, Nat))
    BY NatLessThanWellFounded, WFMin, Zenon
  <1>2. \A y \in T : ~(y < x)
    BY <1>1, Zenon DEF OpToRel
  <1>3. QED
    BY <1>2

\* What a session state has put out of the prompt is in its summary.
Covers(s, gaps) == \A i \in 1..s.count : i \in s.summary \cup gaps
Remembered(s) == Covers(s, blank)

\* A history that was loaded from messages 1..n: it fits behind the count, and if nothing
\* was missed it is what follows the count.
HistoryInv(r, n, gaps) ==
    /\ r.history \subseteq 1..n
    /\ r.history # {} => r.read.count + Cardinality(r.history) <= n
    /\ ~r.missed => \E k \in r.upto..n : r.history = ((r.read.count + 1)..k) \ gaps

\* A compaction leaves the recent turns of the messages there are, and covers what it adds
\* to the count; so does the prompt.
SparesInv(r, n) == r.delta > 0 => r.read.count + r.delta + 2 * RecentTurns <= n
SummaryInv(r, gaps) ==
    (r.missed => r.delta = 0) =>
        Covers([count |-> r.read.count + r.delta, summary |-> r.summary], gaps)
PromptInv(r, gaps) ==
    r.pc = "asked" /\ ~r.missed => 1..r.upto \subseteq r.summary \cup r.history \cup gaps

ReqInv(r, n, gaps, clean) ==
    /\ clean => Covers(r.read, gaps) /\ Covers(r.cold.state, gaps)
    /\ r.cold.list \subseteq 1..n
    /\ r.pc = "loaded" => HistoryInv(r, n, gaps)
    /\ r.pc \in {"asked", "fill", "append"} =>
         SparesInv(r, n) /\ (clean => SummaryInv(r, gaps) /\ PromptInv(r, gaps))

\* The states a request may still read, older ones among them, are all remembered.
MemInv ==
    /\ TypeOK
    /\ faults = {} => /\ Remembered(archived) /\ Remembered(meta.state)
                      /\ \A i \in 1..Len(pending) : Remembered(pending[i])
    /\ RecentKept
    /\ \A q \in Requests : ReqInv(req[q], last, blank, faults = {})

-----------------------------------------------------------------------------
(* The messages that compaction takes are the oldest of the history, so      *)
(* counting them says which ones they are, blank messages aside.             *)
LEMMA IntervalSize ==
    ASSUME NEW a \in Int, NEW b \in Int, a <= b + 1
    PROVE  IsFiniteSet(a..b) /\ Cardinality(a..b) = b - a + 1
PROOF
  <1>1. /\ IsFiniteSet(a..b)
        /\ Cardinality(a..b) = IF a > b THEN 0 ELSE b - a + 1
    BY FS_Interval
  <1>2. QED
    BY <1>1

\* A list without gaps: the offset is the position.
LEMMA AfterWhole ==
    ASSUME NEW c \in Nat, NEW k \in Nat
    PROVE  After(1..k, c) = (c + 1)..k
PROOF
  <1>1. ASSUME NEW i \in 1..k
        PROVE  Cardinality({j \in 1..k : j < i}) = i - 1
    <2>1. {j \in 1..k : j < i} = 1..(i - 1)
      OBVIOUS
    <2>2. Cardinality(1..(i - 1)) = i - 1
      BY IntervalSize
    <2>3. QED
      BY <2>1, <2>2
  <1>2. \A i \in 1..k : i \in After(1..k, c) <=> i - 1 >= c
    BY <1>1 DEF After
  <1>3. After(1..k, c) \subseteq 1..k
    BY DEF After
  <1> DEFINE A == After(1..k, c)
  <1> HIDE DEF A
  <1>4. ASSUME NEW i
        PROVE  i \in A <=> i \in (c + 1)..k
    <2>1. CASE i \in 1..k
      BY <1>2, <2>1 DEF A
    <2>2. CASE i \notin 1..k
      <3>1. i \notin A
        BY <1>3, <2>2 DEF A
      <3>2. i \notin (c + 1)..k
        BY <2>2
      <3>3. QED
        BY <3>1, <3>2
    <2>3. QED
      BY <2>1, <2>2
  <1>5. QED
    BY <1>4 DEF A

\* What follows an offset, in whatever list, fits behind it.
LEMMA AfterFits ==
    ASSUME NEW n \in Nat, NEW c \in Nat, NEW messages \in SUBSET (1..n),
           NEW h \in SUBSET After(messages, c), h # {}
    PROVE  IsFiniteSet(h) /\ c + Cardinality(h) <= n
PROOF
  <1> DEFINE A == After(messages, c)
  <1>1. A \subseteq messages /\ A \in SUBSET Nat /\ A # {}
    <2>1. A \subseteq messages
      BY DEF After
    <2>2. A # {}
      OBVIOUS
    <2> HIDE DEF A
    <2>3. QED
      BY <2>1, <2>2
  <1>2. PICK x \in A : \A y \in A : x <= y
    BY <1>1, Least
  <1> DEFINE below == {j \in messages : j < x}
  <1>3. Cardinality(below) >= c
    BY <1>2 DEF After
  <1>4. IsFiniteSet(1..n) /\ Cardinality(1..n) = n
    BY IntervalSize
  <1>5. below \cup A \subseteq 1..n /\ below \cap A = {}
    <2>1. \A y \in A : y \in Int /\ x \in Int /\ ~(y < x)
      BY <1>1, <1>2
    <2>2. below \subseteq 1..n /\ A \subseteq 1..n
      BY <1>1
    <2>3. QED
      BY <2>1, <2>2
  <1> HIDE DEF A, below
  <1>6. IsFiniteSet(A) /\ IsFiniteSet(below) /\ Cardinality(below \cup A) <= n
    BY <1>4, <1>5, FS_Subset
  <1>7. Cardinality(below \cup A) = Cardinality(below) + Cardinality(A)
    <2>1. Cardinality(below \cap A) = 0
      BY <1>5, FS_EmptySet
    <2>2. Cardinality(below \cup A) = Cardinality(below) + Cardinality(A)
                                        - Cardinality(below \cap A)
      BY <1>6, FS_Union
    <2>3. Cardinality(below) \in Nat /\ Cardinality(A) \in Nat
      BY <1>6, FS_CardinalityType
    <2>4. QED
      BY <2>1, <2>2, <2>3
  <1>8. h \subseteq A
    BY DEF A
  <1>9. IsFiniteSet(h) /\ Cardinality(h) <= Cardinality(A)
    BY <1>6, <1>8, FS_Subset
  <1>10. Cardinality(h) \in Nat /\ Cardinality(below) \in Nat /\ Cardinality(A) \in Nat
    BY <1>6, <1>9, FS_CardinalityType
  <1>11. QED
    BY <1>3, <1>6, <1>7, <1>9, <1>10

\* The oldest messages of a history without gaps: counting them says which they are.
LEMMA OlderIsPrefix ==
    ASSUME NEW n \in Nat, NEW c \in Nat, NEW gaps
    PROVE  LET older == Older(((c + 1)..n) \ gaps)
           IN  \A i \in (c + 1)..(c + Cardinality(older)) : i \in older \cup gaps
PROOF
  <1> DEFINE h == ((c + 1)..n) \ gaps
             d == Cardinality(Older(h))
             Above(i) == {j \in h : j > i}
  <1>0. CASE c > n
    <2>1. Older(h) = {}
      BY <1>0 DEF Older
    <2>2. d = 0
      BY <2>1, FS_EmptySet
    <2>3. QED
      BY <2>2
  <1>a. CASE c <= n
    <2>1. IsFiniteSet((c + 1)..n) /\ Cardinality((c + 1)..n) = n - c
      BY <1>a, IntervalSize
    <2>2. h \subseteq (c + 1)..n /\ IsFiniteSet(h)
      BY <2>1, FS_Subset
    <2>3. Older(h) \subseteq h
      BY DEF Older
    <2>4. IsFiniteSet(Older(h)) /\ d \in Nat
      BY <2>2, <2>3, FS_Subset, FS_CardinalityType
    <2>5. ASSUME NEW k \in Older(h), NEW i \in h, i < k
          PROVE  i \in Older(h)
      <3>1. Above(k) \subseteq Above(i)
        BY <2>2, <2>3, <2>5
      <3>2. IsFiniteSet(Above(i))
        BY <2>2, FS_Subset, Above(i) \subseteq h
      <3>3. /\ Cardinality(Above(k)) \in Nat /\ Cardinality(Above(i)) \in Nat
            /\ Cardinality(Above(k)) <= Cardinality(Above(i))
        BY <3>1, <3>2, FS_Subset, FS_CardinalityType
      <3>4. Cardinality(Above(k)) >= 2 * RecentTurns
        BY DEF Older
      <3>5. 2 * RecentTurns \in Nat
        BY MemoryAssumption DEF MemoryAssumption
      <3> HIDE DEF Above
      <3>6. Cardinality(Above(i)) >= 2 * RecentTurns
        BY <3>3, <3>4, <3>5
      <3>7. QED
        BY <3>6 DEF Older, Above
    <2>6. ASSUME NEW i \in (c + 1)..(c + d), i \notin gaps, i \notin Older(h)
          PROVE  FALSE
      <3>1. i \in Nat /\ c + 1 <= i /\ i <= c + d
        BY <2>4, <2>6
      <3>2. ASSUME NEW k \in Older(h)
            PROVE  k \in (c + 1)..(i - 1)
        <4>1. k \in (c + 1)..n
          BY <2>2, <2>3
        <4>2. CASE i <= n
          <5>1. i \in h
            BY <2>6, <3>1, <4>2
          <5>2. ~(k > i) /\ k # i
            BY <2>3, <2>5, <2>6, <5>1
          <5>3. QED
            BY <4>1, <5>2, <3>1
        <4>3. CASE i > n
          BY <4>1, <4>3, <3>1
        <4>4. QED
          BY <4>2, <4>3, <3>1
      <3>3. Older(h) \subseteq (c + 1)..(i - 1)
        BY <3>2
      <3>4. /\ IsFiniteSet((c + 1)..(i - 1))
            /\ Cardinality((c + 1)..(i - 1)) = i - 1 - c
        BY <3>1, IntervalSize
      <3>5. d <= i - 1 - c
        <4> DEFINE older == Older(h)
        <4>1. older \subseteq (c + 1)..(i - 1)
          BY <3>3
        <4> HIDE DEF older
        <4>2. Cardinality(older) <= i - 1 - c
          BY <3>4, <4>1, FS_Subset
        <4>3. QED
          BY <4>2 DEF older
      <3> HIDE DEF d
      <3>6. QED
        BY <3>1, <3>5, <2>4
    <2>7. QED
      BY <2>6
  <1>1. QED
    BY <1>0, <1>a

\* Above the newest message that is compacted there are the recent turns.
LEMMA OlderLeavesRecent ==
    ASSUME NEW n \in Nat, NEW h \in SUBSET (1..n), Older(h) # {}
    PROVE  /\ Cardinality(Older(h)) \in Nat
           /\ Cardinality(Older(h)) + 2 * RecentTurns <= Cardinality(h)
PROOF
  <1> DEFINE older == Older(h)
             Below == {n - i : i \in older}
             d == Cardinality(older)
  <1>1. older \subseteq h
    BY DEF Older
  <1>0. older # {} /\ \A i \in older : i \in Int /\ n - i \in Nat
    <2>1. older # {}
      OBVIOUS
    <2> HIDE DEF older
    <2>2. QED
      BY <1>1, <2>1
  <1>2. Below \in SUBSET Nat /\ Below # {}
    <2> HIDE DEF older
    <2>1. QED
      BY <1>0
  <1>3. PICK k \in older : \A i \in older : n - k <= n - i
    <2> HIDE DEF older
    <2>1. PICK x \in Below : \A y \in Below : x <= y
      BY <1>2, Least
    <2>2. QED
      BY <2>1
  <1> DEFINE above == {j \in h : j > k}
  <1>4. k \in Int /\ \A i \in older : i \in Int /\ i <= k
    <2> HIDE DEF older
    <2>1. QED
      BY <1>0, <1>3
  <1>5. Cardinality(above) >= 2 * RecentTurns
    BY DEF Older
  <1>6. above \cap older = {}
    <2>1. \A j \in above : j \in Int /\ j > k
      <3>1. \A j \in h : j \in Int
        OBVIOUS
      <3>2. QED
        BY <3>1
    <2> HIDE DEF older, above
    <2>2. QED
      BY <1>4, <2>1
  <1>7. above \cup older \subseteq h
    BY <1>1
  <1>8. IsFiniteSet(h)
    <2>1. IsFiniteSet(1..n)
      BY IntervalSize
    <2>2. QED
      BY <2>1, FS_Subset
  <1> HIDE DEF above, older
  <1>9. /\ IsFiniteSet(above) /\ IsFiniteSet(older)
        /\ Cardinality(above \cup older) <= Cardinality(h)
    BY <1>7, <1>8, FS_Subset
  <1>10. /\ Cardinality(above) \in Nat /\ d \in Nat /\ 2 * RecentTurns \in Nat
         /\ Cardinality(h) \in Nat
    BY <1>8, <1>9, FS_CardinalityType, MemoryAssumption DEF MemoryAssumption
  <1>11. Cardinality(above \cup older) = Cardinality(above) + d
    <2>1. Cardinality(above \cap older) = 0
      BY <1>6, FS_EmptySet
    <2>2. Cardinality(above \cup older) = Cardinality(above) + Cardinality(older)
                                            - Cardinality(above \cap older)
      BY <1>9, FS_Union
    <2> HIDE DEF d
    <2>3. Cardinality(older) = d
      BY DEF d
    <2>4. QED
      BY <1>10, <2>1, <2>2, <2>3
  <1> HIDE DEF d
  <1>12. d \in Nat /\ d + 2 * RecentTurns <= Cardinality(h)
    BY <1>5, <1>9, <1>10, <1>11
  <1>13. QED
    BY <1>12 DEF d, older

-----------------------------------------------------------------------------
LEMMA CurrentTyped == TypeOK => Current \in SessionState
PROOF
  BY DEF TypeOK, Current, Last

LEMMA CurrentRemembered ==
    MemInv /\ faults = {} => Remembered(Current)
PROOF
  <1> SUFFICES ASSUME MemInv, faults = {} PROVE Remembered(Current)
    OBVIOUS
  <1>1. pending \in Seq(SessionState)
    BY DEF MemInv, TypeOK
  <1>2. CASE pending = <<>>
    BY <1>2 DEF Current, MemInv
  <1>3. CASE pending # <<>>
    <2>1. Len(pending) \in 1..Len(pending)
      BY <1>1, <1>3
    <2>2. QED
      BY <1>3, <2>1 DEF Current, Last, MemInv
  <1>4. QED
    BY <1>2, <1>3

LEMMA NothingCovered == \A gaps : Covers(NoState, gaps)
PROOF
  BY DEF Covers, NoState

LEMMA IdleTyped == Idle \in RequestState /\ NoLoad \in ColdLoad /\ NoMeta \in Meta
PROOF
  <1>1. 0 \in 0..MaxMessages
    BY MemoryAssumption DEF MemoryAssumption
  <1>2. NoState \in SessionState
    BY DEF NoState, SessionState
  <1>3. NoLoad \in ColdLoad /\ NoMeta \in Meta
    BY <1>1, <1>2 DEF NoLoad, ColdLoad, NoMeta, Meta
  <1>4. Idle \in RequestState
    BY <1>1, <1>2, <1>3 DEF Idle, RequestState
  <1>5. QED
    BY <1>3, <1>4

LEMMA IdleInv == \A n, gaps, clean : ReqInv(Idle, n, gaps, clean)
PROOF
  BY NothingCovered DEF Idle, NoLoad, ReqInv

LEMMA MemInit == Init => MemInv
PROOF
  <1> SUFFICES ASSUME Init PROVE MemInv
    OBVIOUS
  <1>1. TypeOK
    BY IdleTyped, MemoryAssumption
       DEF Init, TypeOK, SessionState, NoState, MemoryAssumption
  <1>2. RecentKept
    BY DEF Init, RecentKept, Current, NoState
  <1>3. Remembered(archived) /\ Remembered(meta.state) /\ Len(pending) = 0
    BY NothingCovered DEF Init, NoMeta, Remembered
  <1>4. \A q \in Requests : ReqInv(req[q], last, blank, faults = {})
    BY IdleInv DEF Init
  <1>5. QED
    BY <1>1, <1>2, <1>3, <1>4 DEF MemInv

-----------------------------------------------------------------------------
(* Steps of one request, and of the cache: the messages and the states that  *)
(* are stored stay.                                                          *)
LEMMA RequestStep ==
    ASSUME MemInv, UNCHANGED stored, NEW q \in Requests, NEW r,
           req' = [req EXCEPT ![q] = r], r \in RequestState, ReqInv(r, last, blank, faults = {}),
           cached' \in BOOLEAN, meta' \in Meta, list' \subseteq 1..last,
           faults = {} => Remembered(meta'.state)
    PROVE  MemInv'
PROOF
  <1>1. /\ last' = last /\ blank' = blank /\ pending' = pending /\ archived' = archived
        /\ evictions' = evictions /\ faults' = faults
    BY DEF stored
  <1>2. TypeOK'
    BY <1>1 DEF MemInv, TypeOK
  <1>3. RecentKept'
    BY <1>1 DEF MemInv, RecentKept, Current
  <1>4. faults' = {} => /\ Remembered(archived)' /\ Remembered(meta.state)'
                        /\ \A i \in 1..Len(pending') : Remembered(pending[i])'
    BY <1>1 DEF MemInv, Remembered
  <1>5. ASSUME NEW p \in Requests
        PROVE  ReqInv(req'[p], last', blank', faults' = {})
    <2>1. req'[p] = r \/ req'[p] = req[p]
      BY DEF MemInv, TypeOK
    <2>2. ReqInv(req'[p], last, blank, faults = {})
      BY <2>1 DEF MemInv
    <2>3. QED
      BY <1>1, <2>2
  <1>6. QED
    BY <1>2, <1>3, <1>4, <1>5 DEF MemInv

LEMMA ColdTyped ==
    MemInv => /\ InPostgres \in ColdLoad /\ InPostgres.state = archived
              /\ InPostgres.list \subseteq 1..last
PROOF
  <1> SUFFICES ASSUME MemInv PROVE /\ InPostgres \in ColdLoad /\ InPostgres.state = archived
                                   /\ InPostgres.list \subseteq 1..last
    OBVIOUS
  <1>1. /\ last \in Nat /\ last <= MaxMessages /\ MaxMessages \in Nat
        /\ Len(pending) \in Nat /\ 2 * Len(pending) <= last /\ archived \in SessionState
    BY MemoryAssumption DEF MemInv, TypeOK, MemoryAssumption
  <1>2. last - 2 * Len(pending) \in 0..last
    BY <1>1
  <1>3. last - 2 * Len(pending) \in 0..MaxMessages /\ 1..(last - 2 * Len(pending)) \subseteq Positions
    BY <1>1, <1>2 DEF Positions
  <1>4. QED
    BY <1>1, <1>2, <1>3 DEF InPostgres, ColdLoad

LEMMA OpenStep ==
    ASSUME MemInv, NEW q \in Requests, Open(q) \/ OpenCold(q)
    PROVE  MemInv'
PROOF
  <1> DEFINE hit == [Idle EXCEPT !.pc = "opened", !.upto = last, !.read = meta.state]
             miss == [Idle EXCEPT !.pc = "open", !.upto = last, !.read = archived,
                                  !.cold = InPostgres]
  <1>1. last \in 0..MaxMessages /\ meta.state \in SessionState /\ archived \in SessionState
    BY DEF MemInv, TypeOK, Meta
  <1>2. hit \in RequestState /\ miss \in RequestState
    BY <1>1, IdleTyped, ColdTyped DEF RequestState
  <1>3. /\ hit.pc = "opened" /\ hit.read = meta.state /\ hit.cold = NoLoad
        /\ miss.pc = "open" /\ miss.read = archived /\ miss.cold = InPostgres
    BY DEF Idle
  <1>4. ReqInv(hit, last, blank, faults = {}) /\ ReqInv(miss, last, blank, faults = {})
    <2> HIDE DEF hit, miss
    <2>1. NoLoad.state = NoState /\ NoLoad.list = {}
      BY DEF NoLoad
    <2>2. QED
      BY <1>3, <2>1, ColdTyped, NothingCovered DEF ReqInv, MemInv, Remembered
  <1>5. (req' = [req EXCEPT ![q] = hit] \/ req' = [req EXCEPT ![q] = miss])
        /\ UNCHANGED <<stored, cached, meta, list>>
    BY DEF Open, OpenCold
  <1>6. cached' \in BOOLEAN /\ meta' \in Meta /\ list' \subseteq 1..last
        /\ (faults = {} => Remembered(meta'.state))
    BY <1>5 DEF MemInv, TypeOK
  <1> HIDE DEF hit, miss
  <1>7. QED
    BY <1>2, <1>4, <1>5, <1>6, RequestStep

LEMMA CacheStep ==
    ASSUME MemInv, NEW q \in Requests, WriteCache(q), NEW r,
           req' = [req EXCEPT ![q] = r], r \in RequestState,
           ReqInv(r, last, blank, faults = {})
    PROVE  MemInv'
PROOF
  <1>1. /\ req[q] \in RequestState /\ req[q].cold \in ColdLoad
        /\ (faults = {} => Covers(req[q].cold.state, blank))
        /\ req[q].cold.list \subseteq 1..last
    BY DEF MemInv, TypeOK, RequestState, ReqInv
  <1>2. cached' \in BOOLEAN /\ meta' \in Meta /\ list' \subseteq 1..last
    BY <1>1 DEF WriteCache, Meta, ColdLoad
  <1>3. faults = {} => Remembered(meta'.state)
    BY <1>1 DEF WriteCache, Remembered
  <1>4. UNCHANGED stored
    BY DEF WriteCache
  <1>5. QED
    BY <1>2, <1>3, <1>4, RequestStep

LEMMA OpenedStep ==
    ASSUME MemInv, NEW q \in Requests, Opened(q) \/ Filled(q)
    PROVE  MemInv'
PROOF
  <1>1. /\ req[q] \in RequestState /\ ReqInv(req[q], last, blank, faults = {})
        /\ NoLoad.state = NoState /\ NoLoad.list = {} /\ NoLoad \in ColdLoad
    BY IdleTyped DEF MemInv, TypeOK, NoLoad
  <1> DEFINE r(at) == [req[q] EXCEPT !.pc = at, !.cold = NoLoad]
  <1>2. \A at \in {"opened", "append"} :
          /\ r(at) \in RequestState /\ r(at).pc = at /\ r(at).cold = NoLoad
          /\ r(at).read = req[q].read /\ r(at).upto = req[q].upto /\ r(at).history = req[q].history
          /\ r(at).missed = req[q].missed /\ r(at).summary = req[q].summary
          /\ r(at).delta = req[q].delta
    BY <1>1 DEF RequestState
  <1>3. \/ req' = [req EXCEPT ![q] = r("opened")]
        \/ req[q].pc = "fill" /\ req' = [req EXCEPT ![q] = r("append")]
    BY DEF Opened, Filled
  <1>4. WriteCache(q)
    BY DEF Opened, Filled
  <1> HIDE DEF r
  <1>5. ReqInv(r("opened"), last, blank, faults = {})
    BY <1>1, <1>2, NothingCovered DEF ReqInv
  <1>6. req[q].pc = "fill" => ReqInv(r("append"), last, blank, faults = {})
    BY <1>1, <1>2, NothingCovered DEF ReqInv, SparesInv, SummaryInv, PromptInv
  <1>7. QED
    BY <1>2, <1>3, <1>4, <1>5, <1>6, CacheStep

\* What the cases below need of the request that takes the step.
LEMMA RequestFacts ==
    ASSUME MemInv, NEW q \in Requests
    PROVE  /\ req \in [Requests -> RequestState] /\ req[q] \in RequestState
           /\ ReqInv(req[q], last, blank, faults = {})
           /\ req[q].read \in SessionState /\ req[q].read.count \in Nat
           /\ req[q].read.summary \in SUBSET Positions /\ req[q].cold \in ColdLoad
           /\ NoLoad.state = NoState /\ NoLoad.list = {} /\ NoLoad \in ColdLoad
           /\ last \in Nat /\ last <= MaxMessages /\ MaxMessages \in Nat
           /\ req[q].upto \in Nat /\ 0 \in 0..MaxMessages
           /\ pending \in Seq(SessionState) /\ (faults = {} => Remembered(archived))
PROOF
  BY IdleTyped, MemoryAssumption
     DEF MemInv, TypeOK, NoLoad, RequestState, SessionState, MemoryAssumption

\* A request's step that leaves the stores and the cache alone.
LEMMA QuietStep ==
    ASSUME MemInv, UNCHANGED <<stored, cached, meta, list>>, NEW q \in Requests, NEW r,
           req' = [req EXCEPT ![q] = r], r \in RequestState,
           ReqInv(r, last, blank, faults = {})
    PROVE  MemInv'
PROOF
  <1>1. cached' \in BOOLEAN /\ meta' \in Meta /\ list' \subseteq 1..last
        /\ (faults = {} => Remembered(meta'.state))
    BY DEF MemInv, TypeOK
  <1>2. QED
    BY <1>1, RequestStep

LEMMA LoadColdStep ==
    ASSUME MemInv, NEW q \in Requests, LoadCold(q)
    PROVE  MemInv'
PROOF
  <1> DEFINE r == [req[q] EXCEPT !.pc = "load", !.cold = InPostgres]
  <1>1. req' = [req EXCEPT ![q] = r] /\ UNCHANGED <<stored, cached, meta, list>>
    BY DEF LoadCold
  <1>2. r \in RequestState /\ r.pc = "load" /\ r.cold = InPostgres /\ r.read = req[q].read
    BY RequestFacts, ColdTyped DEF RequestState
  <1> HIDE DEF r
  <1>3. ReqInv(r, last, blank, faults = {})
    BY <1>2, RequestFacts, ColdTyped DEF ReqInv, Remembered
  <1>4. QED
    BY <1>1, <1>2, <1>3, QuietStep

LEMMA SearchCodeStep ==
    ASSUME MemInv, NEW q \in Requests, SearchCode(q)
    PROVE  MemInv'
PROOF
  <1> DEFINE u == req[q]
             r == [u EXCEPT !.pc = "asked", !.missed = TRUE, !.summary = u.read.summary,
                            !.delta = 0]
  <1>1. req' = [req EXCEPT ![q] = r] /\ UNCHANGED <<stored, cached, meta, list>>
    BY DEF SearchCode
  <1>2. /\ r \in RequestState /\ r.pc = "asked" /\ r.cold = u.cold /\ r.read = u.read
        /\ r.missed = TRUE /\ r.summary = u.read.summary /\ r.delta = 0
    BY RequestFacts DEF RequestState
  <1> HIDE DEF r
  <1>3. faults = {} => SummaryInv(r, blank)
    BY <1>2, RequestFacts DEF ReqInv, SummaryInv, Covers
  <1>4. ReqInv(r, last, blank, faults = {})
    BY <1>2, <1>3, RequestFacts DEF ReqInv, SparesInv, PromptInv
  <1>5. QED
    BY <1>1, <1>2, <1>4, QuietStep

LEMMA CheckMetaStep ==
    ASSUME MemInv, NEW q \in Requests, CheckMeta(q)
    PROVE  MemInv'
PROOF
  <1> DEFINE u == req[q]
             cold == IF cached THEN NoLoad ELSE InPostgres
             r == [u EXCEPT !.pc = IF cached THEN "append" ELSE "fill", !.cold = cold,
                            !.upto = 0, !.history = {}]
  <1>1. req' = [req EXCEPT ![q] = r] /\ UNCHANGED <<stored, cached, meta, list>>
        /\ u.pc = "asked"
    BY DEF CheckMeta
  <1>2. cold \in ColdLoad /\ cold.list \subseteq 1..last
        /\ (faults = {} => Covers(cold.state, blank))
    BY RequestFacts, ColdTyped, NothingCovered DEF Remembered
  <1> HIDE DEF cold
  <1>3. /\ r \in RequestState /\ r.pc \in {"append", "fill"} /\ r.cold = cold /\ r.read = u.read
        /\ r.missed = u.missed /\ r.summary = u.summary /\ r.delta = u.delta
    BY <1>2, RequestFacts DEF RequestState
  <1> HIDE DEF r
  <1>4. ReqInv(r, last, blank, faults = {})
    BY <1>1, <1>2, <1>3, RequestFacts DEF ReqInv, SparesInv, SummaryInv, PromptInv
  <1>5. QED
    BY <1>1, <1>3, <1>4, QuietStep

LEMMA FailStep ==
    ASSUME MemInv, NEW q \in Requests, Fail(q)
    PROVE  MemInv'
PROOF
  <1>1. req' = [req EXCEPT ![q] = Idle] /\ UNCHANGED <<stored, cached, meta, list>>
    BY DEF Fail
  <1>2. QED
    BY <1>1, IdleTyped, IdleInv, QuietStep

LEMMA MergeStep ==
    ASSUME MemInv, NEW q \in Requests, MergePending(q)
    PROVE  MemInv'
PROOF
  <1> DEFINE u == req[q]
             waiting == (last - 2 * Len(pending) + 1)..last
             state == IF pending = <<>> THEN u.cold.state ELSE Last(pending)
             cold == [merged |-> TRUE, state |-> state,
                      upto |-> IF pending = <<>> THEN u.cold.upto ELSE last,
                      list |-> u.cold.list \cup waiting]
             r == [u EXCEPT !.cold = cold,
                            !.missed = @ \/ (u.pc = "load" /\ Len(pending) > 1)]
  <1>1. /\ req' = [req EXCEPT ![q] = r] /\ UNCHANGED <<stored, cached, meta, list>>
        /\ u.pc \in {"open", "load", "fill"}
    BY DEF MergePending
  <1>2. /\ Len(pending) \in Nat /\ 2 * Len(pending) <= last /\ last \in 0..MaxMessages
    BY RequestFacts DEF MemInv, TypeOK
  <1>3. state \in SessionState /\ (faults = {} => Covers(state, blank))
    <2>1. CASE pending = <<>>
      BY <2>1, RequestFacts DEF ColdLoad, ReqInv
    <2>2. CASE pending # <<>>
      <3>1. state = Current
        BY <2>2 DEF Current
      <3>2. QED
        BY <3>1, CurrentTyped, CurrentRemembered DEF MemInv, Remembered
    <2>3. QED
      BY <2>1, <2>2
  <1>4. u.cold.list \cup waiting \subseteq 1..last
    <2>1. u.cold.list \subseteq 1..last
      BY RequestFacts DEF ReqInv
    <2>2. waiting \subseteq 1..last
      BY <1>2
    <2>3. QED
      BY <2>1, <2>2
  <1>5. cold \in ColdLoad /\ cold.list \subseteq 1..last
    <2>1. u.cold.list \cup waiting \subseteq Positions
      BY <1>2, <1>4, RequestFacts DEF Positions
    <2> HIDE DEF waiting, state
    <2>2. QED
      BY <1>2, <1>3, <1>4, <2>1, RequestFacts DEF ColdLoad
  <1>6. cold.state = state
    OBVIOUS
  <1> HIDE DEF cold, state, waiting
  <1>7. /\ r \in RequestState /\ r.pc = u.pc /\ r.cold = cold /\ r.read = u.read
        /\ r.summary = u.summary /\ r.delta = u.delta
        /\ (u.pc = "fill" => r.missed = u.missed)
    BY <1>5, RequestFacts DEF RequestState
  <1> HIDE DEF r
  <1>8. ReqInv(r, last, blank, faults = {})
    BY <1>1, <1>3, <1>5, <1>6, <1>7, RequestFacts DEF ReqInv, SparesInv, SummaryInv, PromptInv
  <1>9. QED
    BY <1>1, <1>7, <1>8, QuietStep

LEMMA LoadFacts ==
    ASSUME MemInv, NEW q \in Requests, NEW messages \in SUBSET (1..last), Load(q, messages)
    PROVE  \E r \in RequestState : req' = [req EXCEPT ![q] = r]
                                   /\ ReqInv(r, last, blank, faults = {})
PROOF
  <1> DEFINE u == req[q]
             c == u.read.count
             after == After(messages, c)
             h == Newest(after) \ blank
             r == [u EXCEPT !.pc = "loaded", !.cold = NoLoad, !.history = h,
                            !.missed = @ \/ ~Complete(messages, q)]
  <1>1. req' = [req EXCEPT ![q] = r]
    BY DEF Load
  <1>2. h \subseteq after /\ after \subseteq messages /\ c \in Nat /\ last \in Nat
    BY RequestFacts DEF Newest, After
  <1>3. h \subseteq 1..last /\ h \in SUBSET Positions
    <2> HIDE DEF h, after
    <2>1. h \subseteq 1..last
      BY <1>2
    <2>2. 1..last \subseteq Positions
      BY RequestFacts DEF Positions
    <2>3. QED
      BY <2>1, <2>2
  <1>4. h # {} => c + Cardinality(h) <= last
    <2> HIDE DEF h
    <2>1. h \in SUBSET After(messages, c)
      BY <1>2
    <2>2. QED
      BY <1>2, <2>1, AfterFits
  <1>5. Complete(messages, q) => \E k \in u.upto..last : h = ((c + 1)..k) \ blank
    <2> SUFFICES ASSUME Complete(messages, q)
                 PROVE  \E k \in u.upto..last : h = ((c + 1)..k) \ blank
      OBVIOUS
    <2>1. PICK k \in u.upto..last : messages = 1..k
      BY DEF Complete
    <2>2. Newest(after) = after
      BY DEF Complete
    <2>3. k \in Nat
      BY RequestFacts
    <2>4. after = (c + 1)..k
      BY <1>2, <2>1, <2>3, AfterWhole
    <2>5. QED
      BY <2>2, <2>4
  <1> HIDE DEF h
  <1>6. /\ r \in RequestState /\ r.pc = "loaded" /\ r.cold = NoLoad /\ r.read = u.read
        /\ r.history = h /\ r.upto = u.upto /\ (~r.missed => Complete(messages, q))
    BY <1>3, RequestFacts DEF RequestState
  <1> HIDE DEF r
  <1>7. HistoryInv(r, last, blank)
    BY <1>3, <1>4, <1>5, <1>6 DEF HistoryInv
  <1>8. ReqInv(r, last, blank, faults = {})
    BY <1>6, <1>7, RequestFacts, NothingCovered DEF ReqInv
  <1>9. QED
    BY <1>1, <1>6, <1>8

LEMMA LoadStep ==
    ASSUME MemInv, NEW q \in Requests, LoadHistory(q) \/ Loaded(q)
    PROVE  MemInv'
PROOF
  <1>1. CASE LoadHistory(q)
    <2>1. list \in SUBSET (1..last) /\ Load(q, list)
      BY <1>1 DEF LoadHistory, MemInv, TypeOK
    <2>2. PICK r \in RequestState : req' = [req EXCEPT ![q] = r]
                                    /\ ReqInv(r, last, blank, faults = {})
      BY <2>1, LoadFacts
    <2>3. UNCHANGED <<stored, cached, meta, list>>
      BY <1>1 DEF LoadHistory
    <2>4. QED
      BY <2>2, <2>3, QuietStep
  <1>2. CASE Loaded(q)
    <2>1. req[q].cold.list \in SUBSET (1..last) /\ Load(q, req[q].cold.list)
      BY <1>2, RequestFacts DEF Loaded, ReqInv
    <2>2. PICK r \in RequestState : req' = [req EXCEPT ![q] = r]
                                    /\ ReqInv(r, last, blank, faults = {})
      BY <2>1, LoadFacts
    <2>3. WriteCache(q)
      BY <1>2 DEF Loaded
    <2>4. QED
      BY <2>2, <2>3, CacheStep
  <1>3. QED
    BY <1>1, <1>2

LEMMA CompactStep ==
    ASSUME MemInv, NEW q \in Requests, Compact(q)
    PROVE  MemInv'
PROOF
  <1> DEFINE u == req[q]
             c == u.read.count
             h == u.history
  <1>1. /\ u.pc = "loaded" /\ UNCHANGED <<stored, cached, meta, list>>
        /\ HistoryInv(u, last, blank) /\ c \in Nat /\ last \in Nat /\ u.upto \in Nat
        /\ h \in SUBSET Positions /\ h \in SUBSET (1..last)
    BY RequestFacts DEF Compact, ReqInv, RequestState, HistoryInv
  <1>2. PICK older \in {{}, Older(h)} :
          req' = [req EXCEPT ![q].pc = "asked", ![q].history = h \ older,
                             ![q].summary = u.read.summary \cup older,
                             ![q].delta = Cardinality(older)]
    BY DEF Compact
  <1> DEFINE d == Cardinality(older)
             r == [u EXCEPT !.pc = "asked", !.history = h \ older,
                            !.summary = u.read.summary \cup older, !.delta = d]
  <1>3. req' = [req EXCEPT ![q] = r]
    BY <1>2
  <1> HIDE DEF h
  <1>4. older \subseteq h /\ d \in Nat /\ (older = {} => d = 0)
        /\ (d > 0 => c + d + 2 * RecentTurns <= last)
    <2>1. CASE older = {}
      BY <2>1, FS_EmptySet
    <2>2. CASE older # {}
      <3>1. older = Older(h) /\ Older(h) # {}
        BY <1>2, <2>2
      <3>2. d \in Nat /\ d + 2 * RecentTurns <= Cardinality(h)
        BY <1>1, <3>1, OlderLeavesRecent
      <3>3. older \subseteq h
        BY <3>1 DEF Older
      <3>4. c + Cardinality(h) <= last
        BY <1>1, <2>2, <3>3 DEF HistoryInv, h
      <3>5. Cardinality(h) \in Nat
        <4>1. IsFiniteSet(1..last)
          BY <1>1, IntervalSize
        <4>2. QED
          BY <1>1, <4>1, FS_Subset, FS_CardinalityType
      <3> HIDE DEF d
      <3>6. 2 * RecentTurns \in Nat
        BY MemoryAssumption DEF MemoryAssumption
      <3>7. c \in Nat /\ last \in Nat
        BY <1>1
      <3> HIDE DEF c
      <3>8. c + d + 2 * RecentTurns <= last
        BY <3>2, <3>4, <3>5, <3>6, <3>7
      <3>9. QED
        BY <2>2, <3>2, <3>3, <3>8
    <2>3. QED
      BY <2>1, <2>2
  <1>5. d \in 0..MaxMessages
    <2> HIDE DEF d
    <2>1. CASE d = 0
      BY <2>1, RequestFacts
    <2>2. CASE d > 0
      BY <1>1, <1>4, <2>2, RequestFacts, MemoryAssumption DEF MemoryAssumption
    <2>3. QED
      BY <1>4, <2>1, <2>2
  <1>6. ~u.missed => /\ \A i \in (c + 1)..(c + d) : i \in older \cup blank
                     /\ \E k \in u.upto..last : h = ((c + 1)..k) \ blank
    <2> SUFFICES ASSUME ~u.missed
                 PROVE  /\ \A i \in (c + 1)..(c + d) : i \in older \cup blank
                        /\ \E k \in u.upto..last : h = ((c + 1)..k) \ blank
      OBVIOUS
    <2>1. PICK k \in u.upto..last : h = ((c + 1)..k) \ blank
      BY <1>1 DEF HistoryInv, h
    <2>2. k \in Nat
      BY <1>1
    <2>3. \A i \in (c + 1)..(c + d) : i \in older \cup blank
      <3>1. CASE older = {}
        BY <1>1, <1>4, <3>1
      <3>2. CASE older = Older(h)
        BY <1>1, <2>1, <2>2, <3>2, OlderIsPrefix
      <3>3. QED
        BY <1>2, <3>1, <3>2
    <2>4. QED
      BY <2>1, <2>3
  <1> HIDE DEF d
  <1>7. /\ r \in RequestState /\ r.pc = "asked" /\ r.cold = u.cold /\ r.read = u.read
        /\ r.summary = u.read.summary \cup older /\ r.delta = d /\ r.history = h \ older
        /\ r.missed = u.missed /\ r.upto = u.upto
    BY <1>1, <1>4, <1>5, RequestFacts DEF RequestState
  <1> HIDE DEF r
  <1>8. SparesInv(r, last)
    BY <1>4, <1>7 DEF SparesInv
  <1>9. faults = {} => SummaryInv(r, blank)
    <2> SUFFICES ASSUME faults = {}, r.missed => r.delta = 0, NEW i \in 1..(c + d)
                 PROVE  i \in r.summary \cup blank
      BY <1>7 DEF SummaryInv, Covers
    <2>1. \A j \in 1..c : j \in u.read.summary \cup blank
      BY RequestFacts DEF ReqInv, Covers
    <2>2. CASE i <= c
      BY <1>1, <1>4, <1>7, <2>1, <2>2
    <2>3. CASE i > c
      BY <1>1, <1>4, <1>6, <1>7, <2>3
    <2>4. QED
      BY <1>1, <1>4, <2>2, <2>3
  <1>10. faults = {} => PromptInv(r, blank)
    <2> SUFFICES ASSUME faults = {}, ~r.missed, NEW i \in 1..u.upto
                 PROVE  i \in r.summary \cup r.history \cup blank
      BY <1>7 DEF PromptInv
    <2>1. PICK k \in u.upto..last : h = ((c + 1)..k) \ blank
      BY <1>6, <1>7
    <2>2. \A j \in 1..c : j \in u.read.summary \cup blank
      BY RequestFacts DEF ReqInv, Covers
    <2>3. CASE i <= c
      BY <1>1, <1>7, <2>2, <2>3
    <2>4. CASE i > c
      BY <1>1, <1>7, <2>1, <2>4
    <2>5. QED
      BY <1>1, <2>3, <2>4
  <1>11. ReqInv(r, last, blank, faults = {})
    BY <1>7, <1>8, <1>9, <1>10, RequestFacts DEF ReqInv
  <1>12. QED
    BY <1>1, <1>3, <1>7, <1>11, QuietStep

-----------------------------------------------------------------------------
(* Appending and archiving: what other requests hold stays good.             *)
LEMMA ReqInvKept ==
    ASSUME NEW r \in RequestState, NEW n \in Nat, NEW m \in Nat, n <= m,
           NEW gaps, NEW more, gaps \subseteq more, (more \ gaps) \cap 1..n = {},
           NEW clean \in BOOLEAN, NEW still \in BOOLEAN, still => clean,
           ReqInv(r, n, gaps, clean)
    PROVE  ReqInv(r, m, more, still)
PROOF
  <1>1. /\ r.read.count \in Nat /\ r.delta \in Nat /\ r.upto \in Nat /\ RecentTurns \in Nat
    BY MemoryAssumption DEF RequestState, SessionState, MemoryAssumption
  <1>2. still => Covers(r.read, more) /\ Covers(r.cold.state, more)
    BY DEF ReqInv, Covers
  <1>3. r.cold.list \subseteq 1..m
    BY DEF ReqInv
  <1>4. ASSUME HistoryInv(r, n, gaps)
        PROVE  HistoryInv(r, m, more)
    <2>1. r.history \subseteq 1..m
      BY <1>4 DEF HistoryInv
    <2>2. r.history # {} => r.read.count + Cardinality(r.history) <= m
      <3>1. IsFiniteSet(1..n)
        BY IntervalSize
      <3>2. Cardinality(r.history) \in Nat
        BY <1>4, <3>1, FS_Subset, FS_CardinalityType DEF HistoryInv
      <3>3. QED
        BY <1>1, <1>4, <3>2 DEF HistoryInv
    <2>3. ASSUME ~r.missed
          PROVE  \E k \in r.upto..m : r.history = ((r.read.count + 1)..k) \ more
      <3>1. PICK k \in r.upto..n : r.history = ((r.read.count + 1)..k) \ gaps
        BY <1>4, <2>3 DEF HistoryInv
      <3>2. k \in r.upto..m /\ (r.read.count + 1)..k \subseteq 1..n
        BY <1>1
      <3>3. ((r.read.count + 1)..k) \ gaps = ((r.read.count + 1)..k) \ more
        BY <3>2
      <3>4. QED
        BY <3>1, <3>2, <3>3
    <2>4. QED
      BY <2>1, <2>2, <2>3 DEF HistoryInv
  <1>5. ASSUME SparesInv(r, n)
        PROVE  SparesInv(r, m)
    BY <1>1, <1>5 DEF SparesInv
  <1>6. /\ SummaryInv(r, gaps) => SummaryInv(r, more)
        /\ PromptInv(r, gaps) => PromptInv(r, more)
    BY DEF SummaryInv, PromptInv, Covers
  <1>7. QED
    BY <1>2, <1>3, <1>4, <1>5, <1>6 DEF ReqInv

LEMMA AppendStep ==
    ASSUME MemInv, NEW q \in Requests, AppendExchange(q)
    PROVE  MemInv'
PROOF
  <1> DEFINE u == req[q]
             s == AppendState(q)
  <1>1. PICK empty \in SUBSET ({last + 1, last + 2} \cap MayBeBlank) : blank' = blank \cup empty
    BY DEF AppendExchange
  <1>2. /\ u.pc = "append" /\ cached' = cached /\ archived' = archived
        /\ last' = last + 2 /\ last + 2 <= MaxMessages
        /\ pending' = Append(pending, s) /\ meta' = [state |-> s, upto |-> last + 2]
        /\ list' = list \cup {last + 1, last + 2} /\ req' = [req EXCEPT ![q] = Idle]
        /\ evictions' = evictions
        /\ faults' = faults \cup (IF Overtaken(q) THEN {"overtaken"} ELSE {})
                            \cup (IF u.missed /\ u.delta > 0 THEN {"missed"} ELSE {})
    BY DEF AppendExchange
  <1>3. /\ last \in Nat /\ last' \in Nat /\ last <= last' /\ blank \subseteq blank'
        /\ (blank' \ blank) \cap 1..last = {} /\ blank \subseteq 1..last /\ blank' \subseteq 1..last'
        /\ list \subseteq 1..last /\ list' \subseteq 1..last' /\ cached' \in BOOLEAN
    BY <1>1, <1>2, RequestFacts DEF MemInv, TypeOK
  <1>4. faults \subseteq faults' /\ faults' \subseteq Faults /\ (faults' = {} => faults = {})
    BY <1>2 DEF MemInv, TypeOK, Faults
  <1>5. /\ s.count = meta.state.count + u.delta /\ s.summary = u.summary
        /\ s \in SessionState /\ u.delta \in Nat
    BY RequestFacts DEF AppendState, MemInv, TypeOK, Meta, SessionState, RequestState
  <1> HIDE DEF s
  <1>6. /\ pending' \in Seq(SessionState) /\ Len(pending') = Len(pending) + 1 /\ Current' = s
        /\ \A i \in 1..Len(pending') : (i \in 1..Len(pending) /\ pending'[i] = pending[i])
                                        \/ pending'[i] = s
    <2>1. pending \in Seq(SessionState)
      BY RequestFacts
    <2>2. pending' \in Seq(SessionState) /\ Len(pending') = Len(pending) + 1
      BY <1>2, <1>5, <2>1
    <2>3. \A i \in 1..Len(pending') : (i \in 1..Len(pending) /\ pending'[i] = pending[i])
                                       \/ pending'[i] = s
      BY <1>2, <1>5, <2>1
    <2>4. pending' # <<>> /\ pending'[Len(pending')] = s
      BY <1>2, <1>5, <2>1
    <2>5. QED
      BY <2>2, <2>3, <2>4 DEF Current, Last
  <1>7. "overtaken" \notin faults' => /\ "overtaken" \notin faults /\ u.read = Current
                                      /\ s.count = Current.count + u.delta
    BY <1>2, <1>4, <1>5 DEF Overtaken
  <1>8. SparesInv(u, last) /\ (faults = {} => SummaryInv(u, blank))
    BY <1>2, RequestFacts DEF ReqInv
  <1>9. faults' = {} => Covers(s, blank')
    <2> SUFFICES ASSUME faults' = {} PROVE Covers(s, blank')
      OBVIOUS
    <2>1. faults = {} /\ (u.missed => u.delta = 0)
      <3>1. "missed" \notin faults'
        OBVIOUS
      <3>2. ~(u.missed /\ u.delta > 0)
        BY <1>2, <3>1
      <3>3. QED
        BY <1>4, <1>5, <3>2
    <2>2. s.count = u.read.count + u.delta /\ s.summary = u.summary
      BY <1>5, <1>7
    <2>3. QED
      BY <1>3, <1>8, <2>1, <2>2 DEF SummaryInv, Covers
  <1>10. TypeOK'
    <2>1. req' \in [Requests -> RequestState] /\ evictions' \in Nat /\ archived' \in SessionState
      BY <1>2, IdleTyped DEF MemInv, TypeOK
    <2>2. last' \in 0..MaxMessages /\ 2 * Len(pending') <= last'
      BY <1>2, <1>3, <1>6, RequestFacts DEF MemInv, TypeOK
    <2>3. meta' \in Meta
      <3>1. last + 2 \in 0..MaxMessages
        BY <1>2, <1>3, RequestFacts
      <3>2. QED
        BY <1>2, <1>5, <3>1 DEF Meta
    <2>4. QED
      BY <1>3, <1>4, <1>6, <2>1, <2>2, <2>3 DEF TypeOK
  <1>11. faults' = {} => /\ Remembered(archived)' /\ Remembered(meta.state)'
                         /\ \A i \in 1..Len(pending') : Covers(pending'[i], blank')
    <2> SUFFICES ASSUME faults' = {}
                 PROVE  /\ Covers(archived', blank') /\ Covers(meta'.state, blank')
                        /\ \A i \in 1..Len(pending') : Covers(pending'[i], blank')
      BY DEF Remembered
    <2>1. Covers(archived', blank')
      BY <1>2, <1>3, <1>4 DEF MemInv, Remembered, Covers
    <2>2. Covers(meta'.state, blank')
      BY <1>2, <1>9
    <2>3. \A i \in 1..Len(pending) : Covers(pending[i], blank')
      BY <1>3, <1>4 DEF MemInv, Remembered, Covers
    <2>4. QED
      BY <1>6, <1>9, <2>1, <2>2, <2>3
  <1>12. RecentKept'
    <2> SUFFICES ASSUME "overtaken" \notin faults', s.count > 0
                 PROVE  s.count + 2 * RecentTurns < last'
      BY <1>6 DEF RecentKept
    <2>1. /\ u.read = Current /\ s.count = Current.count + u.delta
          /\ Current.count \in Nat /\ u.delta \in Nat /\ 2 * RecentTurns \in Nat
      BY <1>5, <1>7, CurrentTyped, MemoryAssumption DEF MemInv, SessionState, MemoryAssumption
    <2>2. CASE u.delta = 0
      <3>1. Current.count > 0 /\ Current.count + 2 * RecentTurns < last
        BY <1>7, <2>1, <2>2 DEF MemInv, RecentKept
      <3>2. QED
        BY <1>2, <1>3, <2>1, <2>2, <3>1
    <2>3. CASE u.delta > 0
      <3>1. Current.count + u.delta + 2 * RecentTurns <= last
        BY <1>8, <2>1, <2>3 DEF SparesInv
      <3>2. QED
        BY <1>2, <1>3, <2>1, <3>1
    <2>4. QED
      BY <2>1, <2>2, <2>3
  <1>13. ASSUME NEW p \in Requests
         PROVE  ReqInv(req'[p], last', blank', faults' = {})
    <2>1. CASE p = q
      BY <1>2, <2>1, IdleInv DEF MemInv, TypeOK
    <2>2. CASE p # q
      <3>1. req'[p] = req[p] /\ req[p] \in RequestState
        BY <1>2, <2>2 DEF MemInv, TypeOK
      <3>2. ReqInv(req[p], last, blank, faults = {})
        BY DEF MemInv
      <3>3. ReqInv(req[p], last', blank', faults' = {})
        BY <1>3, <1>4, <3>1, <3>2, ReqInvKept
      <3>4. QED
        BY <3>1, <3>3
    <2>3. QED
      BY <2>1, <2>2
  <1>14. QED
    BY <1>10, <1>11, <1>12, <1>13 DEF MemInv, Remembered

\* Archiving moves the current state, it does not change it.
LEMMA ArchiveStep ==
    ASSUME MemInv, Archive
    PROVE  MemInv'
PROOF
  <1> DEFINE len == Len(pending)
  <1>1. PICK n \in 1..len : /\ archived' = pending[n]
                            /\ pending' = SubSeq(pending, n + 1, len)
    BY DEF Archive
  <1>2. /\ last' = last /\ blank' = blank /\ cached' = cached /\ meta' = meta /\ list' = list
        /\ evictions' = evictions /\ req' = req /\ faults' = faults
    BY DEF Archive
  <1>3. /\ pending \in Seq(SessionState) /\ len \in Nat /\ 2 * len <= last /\ last \in Nat
    BY MemoryAssumption DEF MemInv, TypeOK, MemoryAssumption
  <1>4. /\ archived' \in SessionState /\ pending' \in Seq(SessionState) /\ Len(pending') = len - n
        /\ \A i \in 1..(len - n) : pending'[i] = pending[n + i] /\ n + i \in 1..len
    <2>1. archived' \in SessionState /\ pending' \in Seq(SessionState)
      BY <1>1, <1>3
    <2>2. /\ Len(pending') = len - (n + 1) + 1
          /\ \A i \in 1..(len - (n + 1) + 1) : pending'[i] = pending[n + 1 + i - 1]
      <3>1. n + 1 \in 1..(len + 1) /\ len \in n..len
        BY <1>3
      <3>2. QED
        BY <1>1, <1>3, <3>1, SubSeqProperties
    <2>3. QED
      BY <1>3, <2>1, <2>2
  <1> HIDE DEF len
  <1>5. Current' = Current
    <2>1. CASE n = len
      <3>1. pending' = <<>> /\ pending # <<>>
        BY <1>3, <1>4, <2>1 DEF len
      <3>2. QED
        BY <1>1, <2>1, <3>1 DEF Current, Last, len
    <2>2. CASE n # len
      <3>1. len - n \in 1..(len - n) /\ n + (len - n) = len
        BY <1>3, <2>2
      <3>2. pending'[Len(pending')] = pending[len]
        BY <1>4, <3>1
      <3>3. pending' # <<>> /\ pending # <<>>
        BY <1>3, <1>4, <3>1 DEF len
      <3>4. QED
        BY <3>2, <3>3 DEF Current, Last, len
    <2>3. QED
      BY <2>1, <2>2
  <1>6. TypeOK'
    <2>1. 2 * Len(pending') <= last
      BY <1>3, <1>4
    <2>2. QED
      BY <1>2, <1>4, <2>1 DEF MemInv, TypeOK
  <1>7. RecentKept'
    BY <1>2, <1>5 DEF MemInv, RecentKept
  <1>8. faults' = {} => /\ Covers(archived', blank') /\ Covers(meta'.state, blank')
                        /\ \A i \in 1..Len(pending') : Covers(pending'[i], blank')
    <2> SUFFICES ASSUME faults = {}
                 PROVE  /\ Covers(archived', blank) /\ Covers(meta.state, blank)
                        /\ \A i \in 1..Len(pending') : Covers(pending'[i], blank)
      BY <1>2
    <2>1. Covers(meta.state, blank) /\ \A i \in 1..len : Covers(pending[i], blank)
      BY DEF MemInv, Remembered, len
    <2>2. QED
      BY <1>1, <1>4, <2>1
  <1>9. \A q \in Requests : ReqInv(req'[q], last', blank', faults' = {})
    BY <1>2 DEF MemInv
  <1>10. QED
    BY <1>6, <1>7, <1>8, <1>9 DEF MemInv, Remembered

LEMMA MemNext ==
    ASSUME MemInv, [Next]_vars
    PROVE  MemInv'
PROOF
  <1>1. ASSUME NEW q \in Requests, Open(q) \/ OpenCold(q)
        PROVE  MemInv'
    BY <1>1, OpenStep
  <1>2. ASSUME NEW q \in Requests, Opened(q) \/ Filled(q)
        PROVE  MemInv'
    BY <1>2, OpenedStep
  <1>3. ASSUME NEW q \in Requests, LoadHistory(q) \/ Loaded(q)
        PROVE  MemInv'
    BY <1>3, LoadStep
  <1>4. ASSUME NEW q \in Requests, LoadCold(q)
        PROVE  MemInv'
    BY <1>4, LoadColdStep
  <1>5. ASSUME NEW q \in Requests, MergePending(q)
        PROVE  MemInv'
    BY <1>5, MergeStep
  <1>6. ASSUME NEW q \in Requests, Compact(q)
        PROVE  MemInv'
    BY <1>6, CompactStep
  <1>7. ASSUME NEW q \in Requests, SearchCode(q)
        PROVE  MemInv'
    BY <1>7, SearchCodeStep
  <1>8. ASSUME NEW q \in Requests, CheckMeta(q)
        PROVE  MemInv'
    BY <1>8, CheckMetaStep
  <1>9. ASSUME NEW q \in Requests, AppendExchange(q)
        PROVE  MemInv'
    BY <1>9, AppendStep
  <1>10. ASSUME NEW q \in Requests, Fail(q)
         PROVE  MemInv'
    BY <1>10, FailStep
  <1>11. ASSUME Archive
         PROVE  MemInv'
    BY <1>11, ArchiveStep
  <1>12. ASSUME EvictMeta \/ EvictList
         PROVE  MemInv'
    <2>1. /\ last' = last /\ blank' = blank /\ pending' = pending /\ archived' = archived
          /\ req' = req /\ faults' = faults /\ list' = {} /\ evictions' = evictions + 1
          /\ cached' \in BOOLEAN /\ (meta' = NoMeta \/ meta' = meta)
      BY <1>12 DEF EvictMeta, EvictList, Evict
    <2>2. TypeOK' /\ RecentKept'
      BY <2>1, IdleTyped DEF MemInv, TypeOK, RecentKept, Current
    <2>3. faults' = {} => /\ Covers(archived', blank') /\ Covers(meta'.state, blank')
                          /\ \A i \in 1..Len(pending') : Covers(pending'[i], blank')
      <3>1. Covers(NoMeta.state, blank)
        BY NothingCovered DEF NoMeta
      <3>2. QED
        BY <2>1, <3>1 DEF MemInv, Remembered
    <2>4. \A q \in Requests : ReqInv(req'[q], last', blank', faults' = {})
      BY <2>1 DEF MemInv
    <2>5. QED
      BY <2>2, <2>3, <2>4 DEF MemInv, Remembered
  <1>13. CASE UNCHANGED vars
    <2>1. /\ last' = last /\ blank' = blank /\ pending' = pending /\ archived' = archived
          /\ req' = req /\ faults' = faults /\ list' = list /\ evictions' = evictions
          /\ cached' = cached /\ meta' = meta
      BY <1>13 DEF vars
    <2>2. TypeOK' /\ RecentKept'
      BY <2>1 DEF MemInv, TypeOK, RecentKept, Current
    <2>3. QED
      BY <2>1, <2>2 DEF MemInv, Remembered
  <1>14. QED
    BY <1>1, <1>2, <1>3, <1>4, <1>5, <1>6, <1>7, <1>8, <1>9, <1>10, <1>11, <1>12, <1>13 DEF Next

\* The inductive invariant of a session, whatever its requests, the cache and the archiver
\* do to one another: while no request was overtaken and none compacted an incomplete
\* history, every state that anyone may still read has its excluded messages in its summary.
THEOREM MemoryInvariant == Spec => []MemInv
PROOF
  <1>1. MemInv /\ [Next]_vars => MemInv'
    BY MemNext
  <1>2. QED
    BY MemInit, <1>1, PTL DEF Spec

\* What compacted_message_count excludes from the next prompt is in the rolling summary,
\* unless a request was overtaken (its session state, or the meta hash it appended to, was
\* no longer current) or compacted a history that was not complete: for any number of
\* requests, messages and evictions (main.py rag, append_exchange).
THEOREM MemoryKeepsExcluded == Spec => []ExcludedRemembered
PROOF
  <1>1. MemInv => ExcludedRemembered
    <2> SUFFICES ASSUME MemInv, faults = {}, NEW i \in 1..Current.count
                 PROVE  i \in Current.summary \cup blank
      BY DEF ExcludedRemembered
    <2>1. Remembered(Current)
      BY CurrentRemembered
    <2>2. QED
      BY <2>1 DEF Remembered, Covers
  <1>2. QED
    BY MemoryInvariant, <1>1, PTL

\* The latest turns are loaded in full by the next request, for every number of them and
\* however short the lists were that requests compacted, unless one was overtaken.
THEOREM MemoryKeepsRecent == Spec => []RecentKept
PROOF
  <1>1. MemInv => RecentKept
    BY DEF MemInv
  <1>2. QED
    BY MemoryInvariant, <1>1, PTL

\* The prompt of a request, summary and history together, holds every message there was
\* when the session was read, unless its own load was incomplete or a fault came before
\* (prompt_history, _normalize_history, _compact_history).
THEOREM MemoryKeepsPrompt == Spec => []PromptComplete
PROOF
  <1>1. MemInv => PromptComplete
    BY DEF MemInv, ReqInv, PromptInv, PromptComplete
  <1>2. QED
    BY MemoryInvariant, <1>1, PTL
-----------------------------------------------------------------------------
\* Induction over the index of a sequence.
LEMMA NatInd ==
  ASSUME NEW n \in Nat, NEW T, 0 \in T, \A i \in 1..n : i - 1 \in T => i \in T
  PROVE  \A i \in 0..n : i \in T
<1> SUFFICES ASSUME (0..n) \ T # {} PROVE FALSE
  OBVIOUS
<1> DEFINE U == (0..n) \ T
<1>1. U \in SUBSET Nat /\ U # {}
  OBVIOUS
<1>2. PICK x \in U : \A y \in U : x <= y
  <2> HIDE DEF U
  <2> QED
    BY <1>1, Least
<1>3. x - 1 \in 0..n /\ x-1 \notin U /\ x \in 1..n
  BY <1>2
<1> QED
  BY <1>2, <1>3

\* g[i] is what the first i steps of F make of base.
Iterates(g, A, base, n, F) ==
  g \in [0..n -> A] /\ g[0] = base /\ \A i \in 1..n : g[i] = F[i][g[i-1]]

LEMMA RunExists ==
  ASSUME NEW A, NEW base, base \in A, NEW n, n \in Nat, NEW F, F \in [1..n -> [A -> A]]
  PROVE  \E g : Iterates(g, A, base, n, F)
<1> DEFINE T == {m \in 0..n : \E g \in [0..m -> A] :
                   g[0] = base /\ \A i \in 1..m : g[i] = F[i][g[i-1]]}
<1>1. 0 \in T
  <2> DEFINE g == [i \in 0..0 |-> base]
  <2>1. g \in [0..0 -> A] /\ g[0] = base
    OBVIOUS
  <2> HIDE DEF g
  <2>2. \E f \in [0..0 -> A] : f[0] = base /\ \A i \in 1..0 : f[i] = F[i][f[i-1]]
    BY <2>1
  <2>3. 0 \in 0..n
    OBVIOUS
  <2> QED
    BY <2>2, <2>3
<1>2. ASSUME NEW m \in 1..n, m - 1 \in T PROVE m \in T
  <2>1. PICK g \in [0..(m-1) -> A] : g[0] = base /\ \A i \in 1..(m-1) : g[i] = F[i][g[i-1]]
    BY <1>2
  <2>2. m - 1 \in 0..(m-1) /\ 0..m = 0..(m-1) \cup {m} /\ m \notin 0..(m-1) /\ 0 \in 0..(m-1)
    OBVIOUS
  <2>3. g[m-1] \in A
    BY <2>2
  <2>4. F[m][g[m-1]] \in A
    BY <2>3
  <2> DEFINE h == [i \in 0..m |-> IF i = m THEN F[m][g[m-1]] ELSE g[i]]
  <2>5. h \in [0..m -> A]
    BY <2>2, <2>4
  <2>6. h[0] = base
    BY <2>1, <2>2
  <2>7. ASSUME NEW i \in 1..m PROVE h[i] = F[i][h[i-1]]
    <3>1. i \in 0..m /\ i - 1 \in 0..m /\ i - 1 # m /\ (i # m => i \in 1..(m-1))
      OBVIOUS
    <3>2. h[i-1] = g[i-1]
      BY <3>1
    <3>3. h[i] = IF i = m THEN F[m][g[m-1]] ELSE g[i]
      BY <3>1
    <3> HIDE DEF h
    <3> QED
      BY <3>1, <3>2, <3>3, <2>1
  <2>8. m \in 0..n
    OBVIOUS
  <2> HIDE DEF h
  <2>9. \E f \in [0..m -> A] : f[0] = base /\ \A i \in 1..m : f[i] = F[i][f[i-1]]
    BY <2>5, <2>6, <2>7
  <2> QED
    BY <2>8, <2>9
<1>3. n \in T
  <2> HIDE DEF T
  <2>1. \A m \in 1..n : m - 1 \in T => m \in T
    BY <1>2
  <2>2. \A m \in 0..n : m \in T
    BY <1>1, <2>1, NatInd
  <2> QED
    BY <2>2
<1> QED
  BY <1>3 DEF Iterates

\* Parts, and the texts among them that have a token.
Parts == [from : Int, to : Int, wrapper : Nat]
Texts(w) == {p \in Parts : p.from <= p.to /\ p.wrapper = w}

(* The parts s follow one another from token a to token b. *)
Run(s, a, b) ==
  IF s = <<>> THEN a = b + 1
  ELSE /\ s[1].from = a /\ s[Len(s)].to = b
       /\ \A i \in 1..Len(s) : s[i].from <= s[i].to
       /\ \A i \in 2..Len(s) : s[i].from = s[i-1].to + 1

LEMMA RunAppend ==
  ASSUME NEW s \in Seq(Parts), NEW p \in Parts, p.from <= p.to,
         NEW a \in Int, Run(s, a, p.from - 1)
  PROVE  Append(s, p) \in Seq(Parts) /\ Run(Append(s, p), a, p.to)
<1> DEFINE t == Append(s, p)
<1>1. /\ t \in Seq(Parts) /\ Len(t) = Len(s) + 1 /\ t # <<>> /\ Len(s) \in Nat
      /\ \A i \in 1..Len(s) : t[i] = s[i]
      /\ t[Len(t)] = p
  BY AppendProperties, LenProperties
<1>2. \A i \in 1..Len(s) : s[i] \in Parts
  BY ElementOfSeq
<1> HIDE DEF t
<1>3. CASE s = <<>>
  BY <1>1, <1>3 DEF Run, Parts
<1>4. CASE s # <<>>
  <2>1. Len(s) \in Nat \ {0}
    BY <1>1, <1>4, EmptySeq
  <2>2. t[1].from = a
    BY <1>1, <1>4, <2>1 DEF Run
  <2>3. \A i \in 1..Len(t) : t[i].from <= t[i].to
    <3> SUFFICES ASSUME NEW i \in 1..Len(t) PROVE t[i].from <= t[i].to
      OBVIOUS
    <3>1. CASE i = Len(t)
      BY <1>1, <3>1
    <3>2. CASE i # Len(t)
      <4>1. i \in 1..Len(s)
        BY <1>1, <3>2
      <4> QED
        BY <1>1, <1>4, <4>1 DEF Run
    <3> QED
      BY <3>1, <3>2
  <2>4. \A i \in 2..Len(t) : t[i].from = t[i-1].to + 1
    <3> SUFFICES ASSUME NEW i \in 2..Len(t) PROVE t[i].from = t[i-1].to + 1
      OBVIOUS
    <3>1. i - 1 \in 1..Len(s) /\ t[i-1] = s[i-1]
      BY <1>1
    <3>2. CASE i = Len(t)
      <4>1. t[i-1].to = p.from - 1
        BY <1>1, <1>4, <3>1, <3>2 DEF Run
      <4> QED
        BY <1>1, <3>2, <4>1 DEF Parts
    <3>3. CASE i # Len(t)
      <4>1. i \in 2..Len(s) /\ i \in 1..Len(s)
        BY <1>1, <3>3
      <4> QED
        BY <1>1, <1>4, <3>1, <4>1 DEF Run
    <3> QED
      BY <3>2, <3>3
  <2> QED
    BY <1>1, <2>2, <2>3, <2>4 DEF Run
<1> QED
  BY <1>1, <1>3, <1>4 DEF t

LEMMA RunConcat ==
  ASSUME NEW s \in Seq(Parts), NEW t \in Seq(Parts), NEW a \in Int, NEW b \in Int, NEW c \in Int,
         Run(s, a, b), Run(t, b + 1, c)
  PROVE  s \o t \in Seq(Parts) /\ Run(s \o t, a, c)
<1> DEFINE st == s \o t
<1>1. /\ st \in Seq(Parts) /\ Len(st) = Len(s) + Len(t) /\ Len(s) \in Nat /\ Len(t) \in Nat
      /\ \A i \in 1..Len(s) : st[i] = s[i]
      /\ \A i \in Len(s)+1..Len(st) : st[i] = t[i - Len(s)]
  BY ConcatProperties, LenProperties
<1>2. (s = <<>> <=> Len(s) = 0) /\ (t = <<>> <=> Len(t) = 0) /\ (st = <<>> <=> Len(st) = 0)
  BY <1>1, EmptySeq
<1>3. CASE s = <<>>
  BY <1>3, ConcatEmptySeq DEF Run
<1>4. CASE t = <<>>
  BY <1>4, ConcatEmptySeq DEF Run
<1>5. CASE s # <<>> /\ t # <<>>
  <2> HIDE DEF st
  <2>1. st # <<>> /\ Len(s) > 0 /\ Len(t) > 0
    BY <1>1, <1>2, <1>5
  <2>2. st[1].from = a /\ st[Len(st)].to = c
    <3>1. 1 \in 1..Len(s) /\ Len(st) \in Len(s)+1..Len(st) /\ Len(st) - Len(s) = Len(t)
      BY <1>1, <2>1
    <3> QED
      BY <1>1, <1>5, <3>1 DEF Run
  <2>3. ASSUME NEW i \in 1..Len(st) PROVE st[i].from <= st[i].to
    <3>1. CASE i \in 1..Len(s)
      BY <1>1, <1>5, <3>1 DEF Run
    <3>2. CASE i \notin 1..Len(s)
      <4>1. i \in Len(s)+1..Len(st) /\ i - Len(s) \in 1..Len(t)
        BY <1>1, <3>2
      <4> QED
        BY <1>1, <1>5, <4>1 DEF Run
    <3> QED
      BY <3>1, <3>2
  <2>4. ASSUME NEW i \in 2..Len(st) PROVE st[i].from = st[i-1].to + 1
    <3>1. CASE i \in 2..Len(s)
      <4>1. i \in 1..Len(s) /\ i - 1 \in 1..Len(s)
        BY <1>1, <3>1
      <4> QED
        BY <1>1, <1>5, <3>1, <4>1 DEF Run
    <3>2. CASE i = Len(s) + 1
      <4>1. i - 1 \in 1..Len(s) /\ i \in Len(s)+1..Len(st) /\ i - Len(s) = 1 /\ i - 1 = Len(s)
        BY <1>1, <2>1, <3>2
      <4> QED
        BY <1>1, <1>5, <4>1 DEF Run
    <3>3. CASE i > Len(s) + 1
      <4>1. /\ i \in Len(s)+1..Len(st) /\ i - 1 \in Len(s)+1..Len(st)
            /\ i - Len(s) \in 2..Len(t) /\ (i - 1) - Len(s) = (i - Len(s)) - 1
        BY <1>1, <3>3
      <4> QED
        BY <1>1, <1>5, <4>1 DEF Run
    <3> QED
      BY <1>1, <3>1, <3>2, <3>3
  <2> QED
    BY <2>1, <2>2, <2>3, <2>4, <1>1, <1>5 DEF Run, st
<1> QED
  BY <1>1, <1>3, <1>4, <1>5
-----------------------------------------------------------------------------
\* The recursive functions of the chunker, unfolded: what each computes, step by step.
LEMMA UnitsUnfold ==
  ASSUME NEW w \in Nat, NEW part \in Texts(w), NEW lasts
  PROVE \E m \in Nat : m = part.to - part.from + 1 /\ \E u \in [0..m -> Seq(Parts)] :
     /\ u[0] = <<>>
     /\ \A n \in 1..m : u[n] = EndUnit(u[n-1], part, part.from + n - 1, lasts)
     /\ Units(part, lasts) = u[m]
<1> DEFINE m == part.to - part.from + 1
           D(n, s) == EndUnit(s, part, part.from + n - 1, lasts)
           F == [n \in 1..m |-> [s \in Seq(Parts) |-> D(n, s)]]
           Eq(f) == f = [n \in 0..m |-> IF n = 0 THEN <<>> ELSE D(n, f[n-1])]
           u == CHOOSE f : Eq(f)
<1>0. m \in Nat /\ 0 \in 0..m /\ <<>> \in Seq(Parts)
  BY DEF Texts, Parts
<1>1. ASSUME NEW n \in 1..m, NEW s \in Seq(Parts) PROVE D(n, s) \in Seq(Parts)
  <2>1. ASSUME s # <<>> PROVE Last(s) \in Parts
    BY <2>1 DEF Last
  <2> DEFINE from == IF s = <<>> THEN part.from ELSE Last(s).to + 1
  <2>2. from \in Int /\ part.from + n - 1 \in Int /\ part.wrapper \in Nat
    BY <2>1, <1>0 DEF Texts, Parts
  <2> HIDE DEF from
  <2>3. Part(from, part.from + n - 1, part.wrapper) \in Parts
    BY <2>2 DEF Part, Parts
  <2>4. D(n, s) \in {s, Append(s, Part(from, part.from + n - 1, part.wrapper))}
    BY DEF EndUnit, from
  <2> QED
    BY <2>3, <2>4
<1>2. Units(part, lasts) = u[m]
  BY DEF Units
<1> HIDE DEF D, m
<1>3. F \in [1..m -> [Seq(Parts) -> Seq(Parts)]]
  BY <1>1
<1>4. \A n \in 1..m, s \in Seq(Parts) : F[n][s] = D(n, s)
  OBVIOUS
<1> HIDE DEF F
<1>5. PICK g : Iterates(g, Seq(Parts), <<>>, m, F)
  BY <1>0, <1>3, RunExists
<1>6. Eq(g)
  <2>1. ASSUME NEW n \in 1..m PROVE g[n] = D(n, g[n-1])
    <3>1. g[n-1] \in Seq(Parts) /\ g[n] = F[n][g[n-1]]
      BY <1>0, <1>5 DEF Iterates
    <3> QED
      BY <1>4, <3>1
  <2>2. \A n \in 0..m : g[n] = IF n = 0 THEN <<>> ELSE D(n, g[n-1])
    BY <1>0, <1>5, <2>1 DEF Iterates
  <2> QED
    BY <1>5, <2>2 DEF Iterates
<1>7. Eq(u)
  <2> HIDE DEF Eq
  <2> QED
   BY <1>6
<1> HIDE DEF u
<1>8. u[0] = <<>> /\ \A n \in 1..m : u[n] = D(n, u[n-1])
  BY <1>7, <1>0
<1>9. u \in [0..m -> Seq(Parts)]
 <2> DEFINE T == {i \in 0..m : u[i] \in Seq(Parts)}
 <2>1. 0 \in T
   BY <1>8, <1>0
 <2>2. \A i \in 1..m : i - 1 \in T => i \in T
   BY <1>8, <1>1
 <2>3. \A i \in 0..m : i \in T
   <3> HIDE DEF T
   <3> QED
    BY <2>1, <2>2, NatInd, <1>0
 <2> QED
  BY <2>3, <1>7
<1>10. m = part.to - part.from + 1
  BY DEF m
<1> QED
  BY <1>0, <1>2, <1>8, <1>9, <1>10 DEF D

LEMMA EndUnitRun ==
  ASSUME NEW w \in Nat, NEW part \in Texts(w), NEW lasts, NEW s \in Seq(Texts(w)),
         NEW b \in Int, Run(s, part.from, b), NEW e \in Int, b < e
  PROVE  LET t == EndUnit(s, part, e, lasts)
         IN  /\ t \in Seq(Texts(w))
             /\ (t = s /\ e # part.to) \/ Run(t, part.from, e)
<1> DEFINE from == IF s = <<>> THEN part.from ELSE Last(s).to + 1
           p == Part(from, e, part.wrapper)
<1>1. \A x \in Texts(w) : x \in Parts
  BY DEF Texts
<1>2. s \in Seq(Parts)
  BY <1>1
<1>3. from = b + 1 /\ b + 1 \in Int
  <2>1. CASE s = <<>>
    BY <2>1 DEF Run, Texts, Parts
  <2>2. CASE s # <<>>
    BY <2>2 DEF Run, Last
  <2> QED
    BY <2>1, <2>2
<1>4. /\ EndUnit(s, part, e, lasts) = IF e \in lasts \/ e = part.to THEN Append(s, p) ELSE s
  BY DEF EndUnit
<1>5. p \in Texts(w) /\ p.from = b + 1 /\ p.to = e
  BY <1>3 DEF Part, Texts, Parts
<1> HIDE DEF p, from
<1>6. Run(s, part.from, p.from - 1) /\ part.from \in Int
  <2>1. p.from - 1 = b
    BY <1>5
  <2> QED
    BY <2>1 DEF Texts, Parts
<1>7. Run(Append(s, p), part.from, e)
  <2>1. p \in Parts /\ p.from <= p.to
    BY <1>5 DEF Texts
  <2> QED
    BY <1>2, <1>5, <1>6, <2>1, RunAppend
<1>8. Append(s, p) \in Seq(Texts(w))
  BY <1>5
<1> QED
  BY <1>4, <1>7, <1>8

(* The units of a text follow one another from its first to its last token. *)
LEMMA UnitsRun ==
  ASSUME NEW w \in Nat, NEW part \in Texts(w), NEW lasts
  PROVE  /\ Units(part, lasts) \in Seq(Texts(w))
         /\ Run(Units(part, lasts), part.from, part.to)
<1>0. part.from \in Int /\ part.to \in Int /\ part.from <= part.to
  BY DEF Texts, Parts
<1>1. PICK m \in Nat : m = part.to - part.from + 1 /\ \E u \in [0..m -> Seq(Parts)] :
     /\ u[0] = <<>>
     /\ \A n \in 1..m : u[n] = EndUnit(u[n-1], part, part.from + n - 1, lasts)
     /\ Units(part, lasts) = u[m]
  BY UnitsUnfold
<1>2. PICK u \in [0..m -> Seq(Parts)] :
     /\ u[0] = <<>>
     /\ \A n \in 1..m : u[n] = EndUnit(u[n-1], part, part.from + n - 1, lasts)
     /\ Units(part, lasts) = u[m]
  BY <1>1
<1> DEFINE Cut(n) == /\ u[n] \in Seq(Texts(w))
                     /\ \E b \in Int : b < part.from + n /\ Run(u[n], part.from, b)
           T == {n \in 0..m : Cut(n)}
<1>3. Cut(0)
  <2>1. <<>> \in Seq(Texts(w)) /\ Run(<<>>, part.from, part.from - 1) /\ part.from - 1 \in Int
    BY <1>0 DEF Run
  <2> QED
    BY <1>0, <1>2, <2>1
<1>4. ASSUME NEW n \in 1..m, Cut(n-1)
      PROVE  Cut(n) /\ (n = m => Run(u[n], part.from, part.to))
  <2> DEFINE e == part.from + n - 1
  <2>1. PICK b \in Int : b < e /\ Run(u[n-1], part.from, b)
    BY <1>4, <1>0
  <2>2. u[n] = EndUnit(u[n-1], part, e, lasts) /\ u[n-1] \in Seq(Texts(w)) /\ e \in Int
    <3>1. u[n-1] \in Seq(Texts(w))
      BY <1>4
    <3>2. e \in Int
      BY <1>0
    <3> QED
      BY <1>2, <3>1, <3>2
  <2>3. n = m => e = part.to
    BY <1>0, <1>1
  <2>4. e < part.from + n
    BY <1>0
  <2> HIDE DEF e
  <2>5. u[n] \in Seq(Texts(w)) /\ ((u[n] = u[n-1] /\ e # part.to) \/ Run(u[n], part.from, e))
    BY <2>1, <2>2, EndUnitRun
  <2>6. b < part.from + n
    BY <2>1, <2>2, <2>4, <1>0
  <2> QED
    BY <2>1, <2>2, <2>3, <2>4, <2>5, <2>6
<1>5. m \in 1..m /\ m - 1 \in 0..m
  BY <1>0, <1>1
<1>6. \A n \in 0..m : n \in T
  <2>1. 0 \in T /\ \A n \in 1..m : n - 1 \in T => n \in T
    BY <1>3, <1>4
  <2> HIDE DEF T
  <2> QED
    BY <2>1, NatInd
<1>7. Cut(m-1) /\ Cut(m)
  BY <1>5, <1>6
<1>8. Run(u[m], part.from, part.to)
  <2> HIDE DEF Cut
  <2> QED
    BY <1>4, <1>5, <1>7
<1> QED
  BY <1>2, <1>7, <1>8
-----------------------------------------------------------------------------
Within(max) == {p \in Parts : p.from <= p.to /\ Tokens(p) <= max}

LEMMA Division ==
  ASSUME NEW m \in Nat, NEW r \in Nat, r > 0
  PROVE  /\ m \div r \in Nat
         /\ (m \div r) * r <= m
         /\ m < (m \div r) * r + r
BY Z3

(* A text above its budget is cut into pieces that fill it. *)
LEMMA TokenPartsRun ==
  ASSUME NEW w \in Nat, NEW part \in Texts(w), NEW max \in Nat, w < max
  PROVE  /\ TokenParts(part, max) \in Seq(Texts(w) \cap Within(max))
         /\ Run(TokenParts(part, max), part.from, part.to)
<1> DEFINE size == part.to - part.from + 1
           room == max - part.wrapper
           count == (part.to - part.from + room) \div room
           s == TokenParts(part, max)
           from(i) == part.from + (i-1) * room
           to(i) == IF i = count THEN part.to ELSE from(i) + room - 1
<1>0. part.from \in Int /\ part.to \in Int /\ part.from <= part.to /\ part.wrapper = w
  BY DEF Texts, Parts
<1>1. room \in Nat /\ room > 0 /\ size \in Nat /\ size > 0
  BY <1>0
<1>2. part.to - part.from + room = size + room - 1 /\ size + room - 1 \in Nat
  BY <1>0, <1>1
<1>3. s = [i \in 1..count |-> Part(from(i), to(i), part.wrapper)]
  BY DEF TokenParts
<1> HIDE DEF room, s
<1>4. count \in Nat /\ count * room <= size + room - 1 /\ size + room - 1 < count * room + room
  BY <1>1, <1>2, Division
<1> HIDE DEF size, count
<1>5. count > 0
  <2>1. ASSUME count = 0 PROVE FALSE
    <3>1. count * room = 0
      BY <2>1, <1>1
    <3> QED
      BY <1>1, <1>4, <3>1
  <2> QED
    BY <2>1, <1>4
<1>6. ASSUME NEW i \in 1..count PROVE (i - 1) * room \in Nat /\ (i-1) * room + room = i * room
  BY <1>1, <1>4
<1>7. ASSUME NEW i \in 1..count
      PROVE  /\ from(i) \in Int /\ to(i) \in Int /\ from(i) <= to(i)
             /\ to(i) - from(i) + 1 <= room
  <2>1. from(i) \in Int
    BY <1>0, <1>6
  <2>2. CASE i = count
    <3>1. (i - 1) * room + room = count * room
      BY <1>6, <2>2
    <3>2. (i - 1) * room <= size - 1 /\ size <= (i-1) * room + room
      BY <1>1, <1>4, <1>6, <3>1
    <3> QED
      BY <1>0, <1>1, <1>6, <2>2, <3>2 DEF size
  <2>3. CASE i # count
    BY <1>1, <2>1, <2>3
  <2> QED
    BY <2>2, <2>3
<1>8. /\ s \in Seq(Texts(w) \cap Within(max)) /\ Len(s) = count
      /\ \A i \in 1..count : s[i].from = from(i) /\ s[i].to = to(i)
  <2>1. ASSUME NEW i \in 1..count
        PROVE  Part(from(i), to(i), part.wrapper) \in Texts(w) \cap Within(max)
    <3> HIDE DEF from, to
    <3> QED
      BY <1>0, <1>7 DEF Part, Texts, Within, Parts, Tokens, room
  <2> HIDE DEF from, to
  <2>2. s \in [1..count -> Texts(w) \cap Within(max)]
    BY <1>3, <2>1
  <2>3. s \in Seq(Texts(w) \cap Within(max)) /\ Len(s) = count
    BY <1>3, <1>4, <2>2, LenProperties, IsASeq
  <2> QED
    BY <1>3, <2>3 DEF Part
<1>9. from(1) = part.from /\ to(count) = part.to
  BY <1>0, <1>1, <1>5
<1>10. ASSUME NEW i \in 2..count PROVE from(i) = to(i-1) + 1
  <2>1. i - 1 \in 1..count /\ i - 1 # count /\ i \in 1..count
    BY <1>4
  <2>2. (i - 2) * room + room = (i - 1) * room /\ (i-2) * room \in Nat /\ (i-1) * room \in Nat
    BY <1>6, <2>1
  <2>3. to(i-1) = part.from + (i-2) * room + room - 1
    BY <2>1
  <2> QED
    BY <1>0, <1>1, <2>2, <2>3
<1> HIDE DEF from, to
<1>11. s # <<>>
  BY <1>5, <1>8
<1>12. Run(s, part.from, part.to)
  <2>1. 1 \in 1..count /\ count \in 1..count
    BY <1>4, <1>5
  <2>2. \A i \in 2..count : i \in 1..count /\ i - 1 \in 1..count
    BY <1>4
  <2> QED
    BY <1>7, <1>8, <1>9, <1>10, <1>11, <2>1, <2>2 DEF Run
<1> QED
  BY <1>8, <1>12 DEF s
-----------------------------------------------------------------------------
LEMMA PackedUnfold ==
  ASSUME NEW w \in Nat, NEW units \in Seq(Texts(w)), NEW max \in Nat, w < max
  PROVE  \E u : /\ u[0] = Nothing
                /\ \A n \in 1..Len(units) : u[n] = AddUnit(u[n-1], units[n], max)
                /\ Packed(units, max) = u[Len(units)]
<1> DEFINE m == Len(units)
           A == [done : Seq(Parts), open : Seq(Parts)]
           D(n, s) == AddUnit(s, units[n], max)
           F == [n \in 1..m |-> [s \in A |-> D(n, s)]]
           Eq(f) == f = [n \in 0..m |-> IF n = 0 THEN Nothing ELSE D(n, f[n-1])]
           u == CHOOSE f : Eq(f)
<1>0. m \in Nat /\ 0 \in 0..m /\ m \in 0..m /\ Nothing \in A
  BY DEF Nothing
<1>1. ASSUME NEW n \in 1..m, NEW s \in A PROVE D(n, s) \in A
  <2>1. units[n] \in Texts(w) /\ units[n] \in Parts
    BY DEF Texts
  <2>2. TokenParts(units[n], max) \in Seq(Parts)
    <3>1. TokenParts(units[n], max) \in Seq(Texts(w) \cap Within(max))
      BY <2>1, TokenPartsRun
    <3> QED
      BY <3>1 DEF Texts
  <2>3. Extend(s.open, units[n]) \in Seq(Parts)
    <3>1. CASE s.open = <<>>
      BY <2>1, <3>1 DEF Extend
    <3>2. CASE s.open # <<>>
      <4>1. s.open[1] \in Parts
        BY <3>2
      <4> QED
        BY <2>1, <3>2, <4>1 DEF Extend, Part, Parts
    <3> QED
      BY <3>1, <3>2
  <2>4. s.done \in Seq(Parts) /\ s.done \o s.open \in Seq(Parts)
        /\ s.done \o s.open \o TokenParts(units[n], max) \in Seq(Parts)
        /\ <<units[n]>> \in Seq(Parts) /\ <<>> \in Seq(Parts)
    BY <2>1, <2>2
  <2> QED
    BY <2>3, <2>4 DEF AddUnit
<1>2. Packed(units, max) = u[m]
  BY DEF Packed
<1> HIDE DEF D, m, A
<1>3. F \in [1..m -> [A -> A]]
  BY <1>1
<1>4. \A n \in 1..m, s \in A : F[n][s] = D(n, s)
  OBVIOUS
<1> HIDE DEF F
<1>5. PICK g : Iterates(g, A, Nothing, m, F)
  BY <1>0, <1>3, RunExists
<1>6. Eq(g)
  <2>1. ASSUME NEW n \in 1..m PROVE g[n] = D(n, g[n-1])
    <3>1. g[n-1] \in A /\ g[n] = F[n][g[n-1]]
      BY <1>0, <1>5 DEF Iterates
    <3> QED
      BY <1>4, <3>1
  <2>2. \A n \in 0..m : g[n] = IF n = 0 THEN Nothing ELSE D(n, g[n-1])
    BY <1>0, <1>5, <2>1 DEF Iterates
  <2> QED
    BY <1>5, <2>2 DEF Iterates
<1>7. Eq(u)
  <2> HIDE DEF Eq
  <2> QED
   BY <1>6
<1> HIDE DEF u
<1>8. u[0] = Nothing /\ \A n \in 1..m : u[n] = D(n, u[n-1])
  BY <1>7, <1>0
<1> QED
  BY <1>2, <1>8 DEF D, m

(* What has been packed so far follows one another from a to b, within budget. *)
PackedRun(packed, w, max, a, b) ==
  /\ packed \in [done : Seq(Texts(w) \cap Within(max)), open : Seq(Texts(w) \cap Within(max))]
  /\ Len(packed.open) <= 1
  /\ \E c \in Int : Run(packed.done, a, c) /\ Run(packed.open, c + 1, b)

LEMMA RunOne ==
  ASSUME NEW p, p.from <= p.to
  PROVE  Run(<<p>>, p.from, p.to)
BY DEF Run

LEMMA LenOne ==
  ASSUME NEW S, NEW s \in Seq(S), s # <<>>, Len(s) <= 1
  PROVE  Len(s) = 1
<1>1. Len(s) \in Nat \ {0}
  BY EmptySeq
<1>2. ASSUME NEW n \in Nat \ {0}, n <= 1 PROVE n = 1
  BY <1>2
<1> QED
  BY <1>1, <1>2

LEMMA AddUnitRun ==
  ASSUME NEW w \in Nat, NEW unit \in Texts(w), NEW max \in Nat, w < max, NEW a \in Int,
         NEW b \in Int, unit.from = b + 1, NEW packed, PackedRun(packed, w, max, a, b)
  PROVE  PackedRun(AddUnit(packed, unit, max), w, max, a, unit.to)
<1> DEFINE X == Texts(w) \cap Within(max)
           open == packed.open
           wider == Extend(open, unit)
           done == packed.done \o open
           r == AddUnit(packed, unit, max)
<1>1. /\ packed.done \in Seq(X) /\ open \in Seq(X) /\ Len(open) <= 1
      /\ \E c \in Int : Run(packed.done, a, c) /\ Run(open, c + 1, b)
  BY DEF PackedRun
<1>2. PICK c \in Int : Run(packed.done, a, c) /\ Run(open, c + 1, b)
  BY <1>1
<1>3. /\ unit.from \in Int /\ unit.to \in Int /\ unit.from <= unit.to /\ unit.wrapper = w
      /\ X \subseteq Parts /\ unit \in Parts
  BY DEF Texts, Parts
<1>4. done \in Seq(X) /\ Run(done, a, b)
  <2>1. packed.done \in Seq(Parts) /\ open \in Seq(Parts)
    <3> HIDE DEF X, open
    <3>1. Seq(X) \subseteq Seq(Parts)
      BY <1>3
    <3> QED
      BY <1>1, <3>1
  <2>2. Run(done, a, b)
    <3> HIDE DEF X, open
    <3> QED
      BY <1>2, <2>1, RunConcat
  <2>3. done \in Seq(X)
    <3> HIDE DEF X, open
    <3> QED
      BY <1>1
  <2> QED
    BY <2>2, <2>3
<1>5. Len(wider) = 1 /\ wider[1] \in Texts(w) /\ wider = <<wider[1]>>
      /\ wider[1].from = c + 1 /\ wider[1].to = unit.to
  <2>1. CASE open = <<>>
    <3>1. c + 1 = b + 1
      BY <1>2, <2>1 DEF Run
    <3> QED
      BY <1>3, <2>1, <3>1 DEF Extend
  <2>2. CASE open # <<>>
    <3>1. /\ open[1].from = c + 1 /\ open[1].from <= open[1].to
          /\ open[1].to = b
      <4> HIDE DEF open, X
      <4>1. Len(open) = 1
        BY <1>1, <2>2, LenOne, Zenon
      <4> QED
        BY <1>2, <2>2, <4>1 DEF Run
    <3>2. wider = <<Part(c + 1, unit.to, w)>> /\ c + 1 <= unit.to
      BY <1>3, <2>2, <3>1 DEF Extend, Parts
    <3> QED
      BY <1>3, <3>2 DEF Part, Texts, Parts
  <2> QED
    BY <2>1, <2>2
<1> HIDE DEF X, done, wider, open
<1>6. CASE Tokens(wider[1]) <= max
  <2>1. r = [done |-> packed.done, open |-> wider]
    BY <1>6 DEF AddUnit, wider, done, open
  <2>2. wider \in Seq(X)
    <3>1. PICK x \in X : x = wider[1]
      BY <1>5, <1>6 DEF X, Within, Texts
    <3>2. <<x>> \in Seq(X)
      OBVIOUS
    <3> QED
      BY <1>5, <3>1, <3>2
  <2>3. Run(wider, c + 1, unit.to)
    <3>1. wider[1].from <= wider[1].to
      BY <1>5 DEF Texts
    <3> QED
      BY <1>5, <3>1, RunOne
  <2>4. r.done = packed.done /\ r.open = wider /\ r \in [done : Seq(X), open : Seq(X)]
    BY <1>1, <2>1, <2>2
  <2>5. \E d \in Int : Run(r.done, a, d) /\ Run(r.open, d + 1, unit.to)
    <3> HIDE DEF r
    <3> QED
      BY <1>2, <2>3, <2>4
  <2>6. Len(r.open) <= 1
    <3>1. Len(wider) = 1 /\ r.open = wider
      BY <1>5, <2>4
    <3> HIDE DEF r
    <3>2. Len(r.open) = 1
      BY <3>1, Zenon
    <3> QED
      BY <3>2
  <2> HIDE DEF r
  <2>7. PackedRun(r, w, max, a, unit.to)
    BY <2>4, <2>5, <2>6 DEF PackedRun, X
  <2> QED
    BY <2>7 DEF r
<1>7. CASE ~(Tokens(wider[1]) <= max) /\ Tokens(unit) <= max
  <2>1. r = [done |-> done, open |-> <<unit>>]
    BY <1>7 DEF AddUnit, wider, done, open
  <2>2. <<unit>> \in Seq(X) /\ Len(<<unit>>) = 1
    <3>1. unit \in X
      BY <1>3, <1>7 DEF X, Within
    <3> QED
      BY <3>1
  <2>3. Run(<<unit>>, b + 1, unit.to)
    BY <1>3, RunOne
  <2> QED
    BY <1>4, <2>1, <2>2, <2>3 DEF PackedRun, X
<1>8. CASE ~(Tokens(wider[1]) <= max) /\ ~(Tokens(unit) <= max)
  <2> DEFINE t == TokenParts(unit, max)
  <2>1. r = [done |-> done \o t, open |-> <<>>]
    BY <1>8 DEF AddUnit, wider, done, open
  <2>2. t \in Seq(X) /\ Run(t, b + 1, unit.to)
    BY <1>3, TokenPartsRun DEF X
  <2> HIDE DEF t
  <2>3. done \o t \in Seq(X) /\ Run(done \o t, a, unit.to)
    <3>1. Seq(X) \subseteq Seq(Parts)
      BY <1>3
    <3> QED
      BY <1>3, <1>4, <2>2, <3>1, RunConcat
  <2>4. <<>> \in Seq(X) /\ Run(<<>>, unit.to + 1, unit.to) /\ Len(<<>>) = 0
    BY <1>3 DEF Run
  <2> QED
    BY <1>3, <2>1, <2>3, <2>4 DEF PackedRun, X
<1> QED
  BY <1>6, <1>7, <1>8

(* Units that follow one another are packed into texts that do, each within budget. *)
LEMMA PackUnitsRun ==
  ASSUME NEW w \in Nat, NEW units \in Seq(Texts(w)), NEW max \in Nat, w < max,
         NEW a \in Int, NEW b \in Int, units # <<>>, Run(units, a, b)
  PROVE  /\ PackUnits(units, max) \in Seq(Texts(w) \cap Within(max))
         /\ Run(PackUnits(units, max), a, b)
<1> DEFINE m == Len(units)
           X == Texts(w) \cap Within(max)
<1>1. PICK u : /\ u[0] = Nothing
               /\ \A n \in 1..m : u[n] = AddUnit(u[n-1], units[n], max)
               /\ Packed(units, max) = u[m]
  BY PackedUnfold
<1>2. m \in Nat /\ m > 0
  BY EmptySeq
<1>3. /\ units[1].from = a /\ units[m].to = b
      /\ \A i \in 2..m : units[i].from = units[i-1].to + 1
  BY DEF Run
<1>4. \A i \in 1..m : units[i] \in Texts(w) /\ units[i].from \in Int /\ units[i].to \in Int
  <2>1. \A x \in Texts(w) : x.from \in Int /\ x.to \in Int
    BY DEF Texts, Parts
  <2>2. \A i \in 1..m : units[i] \in Texts(w)
    OBVIOUS
  <2> QED
    BY <2>1, <2>2
<1> DEFINE Upto(n) == IF n = 0 THEN a - 1 ELSE units[n].to
           T == {n \in 0..m : PackedRun(u[n], w, max, a, Upto(n))}
<1> HIDE DEF m
<1>5. 0 \in T
  <2>1. Nothing \in [done : Seq(X), open : Seq(X)] /\ Len(Nothing.open) <= 1
    BY DEF Nothing
  <2>2. Run(Nothing.done, a, a - 1) /\ Run(Nothing.open, (a - 1) + 1, a - 1) /\ a - 1 \in Int
    BY DEF Nothing, Run
  <2>3. Upto(0) = a - 1 /\ 0 \in 0..m
    BY <1>2
  <2>4. PackedRun(Nothing, w, max, a, a - 1)
    BY <2>1, <2>2 DEF PackedRun
  <2> HIDE DEF Upto
  <2> QED
    BY <1>1, <2>3, <2>4
<1>6. ASSUME NEW n \in 1..m, n - 1 \in T PROVE n \in T
  <2>1. units[n].from = Upto(n - 1) + 1 /\ Upto(n - 1) \in Int
    <3>1. CASE n = 1
      BY <1>2, <1>3, <3>1
    <3>2. CASE n # 1
      <4>1. n \in 2..m /\ n - 1 \in 1..m /\ n - 1 # 0
        BY <1>2, <3>2
      <4> QED
        BY <1>3, <1>4, <4>1
    <3> QED
      BY <3>1, <3>2
  <2>2. PackedRun(u[n-1], w, max, a, Upto(n - 1)) /\ Upto(n) = units[n].to /\ n \in 0..m
    BY <1>2, <1>6
  <2> HIDE DEF Upto
  <2>3. PackedRun(AddUnit(u[n-1], units[n], max), w, max, a, units[n].to)
    BY <1>4, <2>1, <2>2, AddUnitRun
  <2>4. u[n] = AddUnit(u[n-1], units[n], max)
    BY <1>1
  <2> QED
    BY <2>2, <2>3, <2>4
<1>7. PackedRun(u[m], w, max, a, b)
  <2>1. \A n \in 0..m : n \in T
    <3> HIDE DEF T
    <3> QED
      BY <1>2, <1>5, <1>6, NatInd
  <2>2. m \in T /\ Upto(m) = b
    BY <1>2, <1>3, <2>1
  <2> HIDE DEF Upto
  <2> QED
    BY <2>2
<1> DEFINE p == Packed(units, max)
<1>8. /\ p.done \in Seq(X) /\ p.open \in Seq(X)
      /\ \E c \in Int : Run(p.done, a, c) /\ Run(p.open, c + 1, b)
  BY <1>1, <1>7 DEF PackedRun
<1>9. PackUnits(units, max) = p.done \o p.open
  BY DEF PackUnits
<1> HIDE DEF p
<1>10. X \subseteq Parts
  BY DEF Texts
<1> HIDE DEF X
<1>11. Seq(X) \subseteq Seq(Parts)
  BY <1>10
<1>12. PackUnits(units, max) \in Seq(X) /\ Run(PackUnits(units, max), a, b)
  BY <1>8, <1>9, <1>11, RunConcat
<1> QED
  BY <1>12 DEF X
-----------------------------------------------------------------------------
LEMMA FlattenUnfold ==
  ASSUME NEW X, NEW seqs \in Seq(Seq(X)), seqs # <<>>
  PROVE  \E u : /\ u[0] = <<>>
                /\ \A i \in 1..Len(seqs) : u[i] = u[i-1] \o seqs[i]
                /\ FlattenSeq(seqs) = u[Len(seqs)]
<1> DEFINE m == Len(seqs)
           F == [n \in 1..m |-> [s \in Seq(X) |-> s \o seqs[n]]]
           Eq(f) == f = [i \in 1..m |-> IF i = 1 THEN seqs[i] ELSE f[i-1] \o seqs[i]]
           f0 == CHOOSE f : Eq(f)
<1>1. m \in Nat /\ m > 0 /\ 1 \in 1..m
  BY EmptySeq
<1>2. FlattenSeq(seqs) = f0[m]
  BY <1>1 DEF FlattenSeq
<1>3. \A i \in 1..m : seqs[i] \in Seq(X)
  OBVIOUS
<1> HIDE DEF m
<1>4. F \in [1..m -> [Seq(X) -> Seq(X)]]
  BY <1>3
<1>5. \A n \in 1..m, s \in Seq(X) : F[n][s] = s \o seqs[n]
  OBVIOUS
<1> HIDE DEF F
<1>6. PICK g : Iterates(g, Seq(X), <<>>, m, F)
  <2>1. <<>> \in Seq(X)
    OBVIOUS
  <2> QED
    BY <1>1, <1>4, <2>1, RunExists
<1> DEFINE h == [i \in 1..m |-> g[i]]
<1>7. ASSUME NEW i \in 1..m PROVE g[i] = g[i-1] \o seqs[i]
  <2>1. g[i-1] \in Seq(X) /\ g[i] = F[i][g[i-1]]
    BY <1>1, <1>6 DEF Iterates
  <2> QED
    BY <1>5, <2>1
<1>8. Eq(h)
  <2>1. ASSUME NEW i \in 1..m
        PROVE  h[i] = IF i = 1 THEN seqs[i] ELSE h[i-1] \o seqs[i]
    <3>1. CASE i = 1
      <4>1. g[0] = <<>> /\ <<>> \o seqs[1] = seqs[1]
        BY <1>1, <1>3, <1>6, ConcatEmptySeq DEF Iterates
      <4>2. g[1] = g[0] \o seqs[1]
        <5>1. 1 - 1 = 0
          OBVIOUS
        <5> QED
          BY <1>1, <1>7, <5>1
      <4>3. h[1] = g[1]
        BY <1>1
      <4> HIDE DEF h
      <4> QED
        BY <3>1, <4>1, <4>2, <4>3
    <3>2. CASE i # 1
      <4>1. i - 1 \in 1..m /\ h[i] = g[i]
        BY <1>1, <3>2
      <4>2. h[i-1] = g[i-1]
        BY <4>1
      <4> HIDE DEF h
      <4> QED
        BY <1>7, <3>2, <4>1, <4>2
    <3> HIDE DEF h
    <3> QED
      BY <3>1, <3>2
  <2> QED
    BY <2>1
<1>9. Eq(f0)
  <2> HIDE DEF Eq
  <2> QED
    BY <1>8
<1> HIDE DEF f0
<1>10. \A i \in 1..m : f0[i] = IF i = 1 THEN seqs[i] ELSE f0[i-1] \o seqs[i]
  BY <1>9
<1> DEFINE u == [i \in 0..m |-> IF i = 0 THEN <<>> ELSE f0[i]]
<1>11. u[0] = <<>> /\ u[m] = f0[m] /\ \A i \in 1..m : u[i] = f0[i]
  BY <1>1
<1>12. ASSUME NEW i \in 1..m PROVE u[i] = u[i-1] \o seqs[i]
  <2> HIDE DEF u
  <2>1. CASE i = 1
    <3>1. <<>> \o seqs[1] = seqs[1] /\ i - 1 = 0
      BY <1>1, <1>3, <2>1, ConcatEmptySeq
    <3> QED
      BY <1>10, <1>11, <2>1, <3>1
  <2>2. CASE i # 1
    <3>1. i - 1 \in 1..m
      BY <1>1, <2>2
    <3> QED
      BY <1>10, <1>11, <2>2, <3>1
  <2> QED
    BY <2>1, <2>2
<1> HIDE DEF u
<1> QED
  BY <1>2, <1>11, <1>12 DEF m

(* When each text of a run is replaced by a run of its tokens the whole stays a run. *)
LEMMA FlattenRun ==
  ASSUME NEW X \in SUBSET Parts, NEW hulls \in Seq(Parts), NEW seqs \in Seq(Seq(X)),
         Len(seqs) = Len(hulls), NEW a \in Int, NEW b \in Int, Run(hulls, a, b),
         \A i \in 1..Len(hulls) : Run(seqs[i], hulls[i].from, hulls[i].to)
  PROVE  FlattenSeq(seqs) \in Seq(X) /\ Run(FlattenSeq(seqs), a, b)
<1> DEFINE m == Len(seqs)
<1>0. m \in Nat /\ (seqs = <<>> <=> m = 0) /\ (hulls = <<>> <=> m = 0)
  BY EmptySeq, LenProperties
<1>1. CASE seqs = <<>>
  BY <1>0, <1>1 DEF FlattenSeq, Run
<1>2. CASE seqs # <<>>
  <2>1. PICK u : /\ u[0] = <<>>
                 /\ \A i \in 1..m : u[i] = u[i-1] \o seqs[i]
                 /\ FlattenSeq(seqs) = u[m]
    BY <1>2, FlattenUnfold
  <2>2. /\ m > 0 /\ hulls[1].from = a /\ hulls[m].to = b
        /\ \A i \in 2..m : hulls[i].from = hulls[i-1].to + 1
    BY <1>0, <1>2 DEF Run
  <2>3. \A i \in 1..m : hulls[i].from \in Int /\ hulls[i].to \in Int
    <3>1. \A x \in Parts : x.from \in Int /\ x.to \in Int
      BY DEF Parts
    <3>2. \A i \in 1..m : hulls[i] \in Parts
      OBVIOUS
    <3> QED
      BY <3>1, <3>2
  <2>4. Seq(X) \subseteq Seq(Parts)
    OBVIOUS
  <2>5. \A i \in 1..m : seqs[i] \in Seq(X) /\ Run(seqs[i], hulls[i].from, hulls[i].to)
    OBVIOUS
  <2> DEFINE Upto(n) == IF n = 0 THEN a - 1 ELSE hulls[n].to
             T == {n \in 0..m : u[n] \in Seq(X) /\ Run(u[n], a, Upto(n))}
  <2> HIDE DEF m
  <2>6. 0 \in T
    <3>1. Upto(0) = a - 1 /\ 0 \in 0..m /\ <<>> \in Seq(X) /\ Run(<<>>, a, a - 1)
      BY <1>0 DEF Run
    <3> HIDE DEF Upto
    <3> QED
      BY <2>1, <3>1
  <2>7. ASSUME NEW n \in 1..m, n - 1 \in T PROVE n \in T
    <3>1. hulls[n].from = Upto(n - 1) + 1 /\ Upto(n - 1) \in Int
      <4>1. CASE n = 1
        BY <1>0, <2>2, <4>1
      <4>2. CASE n # 1
        <5>1. n \in 2..m /\ n - 1 \in 1..m /\ n - 1 # 0
          BY <1>0, <4>2
        <5> QED
          BY <2>2, <2>3, <5>1
      <4> QED
        BY <4>1, <4>2
    <3>2. u[n-1] \in Seq(X) /\ Run(u[n-1], a, Upto(n - 1)) /\ Upto(n) = hulls[n].to /\ n \in 0..m
      BY <1>0, <2>7
    <3> HIDE DEF Upto, T
    <3>3. u[n] \in Seq(X)
      <4>1. seqs[n] \in Seq(X) /\ u[n] = u[n-1] \o seqs[n]
        BY <2>1, <2>5
      <4>2. \A s, t \in Seq(X) : s \o t \in Seq(X)
        OBVIOUS
      <4> QED
        BY <3>2, <4>1, <4>2
    <3>4. Run(u[n], a, hulls[n].to)
      <4>1. u[n-1] \in Seq(Parts) /\ seqs[n] \in Seq(Parts)
        BY <2>4, <2>5, <3>2
      <4>2. Run(u[n-1] \o seqs[n], a, hulls[n].to)
        BY <2>3, <2>5, <3>1, <3>2, <4>1, RunConcat
      <4> QED
        BY <2>1, <4>2
    <3> QED
      BY <3>2, <3>3, <3>4 DEF T
  <2>8. \A n \in 0..m : n \in T
    <3> HIDE DEF T
    <3> QED
      BY <1>0, <2>6, <2>7, NatInd
  <2>9. m \in T /\ Upto(m) = b
    <3>1. m \in 0..m /\ m # 0
      BY <1>0, <2>2
    <3>2. m \in T
      <4> HIDE DEF T
      <4> QED
        BY <2>8, <3>1
    <3>3. Upto(m) = b
      BY <2>2, <3>1
    <3> QED
      BY <3>2, <3>3
  <2> HIDE DEF Upto
  <2> QED
    BY <2>1, <2>9
<1> QED
  BY <1>1, <1>2
-----------------------------------------------------------------------------
(* The texts s stand for the tokens of p, within budget. *)
Splits(s, p, w, max) == s \in Seq(Texts(w) \cap Within(max)) /\ Run(s, p.from, p.to)

LEMMA TextFacts ==
  ASSUME NEW w \in Nat, NEW p \in Texts(w)
  PROVE  p \in Parts /\ p.from \in Int /\ p.to \in Int /\ p.from <= p.to /\ p.wrapper = w
BY DEF Texts, Parts

LEMMA SplitsWhole ==
  ASSUME NEW w \in Nat, NEW p \in Texts(w), NEW max \in Nat, Tokens(p) <= max
  PROVE  Splits(<<p>>, p, w, max)
<1>1. p \in Texts(w) \cap Within(max)
  BY TextFacts DEF Within
<1>2. Run(<<p>>, p.from, p.to)
  BY TextFacts, RunOne
<1> QED
  BY <1>1, <1>2 DEF Splits

LEMMA SplitsPacked ==
  ASSUME NEW w \in Nat, NEW p \in Texts(w), NEW max \in Nat, w < max, NEW lasts
  PROVE  Splits(PackUnits(Units(p, lasts), max), p, w, max)
<1> DEFINE units == Units(p, lasts)
<1>1. units \in Seq(Texts(w)) /\ Run(units, p.from, p.to)
  BY UnitsRun
<1>2. p.from \in Int /\ p.to \in Int /\ p.from <= p.to
  BY TextFacts
<1> HIDE DEF units
<1>3. units # <<>>
  BY <1>1, <1>2 DEF Run
<1>4. /\ PackUnits(units, max) \in Seq(Texts(w) \cap Within(max))
      /\ Run(PackUnits(units, max), p.from, p.to)
  BY <1>1, <1>2, <1>3, PackUnitsRun
<1>5. Splits(PackUnits(units, max), p, w, max)
  BY <1>4 DEF Splits
<1> QED
  BY <1>5 DEF units

LEMMA SplitsFlat ==
  ASSUME NEW w \in Nat, NEW p \in Texts(w), NEW max \in Nat, NEW hulls \in Seq(Texts(w)),
         Run(hulls, p.from, p.to), NEW seqs,
         seqs = [i \in DOMAIN hulls |-> seqs[i]],
         \A i \in DOMAIN hulls : Splits(seqs[i], hulls[i], w, max)
  PROVE  Splits(FlattenSeq(seqs), p, w, max)
<1> DEFINE X == Texts(w) \cap Within(max)
           m == Len(hulls)
<1>1. m \in Nat /\ DOMAIN hulls = 1..m
  BY LenProperties
<1>2. \A i \in 1..m : seqs[i] \in Seq(X) /\ Run(seqs[i], hulls[i].from, hulls[i].to)
  BY <1>1 DEF Splits
<1>3. X \in SUBSET Parts /\ hulls \in Seq(Parts) /\ p.from \in Int /\ p.to \in Int
  <2>1. Texts(w) \subseteq Parts
    BY DEF Texts
  <2>2. X \in SUBSET Parts
    BY <2>1
  <2>3. hulls \in Seq(Parts)
    <3> HIDE DEF X
    <3>1. Seq(Texts(w)) \subseteq Seq(Parts)
      BY <2>1
    <3> QED
      BY <3>1
  <2> QED
    BY <2>2, <2>3, TextFacts
<1> HIDE DEF X, m
<1>4. seqs \in [1..m -> Seq(X)]
  BY <1>1, <1>2
<1>5. seqs \in Seq(Seq(X)) /\ Len(seqs) = m
  BY <1>1, <1>4, IsASeq, LenProperties
<1>6. FlattenSeq(seqs) \in Seq(X) /\ Run(FlattenSeq(seqs), p.from, p.to)
  BY <1>2, <1>3, <1>5, FlattenRun DEF m
<1> QED
  BY <1>6 DEF Splits, X

LEMMA ClauseSplits ==
  ASSUME NEW w \in Nat, NEW p \in Texts(w), NEW max \in Nat, w < max, NEW e
  PROVE  Splits(OfClause(p, max, e), p, w, max)
BY SplitsWhole, SplitsPacked DEF OfClause

LEMMA SentenceSplits ==
  ASSUME NEW w \in Nat, NEW p \in Texts(w), NEW max \in Nat, w < max, NEW e
  PROVE  Splits(OfSentence(p, max, e), p, w, max)
<1>1. CASE Tokens(p) <= max
  BY <1>1, SplitsWhole DEF OfSentence
<1>2. CASE ~(Tokens(p) <= max)
  <2> DEFINE clauses == Units(p, e.clauses)
             seqs == [i \in DOMAIN clauses |-> OfClause(clauses[i], max, e)]
  <2>1. OfSentence(p, max, e) = FlattenSeq(seqs)
    BY <1>2 DEF OfSentence
  <2>2. clauses \in Seq(Texts(w)) /\ Run(clauses, p.from, p.to)
    BY UnitsRun
  <2> HIDE DEF clauses
  <2>3. \A i \in DOMAIN clauses : clauses[i] \in Texts(w)
    BY <2>2
  <2>4. \A i \in DOMAIN clauses : Splits(seqs[i], clauses[i], w, max)
    BY <2>3, ClauseSplits
  <2>5. seqs = [i \in DOMAIN clauses |-> seqs[i]]
    OBVIOUS
  <2> HIDE DEF seqs
  <2> QED
    BY <2>1, <2>2, <2>4, <2>5, SplitsFlat
<1> QED
  BY <1>1, <1>2

LEMMA ParagraphSplits ==
  ASSUME NEW w \in Nat, NEW p \in Texts(w), NEW max \in Nat, w < max, NEW e
  PROVE  Splits(LongParagraph(p, max, e), p, w, max)
<1> DEFINE sentences == Units(p, e.sentences)
           seqs == [i \in DOMAIN sentences |-> OfSentence(sentences[i], max, e)]
<1>1. LongParagraph(p, max, e) = FlattenSeq(seqs)
  BY DEF LongParagraph
<1>2. sentences \in Seq(Texts(w)) /\ Run(sentences, p.from, p.to)
  BY UnitsRun
<1> HIDE DEF sentences
<1>3. \A i \in DOMAIN sentences : sentences[i] \in Texts(w)
  BY <1>2
<1>4. \A i \in DOMAIN sentences : Splits(seqs[i], sentences[i], w, max)
  BY <1>3, SentenceSplits
<1>5. seqs = [i \in DOMAIN sentences |-> seqs[i]]
  OBVIOUS
<1> HIDE DEF seqs
<1> QED
  BY <1>1, <1>2, <1>4, <1>5, SplitsFlat

(* A block is split into parts that keep its wrapper and follow one another, each within
   the budget of a chunk: the checks of chunk_markdown do not stop an ingest here. *)
LEMMA BlockSplits ==
  ASSUME NEW b \in Blocks, ~NoRoom(b), length \in Nat
  PROVE  Splits(ExpandBlock(b), Part(length + 1, length + b.size, b.wrapper),
                b.wrapper, BodyMax)
<1> DEFINE whole == Part(length + 1, length + b.size, b.wrapper)
           w == b.wrapper
<1>1. b.size \in Nat /\ b.size > 0 /\ w \in Nat /\ BodyMax \in Nat
  BY ChunkingAssumption
<1>2. whole \in Texts(w) /\ Tokens(whole) = b.size + w
  BY <1>1 DEF Part, Texts, Parts, Tokens
<1>3. ExpandBlock(b) =
        IF Tokens(whole) <= BodyMax THEN <<whole>>
        ELSE IF b.kind = "text" THEN LongParagraph(whole, BodyMax, Shifted(b))
             ELSE PackUnits(Units(whole, Shifted(b).words), BodyMax)
  BY DEF ExpandBlock
<1>4. Tokens(whole) <= BodyMax \/ w < BodyMax
  BY <1>1, <1>2 DEF NoRoom
<1> HIDE DEF whole, w
<1>5. CASE Tokens(whole) <= BodyMax
  <2>1. Splits(<<whole>>, whole, w, BodyMax)
    BY <1>1, <1>2, <1>5, SplitsWhole
  <2> QED
    BY <1>3, <1>5, <2>1 DEF whole, w
<1>6. CASE ~(Tokens(whole) <= BodyMax)
  <2>1. Splits(LongParagraph(whole, BodyMax, Shifted(b)), whole, w, BodyMax)
    BY <1>1, <1>2, <1>4, <1>6, ParagraphSplits
  <2>2. Splits(PackUnits(Units(whole, Shifted(b).words), BodyMax), whole, w, BodyMax)
    BY <1>1, <1>2, <1>4, <1>6, SplitsPacked
  <2> QED
    BY <1>3, <1>6, <2>1, <2>2 DEF whole, w
<1> QED
  BY <1>5, <1>6
-----------------------------------------------------------------------------
LEMMA JoinedUnfold ==
  ASSUME NEW s \in Seq(Parts)
  PROVE  \E u \in [0..Len(s) -> Int] :
            /\ u[0] = 0
            /\ \A n \in 1..Len(s) : u[n] = Joined(u[n-1], s, n)
            /\ JoinedTokens(s) = u[Len(s)]
<1> DEFINE m == Len(s)
           D(n, c) == Joined(c, s, n)
           F == [n \in 1..m |-> [c \in Int |-> D(n, c)]]
           Eq(f) == f = [n \in 0..m |-> IF n = 0 THEN 0 ELSE D(n, f[n-1])]
           u == CHOOSE f : Eq(f)
<1>0. m \in Nat /\ 0 \in 0..m /\ m \in 0..m /\ 0 \in Int
  OBVIOUS
<1>1. ASSUME NEW n \in 1..m, NEW c \in Int PROVE D(n, c) \in Int
  <2>1. s[n] \in Parts
    OBVIOUS
  <2>2. Tokens(s[n]) \in Int
    BY <2>1 DEF Tokens, Parts
  <2> QED
    BY <2>2, ChunkingAssumption DEF Joined
<1>2. JoinedTokens(s) = u[m]
  BY DEF JoinedTokens
<1> HIDE DEF D, m
<1>3. F \in [1..m -> [Int -> Int]]
  BY <1>1
<1>4. \A n \in 1..m, c \in Int : F[n][c] = D(n, c)
  OBVIOUS
<1> HIDE DEF F
<1>5. PICK g : Iterates(g, Int, 0, m, F)
  BY <1>0, <1>3, RunExists
<1>6. Eq(g)
  <2>1. ASSUME NEW n \in 1..m PROVE g[n] = D(n, g[n-1])
    <3>1. g[n-1] \in Int /\ g[n] = F[n][g[n-1]]
      BY <1>0, <1>5 DEF Iterates
    <3> QED
      BY <1>4, <3>1
  <2>2. \A n \in 0..m : g[n] = IF n = 0 THEN 0 ELSE D(n, g[n-1])
    BY <1>0, <1>5, <2>1 DEF Iterates
  <2> QED
    BY <1>5, <2>2 DEF Iterates
<1>7. Eq(u)
  <2> HIDE DEF Eq
  <2> QED
   BY <1>6
<1> HIDE DEF u
<1>8. u[0] = 0 /\ \A n \in 1..m : u[n] = D(n, u[n-1])
  BY <1>7, <1>0
<1>9. u \in [0..m -> Int]
 <2> DEFINE T == {i \in 0..m : u[i] \in Int}
 <2>1. 0 \in T
   BY <1>8, <1>0
 <2>2. ASSUME NEW i \in 1..m, i - 1 \in T PROVE i \in T
   <3>1. i \in 0..m
     BY <1>0
   <3>2. D(i, u[i-1]) \in Int
     BY <1>1, <2>2
   <3> QED
     BY <1>8, <3>1, <3>2
 <2>3. \A i \in 0..m : i \in T
   <3> HIDE DEF T
   <3> QED
    BY <2>1, <2>2, NatInd, <1>0
 <2> QED
  BY <2>3, <1>7
<1> QED
  BY <1>2, <1>8, <1>9 DEF D, m

LEMMA JoinedEmpty ==
  JoinedTokens(<<>>) = 0
<1>1. PICK u \in [0..Len(<<>>) -> Int] :
            /\ u[0] = 0
            /\ \A n \in 1..Len(<<>>) : u[n] = Joined(u[n-1], <<>>, n)
            /\ JoinedTokens(<<>>) = u[Len(<<>>)]
  <2>1. <<>> \in Seq(Parts)
    OBVIOUS
  <2> QED
    BY <2>1, JoinedUnfold
<1> QED
  BY <1>1

LEMMA JoinedOne ==
  ASSUME NEW p \in Parts
  PROVE  JoinedTokens(<<p>>) = Tokens(p)
<1> DEFINE s == <<p>>
<1>1. s \in Seq(Parts) /\ Len(s) = 1 /\ s[1] = p
  OBVIOUS
<1>2. PICK u \in [0..Len(s) -> Int] :
            /\ u[0] = 0
            /\ \A n \in 1..Len(s) : u[n] = Joined(u[n-1], s, n)
            /\ JoinedTokens(s) = u[Len(s)]
  BY <1>1, JoinedUnfold
<1> HIDE DEF s
<1>3. u[1] = Joined(u[1-1], s, 1) /\ u[1-1] = 0
  BY <1>1, <1>2
<1>4. Tokens(p) \in Int
  BY DEF Tokens, Parts
<1>5. JoinedTokens(s) = Tokens(p)
  BY <1>1, <1>2, <1>3, <1>4 DEF Joined
<1> QED
  BY <1>5 DEF s

(* Joining two joined texts costs one separator. *)
LEMMA JoinedConcat ==
  ASSUME NEW s \in Seq(Parts), NEW t \in Seq(Parts), s # <<>>, t # <<>>
  PROVE  /\ JoinedTokens(s) \in Int /\ JoinedTokens(t) \in Int
         /\ JoinedTokens(s \o t) = JoinedTokens(s) + Separator + JoinedTokens(t)
<1> DEFINE st == s \o t
           k == Len(s)
           m == Len(t)
<1>1. /\ st \in Seq(Parts) /\ Len(st) = k + m
      /\ \A i \in 1..k : st[i] = s[i]
      /\ \A i \in 1..m : st[k+i] = t[i]
      /\ k \in Nat /\ k > 0 /\ m \in Nat /\ m > 0
  BY ConcatProperties, EmptySeq, LenProperties
<1>2. PICK u \in [0..k -> Int] :
            /\ u[0] = 0
            /\ \A n \in 1..k : u[n] = Joined(u[n-1], s, n)
            /\ JoinedTokens(s) = u[k]
  BY JoinedUnfold
<1>3. PICK v \in [0..m -> Int] :
            /\ v[0] = 0
            /\ \A n \in 1..m : v[n] = Joined(v[n-1], t, n)
            /\ JoinedTokens(t) = v[m]
  BY JoinedUnfold
<1>4. PICK x \in [0..(k+m) -> Int] :
            /\ x[0] = 0
            /\ \A n \in 1..(k+m) : x[n] = Joined(x[n-1], st, n)
            /\ JoinedTokens(st) = x[k+m]
  <2> HIDE DEF st, k, m
  <2> QED
    BY <1>1, JoinedUnfold
<1>5. \A i \in 1..m : Tokens(t[i]) \in Int
  <2>1. \A p \in Parts : Tokens(p) \in Int
    BY DEF Tokens, Parts
  <2> QED
    BY <2>1
<1> HIDE DEF st, k, m
<1>6. \A n \in 0..k : x[n] = u[n]
  <2> DEFINE T == {n \in 0..k : x[n] = u[n]}
  <2>1. 0 \in T
    BY <1>1, <1>2, <1>4
  <2>2. ASSUME NEW n \in 1..k, n - 1 \in T PROVE n \in T
    <3>1. n \in 1..(k+m) /\ n \in 0..k
      BY <1>1
    <3>3. x[n-1] = u[n-1] /\ st[n] = s[n]
      BY <1>1, <2>2
    <3>2. x[n] = Joined(x[n-1], st, n) /\ u[n] = Joined(u[n-1], s, n)
      BY <1>2, <1>4, <3>1
    <3> QED
      BY <3>1, <3>2, <3>3 DEF Joined
  <2> HIDE DEF T
  <2>3. \A n \in 0..k : n \in T
    BY <1>1, <2>1, <2>2, NatInd
  <2> QED
    BY <2>3 DEF T
<1>7. Separator \in Int /\ x[k] \in Int
  BY <1>1, ChunkingAssumption
<1>8. \A n \in 1..m : x[k+n] = x[k] + Separator + v[n]
  <2> DEFINE T == {n \in 0..m : n = 0 \/ x[k+n] = x[k] + Separator + v[n]}
  <2>1. 0 \in T
    BY <1>1
  <2>2. ASSUME NEW n \in 1..m, n - 1 \in T PROVE n \in T
    <3>0. k \in Nat /\ m \in Nat /\ k > 0
      BY <1>1
    <3>1. /\ k + n \in 1..(k+m) /\ (k + n) - 1 = k + (n - 1) /\ k + n # 1
          /\ st[k+n] = t[n] /\ n \in 0..m
      <4>1. k + n \in 1..(k+m) /\ (k + n) - 1 = k + (n - 1) /\ k + n # 1 /\ n \in 0..m
        BY <3>0
      <4> QED
        BY <1>1, <4>1
    <3>2. x[k+n] = Joined(x[k+(n-1)], st, k+n) /\ v[n] = Joined(v[n-1], t, n)
      BY <1>3, <1>4, <3>1
    <3>3. x[k+n] = x[k+(n-1)] + Separator + Tokens(t[n])
      BY <3>1, <3>2 DEF Joined
    <3>4. CASE n = 1
      <4>1. v[n] = 0 + 0 + Tokens(t[n]) /\ k + (n-1) = k
        <5>1. v[n-1] = 0
          BY <1>3, <3>4
        <5> QED
          BY <1>1, <3>2, <3>4, <5>1 DEF Joined
      <4> QED
        BY <1>5, <1>7, <3>1, <3>3, <4>1
    <3>5. CASE n # 1
      <4>1. v[n] = v[n-1] + Separator + Tokens(t[n]) /\ v[n-1] \in Int
        BY <1>1, <3>2, <3>5 DEF Joined
      <4>2. x[k+(n-1)] = x[k] + Separator + v[n-1]
        BY <2>2, <3>5
      <4>3. x[k+n] = x[k] + Separator + v[n]
        BY <1>5, <1>7, <3>3, <4>1, <4>2
      <4> QED
        BY <3>1, <4>3
    <3> QED
      BY <3>4, <3>5
  <2> HIDE DEF T
  <2>3. \A n \in 0..m : n \in T
    BY <1>1, <2>1, <2>2, NatInd
  <2> QED
    BY <1>1, <2>3 DEF T
<1>9. x[k+m] = x[k] + Separator + v[m] /\ x[k] = u[k]
  BY <1>1, <1>6, <1>8
<1>10. u[k] \in Int /\ v[m] \in Int
  BY <1>1
<1> QED
  BY <1>2, <1>3, <1>4, <1>9, <1>10 DEF st
-----------------------------------------------------------------------------
LEMMA JoinedType ==
  ASSUME NEW s \in Seq(Parts)
  PROVE  JoinedTokens(s) \in Int
<1>1. PICK u \in [0..Len(s) -> Int] : JoinedTokens(s) = u[Len(s)]
  BY JoinedUnfold
<1>2. Len(s) \in 0..Len(s)
  BY LenProperties
<1> QED
  BY <1>1, <1>2

(* The tokens a nonempty run stands for. *)
Hull(s) == Part(s[1].from, s[Len(s)].to, 0)
Hulls(ss) == [i \in 1..Len(ss) |-> Hull(ss[i])]

LEMMA HullRun ==
  ASSUME NEW s \in Seq(Parts), s # <<>>, NEW a \in Int, NEW b \in Int, Run(s, a, b)
  PROVE  /\ Hull(s) \in Parts /\ Hull(s).from = a /\ Hull(s).to = b /\ a <= b
         /\ s[1].from = a /\ s[Len(s)].to = b
<1> DEFINE m == Len(s)
<1>1. m \in Nat /\ m > 0
  BY EmptySeq
<1>2. \A i \in 1..m : s[i].from \in Int /\ s[i].to \in Int
  <2>1. \A x \in Parts : x.from \in Int /\ x.to \in Int
    BY DEF Parts
  <2>2. \A i \in 1..m : s[i] \in Parts
    OBVIOUS
  <2> QED
    BY <2>1, <2>2
<1>3. /\ s[1].from = a /\ s[m].to = b
      /\ \A i \in 1..m : s[i].from <= s[i].to
      /\ \A i \in 2..m : s[i].from = s[i-1].to + 1
  BY DEF Run
<1> HIDE DEF m
<1> DEFINE T == {i \in 0..m : i = 0 \/ a <= s[i].to}
<1>4. 0 \in T
  BY <1>1
<1>5. ASSUME NEW i \in 1..m, i - 1 \in T PROVE i \in T
  <2>1. CASE i = 1
    BY <1>1, <1>2, <1>3, <2>1
  <2>2. CASE i # 1
    <3>1. i \in 2..m /\ i - 1 \in 1..m /\ i \in 0..m /\ i - 1 # 0
      BY <1>1, <2>2
    <3>2. a <= s[i-1].to
      BY <1>5, <3>1
    <3>3. s[i].from = s[i-1].to + 1 /\ s[i].from <= s[i].to
      BY <1>3, <3>1
    <3>4. a <= s[i].to
      BY <1>2, <3>1, <3>2, <3>3
    <3> QED
      BY <3>1, <3>4
  <2> QED
    BY <2>1, <2>2
<1>6. \A i \in 0..m : i \in T
  <2> HIDE DEF T
  <2> QED
    BY <1>1, <1>4, <1>5, NatInd
<1>7. a <= b
  <2>1. m \in 0..m /\ m # 0
    BY <1>1
  <2>2. a <= s[m].to
    BY <1>6, <2>1
  <2> QED
    BY <1>3, <2>2
<1>8. Hull(s) = [from |-> a, to |-> b, wrapper |-> 0]
  BY <1>3 DEF Hull, Part, m
<1>9. Hull(s) \in Parts
  BY <1>8 DEF Parts
<1> QED
  BY <1>3, <1>7, <1>8, <1>9 DEF m

(* A core: a run of parts within the budget. *)
Piece(s) == s # <<>> /\ Run(s, s[1].from, s[Len(s)].to) /\ JoinedTokens(s) <= BodyMax
Pieces(K) == {s \in Seq(K) : Piece(s)}

LEMMA PieceHull ==
  ASSUME NEW K \in SUBSET Parts, NEW s \in Pieces(K)
  PROVE  Hull(s) \in Parts /\ Hull(s).from <= Hull(s).to /\ Run(s, Hull(s).from, Hull(s).to)
<1>1. s \in Seq(Parts) /\ s # <<>>
  <2>1. Seq(K) \subseteq Seq(Parts)
    OBVIOUS
  <2> QED
    BY <2>1 DEF Pieces, Piece
<1>2. s[1].from \in Int /\ s[Len(s)].to \in Int
  <2>1. Len(s) \in 1..Len(s) /\ 1 \in 1..Len(s)
    BY <1>1, EmptySeq
  <2>2. s[1] \in Parts /\ s[Len(s)] \in Parts
    BY <1>1, <2>1
  <2> QED
    BY <2>2 DEF Parts
<1>3. Run(s, s[1].from, s[Len(s)].to)
  BY DEF Pieces, Piece
<1>4. /\ Hull(s) \in Parts /\ Hull(s).from = s[1].from /\ Hull(s).to = s[Len(s)].to
      /\ s[1].from <= s[Len(s)].to
  BY <1>1, <1>2, <1>3, HullRun
<1> QED
  BY <1>3, <1>4

GroupRun(packed, K, a, b) ==
  /\ packed \in [done : Seq(Pieces(K)), open : Seq(K)]
  /\ JoinedTokens(packed.open) <= BodyMax
  /\ \E c \in Int : Run(Hulls(packed.done), a, c) /\ Run(packed.open, c + 1, b)

LEMMA HullsAppend ==
  ASSUME NEW K \in SUBSET Parts, NEW ss \in Seq(Pieces(K)), NEW s \in Pieces(K)
  PROVE  /\ Hulls(ss) \in Seq(Parts) /\ Len(Hulls(ss)) = Len(ss)
         /\ Hulls(Append(ss, s)) = Append(Hulls(ss), Hull(s))
<1>1. ASSUME NEW tt \in Seq(Pieces(K))
      PROVE  Hulls(tt) \in Seq(Parts) /\ Len(Hulls(tt)) = Len(tt)
  <2>1. \A i \in 1..Len(tt) : Hull(tt[i]) \in Parts
    <3>1. \A i \in 1..Len(tt) : tt[i] \in Pieces(K)
      OBVIOUS
    <3> QED
      BY <3>1, PieceHull
  <2>2. Len(tt) \in Nat
    BY LenProperties
  <2>3. Hulls(tt) \in [1..Len(tt) -> Parts]
    BY <2>1 DEF Hulls
  <2> QED
    BY <2>2, <2>3, IsASeq, LenProperties
<1> DEFINE h == Hulls(Append(ss, s))
           g == Append(Hulls(ss), Hull(s))
<1>2. /\ Append(ss, s) \in Seq(Pieces(K)) /\ Len(Append(ss, s)) = Len(ss) + 1
      /\ \A i \in 1..Len(ss) : Append(ss, s)[i] = ss[i]
      /\ Append(ss, s)[Len(ss) + 1] = s /\ Len(ss) \in Nat
  BY AppendProperties, LenProperties
<1>3. h \in Seq(Parts) /\ Len(h) = Len(ss) + 1
  BY <1>1, <1>2
<1>4. /\ g \in Seq(Parts) /\ Len(g) = Len(ss) + 1
      /\ \A i \in 1..Len(ss) : g[i] = Hulls(ss)[i]
      /\ g[Len(ss) + 1] = Hull(s)
  BY <1>1, PieceHull, AppendProperties
<1>5. \A i \in 1..Len(ss) + 1 : h[i] = g[i]
  <2> SUFFICES ASSUME NEW i \in 1..Len(ss) + 1 PROVE h[i] = g[i]
    OBVIOUS
  <2>1. h[i] = Hull(Append(ss, s)[i])
    BY <1>2 DEF Hulls
  <2>2. CASE i = Len(ss) + 1
    BY <1>2, <1>4, <2>1, <2>2
  <2>3. CASE i # Len(ss) + 1
    <3>1. i \in 1..Len(ss)
      BY <1>2, <2>3
    <3>2. Hulls(ss)[i] = Hull(ss[i])
      BY <3>1 DEF Hulls
    <3> QED
      BY <1>2, <1>4, <2>1, <3>1, <3>2
  <2> QED
    BY <2>2, <2>3
<1> HIDE DEF h, g
<1>6. h = g
  BY <1>3, <1>4, <1>5, SeqEqual
<1> QED
  BY <1>1, <1>6 DEF h, g

LEMMA AddPartRun ==
  ASSUME NEW K \in SUBSET (Parts \cap Within(BodyMax)), NEW part \in K,
         NEW a \in Int, NEW b \in Int, part.from = b + 1,
         NEW packed, GroupRun(packed, K, a, b)
  PROVE  /\ GroupRun(AddPart(packed, part), K, a, part.to)
         /\ AddPart(packed, part).open # <<>>
<1> DEFINE done == packed.done
           open == packed.open
           wider == Append(open, part)
           r == AddPart(packed, part)
<1>1. /\ done \in Seq(Pieces(K)) /\ open \in Seq(K) /\ JoinedTokens(open) <= BodyMax
      /\ \E c \in Int : Run(Hulls(done), a, c) /\ Run(open, c + 1, b)
  BY DEF GroupRun
<1>2. PICK c \in Int : Run(Hulls(done), a, c) /\ Run(open, c + 1, b)
  BY <1>1
<1>3. /\ part \in Parts /\ part.from \in Int /\ part.to \in Int /\ part.from <= part.to
      /\ Tokens(part) <= BodyMax /\ K \in SUBSET Parts
  BY DEF Within, Parts
<1>4. r = IF open # <<>> /\ Flushes(JoinedTokens(open), JoinedTokens(wider))
          THEN [done |-> Append(done, open), open |-> <<part>>]
          ELSE [done |-> done, open |-> wider]
  BY DEF AddPart
<1> HIDE DEF done, open, r
<1>5. JoinedTokens(<<part>>) <= BodyMax
  BY <1>3, JoinedOne
<1>6. open \in Seq(Parts)
  <2>1. Seq(K) \subseteq Seq(Parts)
    BY <1>3
  <2> QED
    BY <1>1, <2>1
<1>7. wider \in Seq(K) /\ wider # <<>> /\ Run(wider, c + 1, part.to)
  <2>1. wider \in Seq(K) /\ Len(wider) = Len(open) + 1 /\ Len(open) \in Nat
    BY <1>1, AppendProperties, LenProperties
  <2>2. wider # <<>>
    BY <1>1, AppendProperties
  <2>3. b = part.from - 1 /\ c + 1 \in Int
    BY <1>3
  <2>4. Run(wider, c + 1, part.to)
    BY <1>2, <1>3, <1>6, <2>3, RunAppend
  <2> QED
    BY <2>1, <2>2, <2>4
<1>8. CASE open # <<>> /\ Flushes(JoinedTokens(open), JoinedTokens(wider))
  <2>1. r.done = Append(done, open) /\ r.open = <<part>>
        /\ r = [done |-> Append(done, open), open |-> <<part>>]
    BY <1>4, <1>8
  <2>2. /\ Hull(open) \in Parts /\ Hull(open).from = c + 1 /\ Hull(open).to = b
        /\ Hull(open).from <= Hull(open).to
        /\ open[1].from = c + 1 /\ open[Len(open)].to = b
    <3>1. c + 1 \in Int
      OBVIOUS
    <3> QED
      BY <1>2, <1>6, <1>8, <3>1, HullRun
  <2>3. open \in Pieces(K)
    BY <1>1, <1>2, <1>8, <2>2 DEF Pieces, Piece
  <2>4. Hulls(Append(done, open)) = Append(Hulls(done), Hull(open)) /\ Hulls(done) \in Seq(Parts)
    BY <1>1, <1>3, <2>3, HullsAppend
  <2>5. Run(Hulls(Append(done, open)), a, b)
    <3>1. c = Hull(open).from - 1
      BY <2>2
    <3> QED
      BY <1>2, <2>2, <2>4, <3>1, RunAppend
  <2>6. Run(<<part>>, b + 1, part.to)
    BY <1>3, RunOne
  <2>7. r \in [done : Seq(Pieces(K)), open : Seq(K)]
    <3>1. Append(done, open) \in Seq(Pieces(K))
      BY <1>1, <2>3
    <3>2. <<part>> \in Seq(K)
      OBVIOUS
    <3> QED
      BY <2>1, <3>1, <3>2
  <2>8. <<part>> # <<>>
    OBVIOUS
  <2>9. GroupRun(r, K, a, part.to) /\ r.open # <<>>
    BY <1>5, <2>1, <2>5, <2>6, <2>7, <2>8 DEF GroupRun
  <2> QED
    BY <2>9 DEF r
<1>9. CASE ~(open # <<>> /\ Flushes(JoinedTokens(open), JoinedTokens(wider)))
  <2>1. r.done = done /\ r.open = wider /\ r = [done |-> done, open |-> wider]
    BY <1>4, <1>9
  <2>2. JoinedTokens(wider) <= BodyMax
    <3>1. CASE open = <<>>
      <4>1. wider = <<part>>
        BY <3>1
      <4> QED
        BY <1>5, <4>1
    <3>2. CASE open # <<>>
      <4>1. wider \in Seq(Parts)
        <5>1. Seq(K) \subseteq Seq(Parts)
          BY <1>3
        <5> QED
          BY <1>7, <5>1
      <4>2. JoinedTokens(wider) \in Int
        BY <4>1, JoinedType
      <4> HIDE DEF wider
      <4>3. ~(JoinedTokens(wider) > BodyMax)
        BY <1>9, <3>2 DEF Flushes
      <4> QED
        BY <4>2, <4>3, ChunkingAssumption
    <3> QED
      BY <3>1, <3>2
  <2>3. r \in [done : Seq(Pieces(K)), open : Seq(K)]
    BY <1>1, <1>7, <2>1
  <2> HIDE DEF wider
  <2>4. GroupRun(r, K, a, part.to) /\ r.open # <<>>
    BY <1>2, <1>7, <2>1, <2>2, <2>3 DEF GroupRun
  <2> QED
    BY <2>4 DEF r
<1> QED
  BY <1>8, <1>9

LEMMA GroupedUnfold ==
  ASSUME NEW K \in SUBSET (Parts \cap Within(BodyMax)), NEW parts \in Seq(K)
  PROVE  \E u : /\ u[0] = Nothing
                /\ \A n \in 1..Len(parts) : u[n] = AddPart(u[n-1], parts[n])
                /\ Grouped(parts) = u[Len(parts)]
<1> DEFINE m == Len(parts)
           A == [done : Seq(Seq(K)), open : Seq(K)]
           D(n, s) == AddPart(s, parts[n])
           F == [n \in 1..m |-> [s \in A |-> D(n, s)]]
           Eq(f) == f = [n \in 0..m |-> IF n = 0 THEN Nothing ELSE D(n, f[n-1])]
           u == CHOOSE f : Eq(f)
<1>0. m \in Nat /\ 0 \in 0..m /\ m \in 0..m /\ Nothing \in A
  BY DEF Nothing
<1>1. ASSUME NEW n \in 1..m, NEW s \in A PROVE D(n, s) \in A
  <2>1. parts[n] \in K
    OBVIOUS
  <2>2. s.done \in Seq(Seq(K)) /\ s.open \in Seq(K)
    OBVIOUS
  <2>3. /\ Append(s.done, s.open) \in Seq(Seq(K)) /\ Append(s.open, parts[n]) \in Seq(K)
        /\ <<parts[n]>> \in Seq(K)
    BY <2>1, <2>2
  <2> QED
    BY <2>2, <2>3 DEF AddPart
<1>2. Grouped(parts) = u[m]
  BY DEF Grouped
<1> HIDE DEF D, m, A
<1>3. F \in [1..m -> [A -> A]]
  BY <1>1
<1>4. \A n \in 1..m, s \in A : F[n][s] = D(n, s)
  OBVIOUS
<1> HIDE DEF F
<1>5. PICK g : Iterates(g, A, Nothing, m, F)
  BY <1>0, <1>3, RunExists
<1>6. Eq(g)
  <2>1. ASSUME NEW n \in 1..m PROVE g[n] = D(n, g[n-1])
    <3>1. g[n-1] \in A /\ g[n] = F[n][g[n-1]]
      BY <1>0, <1>5 DEF Iterates
    <3> QED
      BY <1>4, <3>1
  <2>2. \A n \in 0..m : g[n] = IF n = 0 THEN Nothing ELSE D(n, g[n-1])
    BY <1>0, <1>5, <2>1 DEF Iterates
  <2> QED
    BY <1>5, <2>2 DEF Iterates
<1>7. Eq(u)
  <2> HIDE DEF Eq
  <2> QED
   BY <1>6
<1> HIDE DEF u
<1>8. u[0] = Nothing /\ \A n \in 1..m : u[n] = D(n, u[n-1])
  BY <1>7, <1>0
<1> QED
  BY <1>2, <1>8 DEF D, m

(* The parts of a group are packed, in their order, into cores within the budget. *)
LEMMA PackGroupRun ==
  ASSUME NEW K \in SUBSET (Parts \cap Within(BodyMax)), NEW parts \in Seq(K),
         NEW a \in Int, NEW b \in Int, Run(parts, a, b)
  PROVE  /\ PackGroup(parts) \in Seq(Pieces(K))
         /\ Run(Hulls(PackGroup(parts)), a, b)
<1>1. CASE parts = <<>>
  <2>1. PackGroup(parts) = <<>> /\ a = b + 1
    BY <1>1 DEF PackGroup, Run
  <2>2. Hulls(<<>>) = <<>>
    BY DEF Hulls
  <2> QED
    BY <2>1, <2>2 DEF Run
<1>2. CASE parts # <<>>
  <2> DEFINE m == Len(parts)
             Upto(n) == IF n = 0 THEN a - 1 ELSE parts[n].to
  <2>1. PICK u : /\ u[0] = Nothing
                 /\ \A n \in 1..m : u[n] = AddPart(u[n-1], parts[n])
                 /\ Grouped(parts) = u[m]
    BY GroupedUnfold
  <2>2. /\ m \in Nat /\ m > 0 /\ parts[1].from = a /\ parts[m].to = b
        /\ \A i \in 2..m : parts[i].from = parts[i-1].to + 1
    BY <1>2, EmptySeq DEF Run
  <2>3. \A i \in 1..m : parts[i] \in K /\ parts[i].from \in Int /\ parts[i].to \in Int
    <3>1. \A x \in K : x.from \in Int /\ x.to \in Int
      BY DEF Parts
    <3>2. \A i \in 1..m : parts[i] \in K
      OBVIOUS
    <3> QED
      BY <3>1, <3>2
  <2> DEFINE T == {n \in 0..m : /\ GroupRun(u[n], K, a, Upto(n))
                                /\ n > 0 => u[n].open # <<>>}
  <2> HIDE DEF m
  <2>4. 0 \in T
    <3>1. Upto(0) = a - 1 /\ 0 \in 0..m /\ ~(0 > 0)
      BY <2>2
    <3>2. /\ Nothing \in [done : Seq(Pieces(K)), open : Seq(K)]
          /\ Nothing.done = <<>> /\ Nothing.open = <<>>
      BY DEF Nothing
    <3>3. JoinedTokens(<<>>) <= BodyMax
      BY JoinedEmpty, ChunkingAssumption
    <3>4. Run(Hulls(<<>>), a, a - 1) /\ Run(<<>>, (a - 1) + 1, a - 1) /\ a - 1 \in Int
      BY DEF Hulls, Run
    <3>5. GroupRun(Nothing, K, a, a - 1)
      BY <3>2, <3>3, <3>4 DEF GroupRun
    <3> HIDE DEF Upto
    <3> QED
      BY <2>1, <3>1, <3>5
  <2>5. ASSUME NEW n \in 1..m, n - 1 \in T PROVE n \in T
    <3>1. parts[n].from = Upto(n - 1) + 1 /\ Upto(n - 1) \in Int
      <4>1. CASE n = 1
        BY <2>2, <4>1
      <4>2. CASE n # 1
        <5>1. n \in 2..m /\ n - 1 \in 1..m /\ n - 1 # 0
          BY <2>2, <4>2
        <5> QED
          BY <2>2, <2>3, <5>1
      <4> QED
        BY <4>1, <4>2
    <3>2. GroupRun(u[n-1], K, a, Upto(n - 1)) /\ Upto(n) = parts[n].to /\ n \in 0..m
      BY <2>2, <2>5
    <3> HIDE DEF Upto
    <3>3. /\ GroupRun(AddPart(u[n-1], parts[n]), K, a, parts[n].to)
          /\ AddPart(u[n-1], parts[n]).open # <<>>
      BY <2>3, <3>1, <3>2, AddPartRun
    <3>4. u[n] = AddPart(u[n-1], parts[n])
      BY <2>1
    <3> QED
      BY <3>2, <3>3, <3>4
  <2>6. GroupRun(u[m], K, a, b) /\ u[m].open # <<>>
    <3>1. m \in 0..m /\ Upto(m) = b /\ m > 0
      BY <2>2
    <3>2. \A n \in 0..m : n \in T
      <4> HIDE DEF T
      <4> QED
        BY <2>2, <2>4, <2>5, NatInd
    <3> HIDE DEF Upto
    <3> QED
      BY <3>1, <3>2
  <2> DEFINE g == Grouped(parts)
  <2>7. /\ g.done \in Seq(Pieces(K)) /\ g.open \in Seq(K) /\ g.open # <<>>
        /\ JoinedTokens(g.open) <= BodyMax
        /\ \E c \in Int : Run(Hulls(g.done), a, c) /\ Run(g.open, c + 1, b)
    BY <2>1, <2>6 DEF GroupRun
  <2>8. PackGroup(parts) = Append(g.done, g.open)
    BY <1>2 DEF PackGroup
  <2> HIDE DEF g
  <2>9. PICK c \in Int : Run(Hulls(g.done), a, c) /\ Run(g.open, c + 1, b)
    BY <2>7
  <2>10. g.open \in Seq(Parts) /\ K \in SUBSET Parts
    <3>1. Seq(K) \subseteq Seq(Parts)
      OBVIOUS
    <3> QED
      BY <2>7, <3>1
  <2>11. /\ Hull(g.open) \in Parts /\ Hull(g.open).from = c + 1 /\ Hull(g.open).to = b
         /\ Hull(g.open).from <= Hull(g.open).to
         /\ g.open[1].from = c + 1 /\ g.open[Len(g.open)].to = b
    <3>1. c + 1 \in Int
      OBVIOUS
    <3> QED
      BY <2>7, <2>9, <2>10, <3>1, HullRun
  <2>12. g.open \in Pieces(K)
    BY <2>7, <2>9, <2>11 DEF Pieces, Piece
  <2>13. /\ Hulls(Append(g.done, g.open)) = Append(Hulls(g.done), Hull(g.open))
         /\ Hulls(g.done) \in Seq(Parts)
    BY <2>7, <2>10, <2>12, HullsAppend
  <2>14. Run(Hulls(Append(g.done, g.open)), a, b)
    <3>1. c = Hull(g.open).from - 1
      BY <2>11
    <3> QED
      BY <2>9, <2>11, <2>13, <3>1, RunAppend
  <2>15. Append(g.done, g.open) \in Seq(Pieces(K))
    BY <2>7, <2>12
  <2> QED
    BY <2>8, <2>14, <2>15
<1> QED
  BY <1>1, <1>2
-----------------------------------------------------------------------------
\* The most sentences that fit exist.
LEMMA NatMax ==
  ASSUME NEW n \in Nat, NEW T \in SUBSET (0..n), T # {}
  PROVE  Max(T) \in T
<1> DEFINE U == {i \in Nat : n - i \in T}
<1>1. U \in SUBSET Nat /\ U # {}
  <2>1. PICK x \in T : TRUE
    OBVIOUS
  <2>2. n - x \in Nat /\ n - (n - x) = x
    OBVIOUS
  <2> QED
    BY <2>1, <2>2
<1>2. PICK u \in U : \A v \in U : u <= v
  <2> HIDE DEF U
  <2> QED
    BY <1>1, Least
<1>3. n - u \in T
  BY <1>2
<1>4. \A y \in T : n - u >= y
  <2> SUFFICES ASSUME NEW y \in T PROVE n - u >= y
    OBVIOUS
  <2>1. n - y \in Nat /\ n - (n - y) = y
    OBVIOUS
  <2>2. u <= n - y
    BY <1>2, <2>1
  <2> QED
    BY <1>2, <2>2
<1> QED
  BY <1>3, <1>4 DEF Max

LEMMA NearestRun ==
  ASSUME NEW units \in Seq(Parts), NEW a \in Int, NEW b \in Int, Run(units, a, b),
         NEW n \in 0..Len(units), NEW fromTail \in BOOLEAN
  PROVE  /\ Nearest(units, n, fromTail) \in Seq(Parts)
         /\ \E c \in Int : IF fromTail THEN Run(Nearest(units, n, fromTail), c, b)
                                       ELSE Run(Nearest(units, n, fromTail), a, c)
<1> DEFINE m == Len(units)
           s == Nearest(units, n, fromTail)
           skipped == IF fromTail THEN m - n ELSE 0
<1>1. m \in Nat /\ skipped \in Nat /\ skipped + n <= m /\ n \in Nat
  <2>1. m \in Nat
    BY LenProperties
  <2> HIDE DEF m
  <2> QED
    BY <2>1 DEF m
<1>2. s = SubSeq(units, skipped + 1, skipped + n)
  <2>1. fromTail => (m - n) + n = m
    BY <1>1
  <2> QED
    BY <2>1 DEF Nearest
<1> HIDE DEF s, skipped
<1>3. /\ s \in Seq(Parts) /\ Len(s) = n
      /\ \A i \in 1..n : s[i] = units[skipped + i]
  <2>1. \A i \in (skipped+1)..(skipped+n) : units[i] \in Parts
    <3>1. \A i \in (skipped+1)..(skipped+n) : i \in 1..m
      BY <1>1
    <3> QED
      BY <3>1
  <2>2. /\ skipped + 1 \in 1..(m+1) /\ skipped + n \in (skipped + 1) - 1..m
        /\ (skipped + n) - (skipped + 1) + 1 = n
        /\ \A i \in 1..n : (skipped + 1) + i - 1 = skipped + i
    BY <1>1
  <2>3. /\ SubSeq(units, skipped + 1, skipped + n) \in Seq(Parts)
        /\ Len(SubSeq(units, skipped + 1, skipped + n)) = n
        /\ \A i \in 1..n : SubSeq(units, skipped + 1, skipped + n)[i] = units[skipped + i]
    <3> DEFINE from == skipped + 1
               to == skipped + n
               part == SubSeq(units, from, to)
    <3>1. from \in Int /\ to \in Int /\ to - from + 1 = n /\ n \in Nat
      BY <1>1
    <3>2. \A i \in 1..n : from + i - 1 = skipped + i
      BY <1>1
    <3>3. \A i \in from..to : units[i] \in Parts
      BY <2>1
    <3> HIDE DEF from, to
    <3>4. /\ part \in Seq(Parts) /\ Len(part) = IF from <= to THEN to - from + 1 ELSE 0
          /\ \A i \in 1..(to - from + 1) : part[i] = units[from + i - 1]
      BY <3>1, <3>3, SubSeqProperties
    <3>5. /\ part \in Seq(Parts) /\ Len(part) = n
          /\ \A i \in 1..n : part[i] = units[skipped + i]
      BY <3>1, <3>2, <3>4
    <3> QED
      BY <3>5 DEF from, to
  <2> QED
    BY <1>2, <2>3
<1>4. CASE n = 0
  <2>1. s = <<>>
    BY <1>3, <1>4, EmptySeq
  <2>2. Run(<<>>, b + 1, b) /\ Run(<<>>, a, a - 1)
    BY DEF Run
  <2>3. b + 1 \in Int /\ a - 1 \in Int
    OBVIOUS
  <2> QED
    BY <1>3, <2>1, <2>2, <2>3 DEF s
<1>5. CASE n # 0
  <2>1. /\ units # <<>> /\ m > 0 /\ n > 0 /\ s # <<>>
    <3>1. n > 0 /\ m > 0
      BY <1>1, <1>5
    <3>2. Len(units) # 0 /\ Len(s) # 0
      BY <1>3, <3>1
    <3> QED
      BY <3>1, <3>2
  <2>2. /\ units[1].from = a /\ units[m].to = b
        /\ \A i \in 1..m : units[i].from <= units[i].to
        /\ \A i \in 2..m : units[i].from = units[i-1].to + 1
    BY <2>1 DEF Run
  <2> HIDE DEF m
  <2>3. \A i \in 1..n : s[i].from <= s[i].to
    <3>1. \A i \in 1..n : skipped + i \in 1..m
      BY <1>1
    <3> QED
      BY <1>3, <2>2, <3>1
  <2>4. \A i \in 2..n : s[i].from = s[i-1].to + 1
    <3> SUFFICES ASSUME NEW i \in 2..n PROVE s[i].from = s[i-1].to + 1
      OBVIOUS
    <3>1. /\ skipped + i \in 2..m /\ (skipped + i) - 1 = skipped + (i - 1)
          /\ i - 1 \in 1..n /\ i \in 1..n
      BY <1>1
    <3> QED
      BY <1>3, <2>2, <3>1
  <2>5. s[1].from \in Int /\ s[n].to \in Int
    <3>1. 1 \in 1..n /\ n \in 1..n
      BY <1>1, <2>1
    <3>2. s[1] \in Parts /\ s[n] \in Parts
      BY <1>3, <3>1
    <3> QED
      BY <3>2 DEF Parts
  <2>6. Run(s, s[1].from, s[n].to)
    BY <1>3, <2>1, <2>3, <2>4 DEF Run
  <2>7. IF fromTail THEN s[n].to = b ELSE s[1].from = a
    <3>1. CASE fromTail
      <4>1. skipped + n = m /\ n \in 1..n
        BY <1>1, <2>1, <3>1 DEF skipped
      <4> QED
        BY <1>3, <2>2, <3>1, <4>1
    <3>2. CASE ~fromTail
      <4>1. skipped + 1 = 1 /\ 1 \in 1..n
        BY <1>1, <2>1, <3>2 DEF skipped
      <4> QED
        BY <1>3, <2>2, <3>2, <4>1
    <3> QED
      BY <3>1, <3>2
  <2>8. \E c \in Int : IF fromTail THEN Run(s, c, b) ELSE Run(s, a, c)
    BY <2>5, <2>6, <2>7
  <2> QED
    BY <1>3, <2>8 DEF s
<1> QED
  BY <1>4, <1>5

(* What is lent adjoins the end it is lent to, and costs no more than an overlap less its
   separator. *)
LEMMA OverlapRun ==
  ASSUME NEW units, Lessened(OverlapTarget) # 0 => units \in Seq(Parts),
         NEW a \in Int, NEW b \in Int, Lessened(OverlapTarget) # 0 => Run(units, a, b),
         NEW fromTail \in BOOLEAN, SentenceOverlap(units, fromTail) # <<>>
  PROVE  /\ SentenceOverlap(units, fromTail) \in Seq(Parts)
         /\ JoinedTokens(SentenceOverlap(units, fromTail)) + Separator <= OverlapMax
         /\ \E c \in Int : IF fromTail THEN Run(SentenceOverlap(units, fromTail), c, b)
                                       ELSE Run(SentenceOverlap(units, fromTail), a, c)
<1>1. Lessened(OverlapTarget) # 0
  BY DEF SentenceOverlap
<1>2. units \in Seq(Parts) /\ Run(units, a, b)
  BY <1>1
<1>3. Lessened(OverlapMax) = OverlapMax - Separator /\ OverlapMax - Separator \in Nat
  BY <1>1, ChunkingAssumption DEF Lessened
<1>4. Len(units) \in Nat
  BY <1>2, LenProperties
<1> DEFINE T == Taken(units, fromTail)
<1>5. T \in SUBSET (0..Len(units))
  BY DEF Taken
<1>6. 0 \in T
  <2>1. Nearest(units, 0, fromTail) = <<>>
    <3>1. Nearest(units, 0, fromTail) \in Seq(Parts) /\ Len(Nearest(units, 0, fromTail)) = 0
      <4>1. /\ SubSeq(units, Len(units) - 0 + 1, Len(units)) = <<>>
            /\ SubSeq(units, 1, 0) = <<>>
        BY <1>2, <1>4
      <4> QED
        BY <4>1 DEF Nearest
    <3> QED
      BY <3>1, EmptySeq
  <2>2. JoinedTokens(<<>>) <= Lessened(OverlapMax)
    BY <1>3, JoinedEmpty
  <2>3. 0 \in 0..Len(units) /\ ~(0 > 0)
    BY <1>4
  <2> QED
    BY <2>1, <2>2, <2>3 DEF Taken
<1>7. Max(T) \in T
  <2> HIDE DEF T
  <2> QED
    BY <1>4, <1>5, <1>6, NatMax
<1> DEFINE n == Max(T)
<1>8. /\ n \in 0..Len(units)
      /\ JoinedTokens(Nearest(units, n, fromTail)) <= Lessened(OverlapMax)
  BY <1>7 DEF Taken
<1>9. SentenceOverlap(units, fromTail) = Nearest(units, n, fromTail)
  BY <1>1 DEF SentenceOverlap
<1> HIDE DEF n, T
<1>10. /\ Nearest(units, n, fromTail) \in Seq(Parts)
       /\ \E c \in Int : IF fromTail THEN Run(Nearest(units, n, fromTail), c, b)
                                     ELSE Run(Nearest(units, n, fromTail), a, c)
  BY <1>2, <1>8, NearestRun
<1>11. JoinedTokens(Nearest(units, n, fromTail)) + Separator <= OverlapMax
  BY <1>3, <1>8, <1>10, JoinedType, ChunkingAssumption
<1> QED
  BY <1>9, <1>10, <1>11
-----------------------------------------------------------------------------
Items == {[level |-> 1, name |-> "title"]} \cup Headings
HeadNames == {h.name : h \in Items}
Kinds == {"text", "code", "table"}

(* The parts of a kind: within the budget, and of prose without a wrapper. *)
Bodies(kind) == {p \in Parts \cap Within(BodyMax) : kind = "text" => p.wrapper = 0}
CoreSet == {c \in [parts : Seq(Parts), headings : Seq(HeadNames), kind : Kinds] :
              c.parts \in Pieces(Bodies(c.kind))}
Spanned(cs) == [i \in 1..Len(cs) |-> Hull(cs[i].parts)]

LEMMA CoreHull ==
  ASSUME NEW c \in CoreSet
  PROVE  /\ Hull(c.parts) \in Parts /\ Hull(c.parts).from <= Hull(c.parts).to
         /\ Hull(c.parts).from \in Int /\ Hull(c.parts).to \in Int
         /\ c.parts \in Seq(Parts) /\ c.parts # <<>> /\ JoinedTokens(c.parts) <= BodyMax
         /\ Run(c.parts, Hull(c.parts).from, Hull(c.parts).to)
         /\ Hull(c.parts).from = c.parts[1].from
         /\ Hull(c.parts).to = c.parts[Len(c.parts)].to
<1>1. c.parts \in Pieces(Bodies(c.kind)) /\ c.parts \in Seq(Parts)
  BY DEF CoreSet
<1>2. Bodies(c.kind) \in SUBSET Parts
  BY DEF Bodies
<1>3. /\ Hull(c.parts) \in Parts /\ Hull(c.parts).from <= Hull(c.parts).to
      /\ Run(c.parts, Hull(c.parts).from, Hull(c.parts).to)
  BY <1>1, <1>2, PieceHull
<1>4. \A p \in Parts : p.from \in Int /\ p.to \in Int
  BY DEF Parts
<1>5. c.parts # <<>> /\ JoinedTokens(c.parts) <= BodyMax
  BY <1>1 DEF Pieces, Piece
<1>6. /\ Hull(c.parts).from = c.parts[1].from
      /\ Hull(c.parts).to = c.parts[Len(c.parts)].to
  BY DEF Hull, Part
<1> QED
  BY <1>1, <1>3, <1>4, <1>5, <1>6

LEMMA SpannedType ==
  ASSUME NEW cs \in Seq(CoreSet)
  PROVE  Spanned(cs) \in Seq(Parts) /\ Len(Spanned(cs)) = Len(cs)
<1>1. \A i \in 1..Len(cs) : Hull(cs[i].parts) \in Parts
  <2>1. \A i \in 1..Len(cs) : cs[i] \in CoreSet
    OBVIOUS
  <2> QED
    BY <2>1, CoreHull
<1>2. Len(cs) \in Nat
  BY LenProperties
<1>3. Spanned(cs) \in [1..Len(cs) -> Parts]
  BY <1>1 DEF Spanned
<1> QED
  BY <1>2, <1>3, IsASeq, LenProperties

LEMMA SpannedConcat ==
  ASSUME NEW cs \in Seq(CoreSet), NEW ds \in Seq(CoreSet)
  PROVE  Spanned(cs \o ds) = Spanned(cs) \o Spanned(ds)
<1> DEFINE e == cs \o ds
           s == Spanned(e)
           t == Spanned(cs) \o Spanned(ds)
           k == Len(cs)
           m == Len(ds)
<1>1. /\ e \in Seq(CoreSet) /\ Len(e) = k + m /\ k \in Nat /\ m \in Nat
      /\ \A i \in 1..k : e[i] = cs[i]
      /\ \A i \in k+1..k+m : e[i] = ds[i - k]
  BY ConcatProperties, LenProperties
<1>2. /\ Spanned(cs) \in Seq(Parts) /\ Spanned(ds) \in Seq(Parts)
      /\ Len(Spanned(cs)) = k /\ Len(Spanned(ds)) = m
  BY SpannedType
<1>3. /\ t \in Seq(Parts) /\ Len(t) = k + m
      /\ \A i \in 1..k : t[i] = Spanned(cs)[i]
      /\ \A i \in k+1..k+m : t[i] = Spanned(ds)[i - k]
  <2> HIDE DEF k, m
  <2>1. ASSUME NEW p \in Seq(Parts), NEW q \in Seq(Parts), Len(p) = k, Len(q) = m
        PROVE  /\ p \o q \in Seq(Parts) /\ Len(p \o q) = k + m
               /\ \A i \in 1..k : (p \o q)[i] = p[i]
               /\ \A i \in k+1..k+m : (p \o q)[i] = q[i - k]
    <3> DEFINE r == p \o q
    <3>1. /\ r \in Seq(Parts) /\ Len(r) = k + m
          /\ \A i \in 1..k + m : r[i] = IF i <= k THEN p[i] ELSE q[i - k]
      BY <2>1, ConcatProperties
    <3> HIDE DEF r
    <3>2. \A i \in 1..k : i \in 1..k + m /\ i <= k
      BY <1>1
    <3>3. \A i \in k+1..k+m : i \in 1..k + m /\ ~(i <= k)
      BY <1>1
    <3>4. r \in Seq(Parts) /\ Len(r) = k + m /\ (\A i \in 1..k : r[i] = p[i])
          /\ \A i \in k+1..k+m : r[i] = q[i - k]
      BY <3>1, <3>2, <3>3
    <3> QED
      BY <3>4 DEF r
  <2> QED
    BY <1>2, <2>1
<1> HIDE DEF e, t, k, m
<1>4. s \in Seq(Parts) /\ Len(s) = k + m
  BY <1>1, SpannedType
<1>5. \A i \in 1..k+m : s[i] = t[i]
  <2> SUFFICES ASSUME NEW i \in 1..k+m PROVE s[i] = t[i]
    OBVIOUS
  <2>1. s[i] = Hull(e[i].parts)
    BY <1>1 DEF Spanned
  <2>2. CASE i \in 1..k
    <3>1. Spanned(cs)[i] = Hull(cs[i].parts)
      BY <2>2 DEF Spanned, k
    <3> QED
      BY <1>1, <1>3, <2>1, <2>2, <3>1
  <2>3. CASE i \notin 1..k
    <3>1. i \in k+1..k+m /\ i - k \in 1..m
      BY <1>1, <2>3
    <3>2. Spanned(ds)[i - k] = Hull(ds[i - k].parts)
      BY <3>1 DEF Spanned, m
    <3> QED
      BY <1>1, <1>3, <2>1, <3>1, <3>2
  <2> QED
    BY <2>2, <2>3
<1> HIDE DEF s
<1>6. s = t
  BY <1>3, <1>4, <1>5, SeqEqual
<1> QED
  BY <1>6 DEF s, t, e

(* A group becomes cores of its section and kind, over the same tokens. *)
LEMMA CoresRun ==
  ASSUME NEW k \in Seq(HeadNames) \X Kinds, NEW parts \in Seq(Bodies(k[2])),
         NEW a \in Int, NEW b \in Int, Run(parts, a, b)
  PROVE  Cores(parts, k) \in Seq(CoreSet) /\ Run(Spanned(Cores(parts, k)), a, b)
<1> DEFINE K == Bodies(k[2])
           ps == PackGroup(parts)
           cs == Cores(parts, k)
<1>1. K \in SUBSET (Parts \cap Within(BodyMax))
  BY DEF Bodies
<1>2. ps \in Seq(Pieces(K)) /\ Run(Hulls(ps), a, b)
  <2> HIDE DEF K
  <2> QED
    BY <1>1, PackGroupRun DEF K
<1>3. k[1] \in Seq(HeadNames) /\ k[2] \in Kinds
  OBVIOUS
<1>4. cs = [i \in DOMAIN ps |-> [parts |-> ps[i], headings |-> k[1], kind |-> k[2]]]
  BY DEF Cores
<1> HIDE DEF ps, cs
<1>5. Len(ps) \in Nat /\ DOMAIN ps = 1..Len(ps) /\ \A i \in 1..Len(ps) : ps[i] \in Pieces(K)
  BY <1>2, LenProperties
<1>6. \A i \in 1..Len(ps) : /\ cs[i] \in CoreSet /\ cs[i].parts = ps[i]
  <2> SUFFICES ASSUME NEW i \in 1..Len(ps) PROVE cs[i] \in CoreSet /\ cs[i].parts = ps[i]
    OBVIOUS
  <2>1. cs[i] = [parts |-> ps[i], headings |-> k[1], kind |-> k[2]]
    BY <1>4, <1>5
  <2>2. ps[i] \in Seq(Parts) /\ ps[i] \in Pieces(K)
    <3>1. Seq(K) \subseteq Seq(Parts)
      BY <1>1
    <3> QED
      BY <1>5, <3>1 DEF Pieces
  <2>3. cs[i].parts = ps[i] /\ cs[i].kind = k[2] /\ cs[i].headings = k[1]
    BY <2>1
  <2>4. cs[i] \in [parts : Seq(Parts), headings : Seq(HeadNames), kind : Kinds]
    BY <1>3, <2>1, <2>2
  <2> QED
    BY <2>2, <2>3, <2>4 DEF CoreSet
<1>7. cs \in [1..Len(ps) -> CoreSet]
  BY <1>4, <1>5, <1>6
<1>8. cs \in Seq(CoreSet) /\ Len(cs) = Len(ps)
  BY <1>5, <1>7, IsASeq, LenProperties
<1>9. Spanned(cs) = Hulls(ps)
  BY <1>6, <1>8 DEF Spanned, Hulls
<1> QED
  BY <1>2, <1>8, <1>9 DEF cs

LEMMA LendableRun ==
  ASSUME NEW c \in CoreSet, c.kind = "text", Lessened(OverlapTarget) # 0
  PROVE  /\ Lendable(c) \in Seq(Parts)
         /\ Run(Lendable(c), Hull(c.parts).from, Hull(c.parts).to)
<1> DEFINE max == Lessened(OverlapMax)
           seqs == [i \in DOMAIN c.parts |-> LongParagraph(c.parts[i], max, ends)]
           p == Hull(c.parts)
<1>1. max \in Nat /\ 0 < max
  BY ChunkingAssumption DEF Lessened
<1>2. c.parts \in Seq(Texts(0))
  <2>1. Bodies("text") \subseteq Texts(0)
    BY DEF Bodies, Within, Texts
  <2>2. c.parts \in Seq(Bodies("text"))
    BY DEF CoreSet, Pieces
  <2>3. Seq(Bodies("text")) \subseteq Seq(Texts(0))
    BY <2>1
  <2> QED
    BY <2>2, <2>3
<1>3. p \in Texts(0) /\ Run(c.parts, p.from, p.to)
  <2>1. p.wrapper = 0
    BY DEF Hull, Part
  <2> QED
    BY <2>1, CoreHull DEF Texts
<1>4. Lendable(c) = FlattenSeq(seqs)
  BY DEF Lendable
<1> HIDE DEF max, p
<1>5. \A i \in DOMAIN c.parts : c.parts[i] \in Texts(0)
  BY <1>2
<1>6. \A i \in DOMAIN c.parts : Splits(seqs[i], c.parts[i], 0, max)
  BY <1>1, <1>5, ParagraphSplits
<1>7. seqs = [i \in DOMAIN c.parts |-> seqs[i]]
  OBVIOUS
<1> HIDE DEF seqs
<1>8. Splits(Lendable(c), p, 0, max)
  BY <1>1, <1>2, <1>3, <1>4, <1>6, <1>7, SplitsFlat
<1>9. Texts(0) \cap Within(max) \subseteq Parts
  BY DEF Texts
<1>10. Seq(Texts(0) \cap Within(max)) \subseteq Seq(Parts)
  BY <1>9
<1> QED
  BY <1>8, <1>10 DEF Splits, p
-----------------------------------------------------------------------------
Grouping ==
    /\ group \in Seq(Parts)
    /\ key = <<>> => group = <<>>
    /\ key # <<>> => key \in Seq(HeadNames) \X Kinds /\ group \in Seq(Bodies(key[2]))

(* The cores and the group stand, in their order, for the tokens read. *)
Covered ==
    /\ cores \in Seq(CoreSet)
    /\ \E a \in Int : Run(Spanned(cores), 1, a) /\ Run(group, a + 1, length)

Phases ==
    /\ pc \in {"read", "refused"} => chunks = <<>>
    /\ pc \in {"overlap", "done"} => group = <<>>

LentBefore(i) ==
    chunks[i].before # <<>> =>
      /\ i > 1 /\ cores[i-1].headings = cores[i].headings
      /\ JoinedTokens(chunks[i].before) + Separator <= OverlapMax
      /\ \E c \in Int : Run(chunks[i].before, c, Hull(cores[i].parts).from - 1)
LentAfter(i) ==
    chunks[i].after # <<>> =>
      /\ i < Len(cores) /\ cores[i+1].headings = cores[i].headings
      /\ JoinedTokens(chunks[i].after) + Separator <= OverlapMax
      /\ \E c \in Int : Run(chunks[i].after, Hull(cores[i].parts).to + 1, c)
Lent ==
    /\ chunks \in Seq([before : Seq(Parts), after : Seq(Parts)])
    /\ Len(chunks) <= Len(cores)
    /\ \A i \in 1..Len(chunks) : LentBefore(i) /\ LentAfter(i)

ChunkInv ==
    /\ pc \in {"read", "overlap", "done", "refused"}
    /\ length \in Nat /\ stack \in Seq(Items)
    /\ Grouping /\ Covered /\ Phases /\ Lent

LEMMA SpannedEmpty ==
  Spanned(<<>>) = <<>>
BY DEF Spanned

(* Flushing the group leaves the cores standing for all tokens read. *)
LEMMA Flushed ==
  ASSUME Grouping, Covered, length \in Nat, key # <<>>
  PROVE  /\ cores \o Cores(group, key) \in Seq(CoreSet)
         /\ Run(Spanned(cores \o Cores(group, key)), 1, length)
<1> DEFINE cs == Cores(group, key)
<1>1. PICK a \in Int : Run(Spanned(cores), 1, a) /\ Run(group, a + 1, length)
  BY DEF Covered
<1>2. cores \in Seq(CoreSet) /\ key \in Seq(HeadNames) \X Kinds /\ group \in Seq(Bodies(key[2]))
  BY DEF Covered, Grouping
<1>3. cs \in Seq(CoreSet) /\ Run(Spanned(cs), a + 1, length)
  <2>1. a + 1 \in Int /\ length \in Int
    OBVIOUS
  <2> QED
    BY <1>1, <1>2, <2>1, CoresRun
<1> HIDE DEF cs
<1>4. Spanned(cores) \in Seq(Parts) /\ Spanned(cs) \in Seq(Parts)
  BY <1>2, <1>3, SpannedType
<1>5. Run(Spanned(cores) \o Spanned(cs), 1, length)
  BY <1>1, <1>3, <1>4, RunConcat
<1>6. cores \o cs \in Seq(CoreSet) /\ Run(Spanned(cores \o cs), 1, length)
  <2>1. cores \o cs \in Seq(CoreSet)
    BY <1>2, <1>3, ConcatProperties
  <2>2. Spanned(cores \o cs) = Spanned(cores) \o Spanned(cs)
    BY <1>2, <1>3, SpannedConcat
  <2> QED
    BY <1>5, <2>1, <2>2
<1> QED
  BY <1>6 DEF cs

LEMMA InitInv ==
  ChunkInit => ChunkInv
<1> SUFFICES ASSUME ChunkInit PROVE ChunkInv
  OBVIOUS
<1> USE DEF ChunkInit
<1>1. pc \in {"read", "overlap", "done", "refused"} /\ length \in Nat
  OBVIOUS
<1>2. stack \in Seq(Items)
  <2>1. [level |-> 1, name |-> "title"] \in Items
    BY DEF Items
  <2>2. <<[level |-> 1, name |-> "title"]>> \in Seq(Items) /\ <<>> \in Seq(Items)
    BY <2>1
  <2> QED
    BY <2>2
<1>3. Grouping
  BY DEF Grouping
<1>4. Covered
  <2>1. Run(<<>>, 1, 0) /\ Run(<<>>, 0 + 1, 0)
    BY DEF Run
  <2>2. Run(Spanned(cores), 1, 0) /\ Run(group, 0 + 1, length)
    BY <2>1, SpannedEmpty
  <2>3. cores \in Seq(CoreSet)
    OBVIOUS
  <2> QED
    BY <2>2, <2>3 DEF Covered
<1>5. Phases
  BY DEF Phases
<1>6. Lent
  BY DEF Lent
<1> QED
  BY <1>1, <1>2, <1>3, <1>4, <1>5, <1>6 DEF ChunkInv

LEMMA StepAddHeading ==
  ASSUME ChunkInv, NEW h \in Headings, AddHeading(h)
  PROVE  ChunkInv'
<1>1. /\ pc' = pc /\ length' = length /\ key' = key /\ group' = group /\ cores' = cores
      /\ chunks' = chunks
  BY DEF AddHeading
<1>2. stack' \in Seq(Items)
  <2>1. PICK n \in 0..Len(stack) : stack' = Append(SubSeq(stack, 1, n), h)
    BY DEF AddHeading
  <2>2. stack \in Seq(Items) /\ h \in Items
    BY DEF ChunkInv, Items
  <2>3. SubSeq(stack, 1, n) \in Seq(Items)
    <3>1. \A i \in 1..n : stack[i] \in Items
      BY <2>2
    <3> QED
      BY <3>1, SubSeqProperties
  <2> QED
    BY <2>1, <2>2, <2>3
<1>3. Grouping' /\ Covered' /\ Phases'
  BY <1>1 DEF ChunkInv, Grouping, Covered, Phases
<1>4. Lent'
  BY <1>1 DEF ChunkInv, Lent, LentBefore, LentAfter
<1> QED
  BY <1>1, <1>2, <1>3, <1>4 DEF ChunkInv

LEMMA StepAddBlock ==
  ASSUME ChunkInv, NEW b \in Blocks, AddBlock(b)
  PROVE  ChunkInv'
<1>1. pc = "read" /\ chunks' = chunks /\ stack' = stack /\ chunks = <<>>
  BY DEF AddBlock, ChunkInv, Phases
<1>2. chunks' = <<>> /\ Lent'
  <2>1. cores' \in Seq(CoreSet) => Len(cores') \in Nat
    BY LenProperties
  <2>2. Len(chunks') = 0 /\ chunks' = <<>>
    BY <1>1
  <2> QED
    BY <2>2 DEF Lent
<1>3. CASE NoRoom(b)
  <2>1. pc' = "refused" /\ UNCHANGED <<read, length, ends, stack, key, group, cores, chunks>>
    BY <1>3 DEF AddBlock
  <2>2. Grouping' /\ Covered'
    BY <2>1 DEF ChunkInv, Grouping, Covered
  <2>3. Phases'
    BY <1>2, <2>1 DEF Phases
  <2> QED
    BY <1>2, <2>1, <2>2, <2>3 DEF ChunkInv
<1>4. CASE ~NoRoom(b)
  <2> DEFINE k == <<Names, b.kind>>
             new == key # <<>> /\ k # key
             base == IF new THEN <<>> ELSE group
             more == ExpandBlock(b)
             K == Bodies(b.kind)
  <2>1. /\ key' = k /\ length' = length + b.size /\ pc' = pc
        /\ cores' = IF new THEN cores \o Cores(group, key) ELSE cores
        /\ group' = base \o more
    BY <1>4 DEF AddBlock
  <2>2. /\ length \in Nat /\ stack \in Seq(Items) /\ Grouping /\ Covered
        /\ b.size \in Nat /\ b.kind \in Kinds /\ b.wrapper \in Nat
        /\ b.kind = "text" => b.wrapper = 0
    BY ChunkingAssumption DEF ChunkInv, Kinds
  <2>3. k \in Seq(HeadNames) \X Kinds /\ k # <<>> /\ k[2] = b.kind
    <3>1. Names \in Seq(HeadNames)
      <4>1. \A i \in 1..Len(stack) : stack[i].name \in HeadNames
        <5>1. \A i \in 1..Len(stack) : stack[i] \in Items
          BY <2>2
        <5> QED
          BY <5>1 DEF HeadNames
      <4>2. DOMAIN stack = 1..Len(stack) /\ Len(stack) \in Nat
        BY <2>2, LenProperties
      <4>3. Names \in [1..Len(stack) -> HeadNames]
        BY <4>1, <4>2 DEF Names
      <4> QED
        BY <4>2, <4>3, IsASeq
    <3> QED
      BY <2>2, <3>1
  <2>4. more \in Seq(K) /\ Run(more, length + 1, length + b.size)
    <3>1. Splits(more, Part(length + 1, length + b.size, b.wrapper), b.wrapper, BodyMax)
      BY <1>4, <2>2, BlockSplits
    <3>2. Texts(b.wrapper) \cap Within(BodyMax) \subseteq K
      BY <2>2 DEF Texts, Within, Bodies
    <3> HIDE DEF more, K
    <3>3. Seq(Texts(b.wrapper) \cap Within(BodyMax)) \subseteq Seq(K)
      BY <3>2
    <3> QED
      BY <3>1, <3>3 DEF Splits, Part
  <2> HIDE DEF more
  <2>5. /\ cores' \in Seq(CoreSet) /\ base \in Seq(K)
        /\ \E a \in Int : Run(Spanned(cores'), 1, a) /\ Run(base, a + 1, length)
    <3>1. CASE new
      <4>1. cores' = cores \o Cores(group, key) /\ base = <<>> /\ key # <<>>
        BY <2>1, <3>1
      <4>2. cores' \in Seq(CoreSet) /\ Run(Spanned(cores'), 1, length)
        BY <2>2, <4>1, Flushed
      <4>3. Run(<<>>, length + 1, length) /\ length \in Int /\ <<>> \in Seq(K)
        BY <2>2 DEF Run
      <4> HIDE DEF base, K
      <4> QED
        BY <4>1, <4>2, <4>3
    <3>2. CASE ~new
      <4>1. cores' = cores /\ base = group /\ (key = <<>> \/ k = key)
        BY <2>1, <3>2
      <4>2. group \in Seq(K)
        <5>1. CASE key = <<>>
          BY <2>2, <5>1 DEF Grouping
        <5>2. CASE key # <<>>
          <6>1. group \in Seq(Bodies(key[2])) /\ key[2] = b.kind
            BY <2>2, <2>3, <4>1, <5>2 DEF Grouping
          <6> QED
            BY <6>1
        <5> QED
          BY <5>1, <5>2
      <4> HIDE DEF base, K
      <4> QED
        BY <2>2, <4>1, <4>2 DEF Covered
    <3> HIDE DEF base, K, new
    <3> QED
      BY <3>1, <3>2
  <2> HIDE DEF base, k, new
  <2>6. PICK a \in Int : Run(Spanned(cores'), 1, a) /\ Run(base, a + 1, length)
    BY <2>5
  <2>7. group' \in Seq(K)
    <3> HIDE DEF K
    <3> QED
      BY <2>1, <2>4, <2>5
  <2>8. Seq(K) \subseteq Seq(Parts)
    <3>1. K \subseteq Parts
      BY DEF Bodies
    <3> HIDE DEF K
    <3> QED
      BY <3>1
  <2>9. Run(group', a + 1, length')
    <3>1. base \in Seq(Parts) /\ more \in Seq(Parts)
      BY <2>4, <2>5, <2>8
    <3>2. a + 1 \in Int /\ length \in Int /\ length + b.size \in Int
      BY <2>2
    <3>3. Run(base \o more, a + 1, length + b.size)
      BY <2>4, <2>6, <3>1, <3>2, RunConcat
    <3> QED
      BY <2>1, <3>3
  <2>10. Grouping'
    <3>1. key' # <<>> /\ key' \in Seq(HeadNames) \X Kinds /\ key'[2] = b.kind
      BY <2>1, <2>3
    <3> QED
      BY <2>7, <2>8, <3>1 DEF Grouping
  <2>11. Covered'
    BY <2>5, <2>6, <2>9 DEF Covered
  <2>12. Phases' /\ length' \in Nat /\ pc' = "read"
    BY <1>1, <1>2, <2>1, <2>2 DEF Phases
  <2> QED
    BY <1>1, <1>2, <2>2, <2>10, <2>11, <2>12 DEF ChunkInv
<1> QED
  BY <1>3, <1>4

LEMMA StepEndDocument ==
  ASSUME ChunkInv, EndDocument
  PROVE  ChunkInv'
<1>1. /\ pc = "read" /\ pc' = "overlap" /\ group' = <<>>
      /\ length' = length /\ key' = key /\ stack' = stack /\ chunks' = chunks /\ chunks = <<>>
      /\ cores' = IF group = <<>> THEN cores ELSE cores \o Cores(group, key)
  BY DEF EndDocument, ChunkInv, Phases
<1>2. length \in Nat /\ Grouping /\ Covered /\ stack \in Seq(Items)
  BY DEF ChunkInv
<1>3. cores' \in Seq(CoreSet) /\ Run(Spanned(cores'), 1, length)
  <2>1. CASE group = <<>>
    <3>1. PICK a \in Int : Run(Spanned(cores), 1, a) /\ Run(group, a + 1, length)
      BY <1>2 DEF Covered
    <3>2. a = length
      BY <1>2, <2>1, <3>1 DEF Run
    <3> QED
      BY <1>1, <1>2, <2>1, <3>1, <3>2 DEF Covered
  <2>2. CASE group # <<>>
    BY <1>1, <1>2, <2>2, Flushed DEF Grouping
  <2> QED
    BY <2>1, <2>2
<1>4. Covered'
  <2>1. Run(<<>>, length + 1, length) /\ length \in Int
    BY <1>2 DEF Run
  <2> QED
    BY <1>1, <1>3, <2>1 DEF Covered
<1>5. Grouping'
  <2>1. <<>> \in Seq(Parts) /\ <<>> \in Seq(Bodies(key[2]))
    OBVIOUS
  <2>2. key' # <<>> => key' \in Seq(HeadNames) \X Kinds
    BY <1>1, <1>2 DEF Grouping
  <2> QED
    BY <1>1, <2>1, <2>2 DEF Grouping
<1>6. Lent'
  <2>1. Len(cores') \in Nat
    BY <1>3, LenProperties
  <2>2. Len(chunks') = 0 /\ chunks' = <<>>
    BY <1>1
  <2> QED
    BY <2>1, <2>2 DEF Lent
<1>7. Phases'
  BY <1>1 DEF Phases
<1> QED
  BY <1>1, <1>2, <1>4, <1>5, <1>6, <1>7 DEF ChunkInv

(* Neighbouring cores adjoin in the document. *)
LEMMA CoresAdjoin ==
  ASSUME Covered, NEW i \in 2..Len(cores)
  PROVE  /\ cores[i-1] \in CoreSet /\ cores[i] \in CoreSet
         /\ Hull(cores[i].parts).from = Hull(cores[i-1].parts).to + 1
<1>1. cores \in Seq(CoreSet) /\ Len(cores) \in Nat
  BY LenProperties DEF Covered
<1>2. i \in 1..Len(cores) /\ i - 1 \in 1..Len(cores)
  BY <1>1
<1>3. PICK a \in Int : Run(Spanned(cores), 1, a)
  BY DEF Covered
<1>4. Len(Spanned(cores)) = Len(cores) /\ Spanned(cores) \in Seq(Parts)
  BY <1>1, SpannedType
<1>5. Spanned(cores) # <<>>
  <2>1. Len(Spanned(cores)) # 0
    BY <1>1, <1>2, <1>4
  <2> QED
    BY <2>1
<1>6. Spanned(cores)[i].from = Spanned(cores)[i-1].to + 1
  BY <1>3, <1>4, <1>5 DEF Run
<1>7. /\ Spanned(cores)[i] = Hull(cores[i].parts)
      /\ Spanned(cores)[i-1] = Hull(cores[i-1].parts)
  BY <1>2 DEF Spanned
<1> QED
  BY <1>1, <1>2, <1>6, <1>7

LEMMA StepAddChunk ==
  ASSUME ChunkInv, AddChunk
  PROVE  ChunkInv'
<1> DEFINE i == Len(chunks) + 1
           before == IF i > 1 /\ CanOverlap(cores[i-1], cores[i])
                     THEN SentenceOverlap(Lendable(cores[i-1]), TRUE) ELSE <<>>
           after == IF i < Len(cores) /\ CanOverlap(cores[i], cores[i+1])
                    THEN SentenceOverlap(Lendable(cores[i+1]), FALSE) ELSE <<>>
           new == [before |-> before, after |-> after]
<1>1. /\ pc = "overlap" /\ Len(chunks) < Len(cores) /\ chunks' = Append(chunks, new)
      /\ UNCHANGED <<pc, read, length, ends, stack, key, group, cores>>
  BY DEF AddChunk
<1>2. /\ chunks \in Seq([before : Seq(Parts), after : Seq(Parts)])
      /\ \A n \in 1..Len(chunks) : LentBefore(n) /\ LentAfter(n)
      /\ Covered /\ cores \in Seq(CoreSet)
  BY DEF ChunkInv, Lent, Covered
<1>3. Len(chunks) \in Nat /\ Len(cores) \in Nat
  BY <1>2, LenProperties
<1>4. i \in 1..Len(cores) /\ i \in Nat
  BY <1>1, <1>3
<1>5. /\ before \in Seq(Parts)
      /\ before # <<>> => /\ i > 1 /\ cores[i-1].headings = cores[i].headings
                          /\ JoinedTokens(before) + Separator <= OverlapMax
                          /\ \E c \in Int : Run(before, c, Hull(cores[i].parts).from - 1)
  <2>1. CASE before = <<>>
    <3> HIDE DEF before
    <3>1. <<>> \in Seq(Parts)
      OBVIOUS
    <3> QED
      BY <2>1, <3>1
  <2>2. CASE before # <<>>
    <3> DEFINE p == cores[i-1]
               units == Lendable(p)
    <3>1. i > 1 /\ CanOverlap(p, cores[i]) /\ before = SentenceOverlap(units, TRUE)
      BY <2>2
    <3>2. i \in 2..Len(cores)
      BY <1>4, <3>1
    <3>3. /\ p \in CoreSet /\ p.kind = "text" /\ p.headings = cores[i].headings
          /\ Hull(cores[i].parts).from = Hull(p.parts).to + 1
      BY <1>2, <3>1, <3>2, CoresAdjoin DEF CanOverlap, AdjoiningKinds
    <3> HIDE DEF before, p, i
    <3>4. /\ Hull(p.parts).from \in Int /\ Hull(p.parts).to \in Int
          /\ Lessened(OverlapTarget) # 0 =>
               units \in Seq(Parts) /\ Run(units, Hull(p.parts).from, Hull(p.parts).to)
      BY <3>3, CoreHull, LendableRun
    <3> HIDE DEF units
    <3>5. /\ SentenceOverlap(units, TRUE) \in Seq(Parts)
          /\ JoinedTokens(SentenceOverlap(units, TRUE)) + Separator <= OverlapMax
          /\ \E c \in Int : Run(SentenceOverlap(units, TRUE), c, Hull(p.parts).to)
      BY <2>2, <3>1, <3>4, OverlapRun
    <3>6. Hull(cores[i].parts).from - 1 = Hull(p.parts).to
      BY <3>3, <3>4
    <3>7. cores[i-1].headings = cores[i].headings
      BY <3>3 DEF p
    <3> QED
      BY <3>1, <3>5, <3>6, <3>7
  <2> HIDE DEF before, i
  <2> QED
    BY <2>1, <2>2
<1>6. /\ after \in Seq(Parts)
      /\ after # <<>> => /\ i < Len(cores) /\ cores[i+1].headings = cores[i].headings
                         /\ JoinedTokens(after) + Separator <= OverlapMax
                         /\ \E c \in Int : Run(after, Hull(cores[i].parts).to + 1, c)
  <2>1. CASE after = <<>>
    <3> HIDE DEF after
    <3>1. <<>> \in Seq(Parts)
      OBVIOUS
    <3> QED
      BY <2>1, <3>1
  <2>2. CASE after # <<>>
    <3> DEFINE p == cores[i+1]
               units == Lendable(p)
    <3>1. i < Len(cores) /\ CanOverlap(cores[i], p) /\ after = SentenceOverlap(units, FALSE)
      BY <2>2
    <3>2. i + 1 \in 2..Len(cores) /\ (i + 1) - 1 = i
      BY <1>3, <1>4, <3>1
    <3>3. /\ p \in CoreSet /\ p.kind = "text" /\ p.headings = cores[i].headings
          /\ Hull(p.parts).from = Hull(cores[i].parts).to + 1
      <4>1. p \in CoreSet /\ Hull(p.parts).from = Hull(cores[i].parts).to + 1
        BY <1>2, <3>2, CoresAdjoin
      <4> QED
        BY <3>1, <4>1 DEF CanOverlap, AdjoiningKinds
    <3> HIDE DEF after, p, i
    <3>4. /\ Hull(p.parts).from \in Int /\ Hull(p.parts).to \in Int
          /\ Lessened(OverlapTarget) # 0 =>
               units \in Seq(Parts) /\ Run(units, Hull(p.parts).from, Hull(p.parts).to)
      BY <3>3, CoreHull, LendableRun
    <3> HIDE DEF units
    <3>5. /\ SentenceOverlap(units, FALSE) \in Seq(Parts)
          /\ JoinedTokens(SentenceOverlap(units, FALSE)) + Separator <= OverlapMax
          /\ \E c \in Int : Run(SentenceOverlap(units, FALSE), Hull(p.parts).from, c)
      BY <2>2, <3>1, <3>4, OverlapRun
    <3>7. cores[i+1].headings = cores[i].headings
      BY <3>3 DEF p
    <3> QED
      BY <3>1, <3>3, <3>5, <3>7
  <2> HIDE DEF after, i
  <2> QED
    BY <2>1, <2>2
<1> HIDE DEF before, after
<1>7. new \in [before : Seq(Parts), after : Seq(Parts)] /\ new.before = before /\ new.after = after
  BY <1>5, <1>6
<1> HIDE DEF new
<1>8. /\ chunks' \in Seq([before : Seq(Parts), after : Seq(Parts)])
      /\ Len(chunks') = i /\ chunks'[i] = new
      /\ \A n \in 1..Len(chunks) : chunks'[n] = chunks[n]
  BY <1>1, <1>2, <1>7, AppendProperties
<1>9. Lent'
  <2>1. ASSUME NEW n \in 1..i PROVE LentBefore(n)' /\ LentAfter(n)'
    <3>1. CASE n = i
      <4>1. chunks'[n].before = before /\ chunks'[n].after = after /\ cores' = cores
        BY <1>1, <1>7, <1>8, <3>1
      <4> HIDE DEF i
      <4> QED
        BY <1>5, <1>6, <3>1, <4>1 DEF LentBefore, LentAfter
    <3>2. CASE n # i
      <4>1. n \in 1..Len(chunks)
        BY <1>3, <3>2
      <4>2. chunks'[n] = chunks[n] /\ cores' = cores
        BY <1>1, <1>8, <4>1
      <4> QED
        BY <1>2, <4>1, <4>2 DEF LentBefore, LentAfter
    <3> QED
      BY <3>1, <3>2
  <2>2. Len(chunks') <= Len(cores')
    BY <1>1, <1>4, <1>8
  <2> HIDE DEF i
  <2> QED
    BY <1>8, <2>1, <2>2 DEF Lent
<1>10. Grouping' /\ Covered'
  BY <1>1 DEF ChunkInv, Grouping, Covered
<1>11. Phases'
  BY <1>1 DEF ChunkInv, Phases
<1>12. length' \in Nat /\ stack' \in Seq(Items) /\ pc' = "overlap"
  BY <1>1 DEF ChunkInv
<1> QED
  BY <1>9, <1>10, <1>11, <1>12 DEF ChunkInv

LEMMA StepChunks ==
  ASSUME ChunkInv, [ChunkNext]_chunkVars
  PROVE  ChunkInv'
<1>1. CASE \E h \in Headings : AddHeading(h)
  BY <1>1, StepAddHeading
<1>2. CASE \E b \in Blocks : AddBlock(b)
  BY <1>2, StepAddBlock
<1>3. CASE EndDocument
  BY <1>3, StepEndDocument
<1>4. CASE AddChunk
  BY <1>4, StepAddChunk
<1>5. CASE EndChunks
  <2>1. /\ pc = "overlap" /\ pc' = "done"
        /\ UNCHANGED <<read, length, ends, stack, key, group, cores, chunks>>
    BY <1>5 DEF EndChunks
  <2>2. Grouping' /\ Covered'
    BY <2>1 DEF ChunkInv, Grouping, Covered
  <2>3. Phases'
    BY <2>1 DEF ChunkInv, Phases
  <2>4. Lent'
    BY <2>1 DEF ChunkInv, Lent, LentBefore, LentAfter
  <2> QED
    BY <2>1, <2>2, <2>3, <2>4 DEF ChunkInv
<1>6. CASE UNCHANGED chunkVars
  <2>1. UNCHANGED <<pc, read, length, ends, stack, key, group, cores, chunks>>
    BY <1>6 DEF chunkVars
  <2>2. Grouping' /\ Covered'
    BY <2>1 DEF ChunkInv, Grouping, Covered
  <2>3. Phases'
    BY <2>1 DEF ChunkInv, Phases
  <2>4. Lent'
    BY <2>1 DEF ChunkInv, Lent, LentBefore, LentAfter
  <2> QED
    BY <2>1, <2>2, <2>3, <2>4 DEF ChunkInv
<1> QED
  BY <1>1, <1>2, <1>3, <1>4, <1>5, <1>6 DEF ChunkNext

(* What the cores, the open group and the lent sentences stand for while a document is
   read and its chunks are made (_pack_markdown_blocks, _chunks_with_sentence_overlap). *)
THEOREM ChunkInvariant ==
  ChunkSpec => []ChunkInv
<1> QED
  BY InitInv, StepChunks, PTL DEF ChunkSpec

LEMMA LostNothing ==
  ChunkInv => NothingLost
<1> SUFFICES ASSUME ChunkInv, pc = "done" PROVE NothingLost
  BY DEF NothingLost
<1> DEFINE all == FlattenSeq([i \in DOMAIN cores |-> cores[i].parts])
           seqs == [i \in DOMAIN cores |-> cores[i].parts]
<1>1. /\ length \in Nat /\ group = <<>> /\ cores \in Seq(CoreSet)
      /\ \E a \in Int : Run(Spanned(cores), 1, a) /\ Run(group, a + 1, length)
  BY DEF ChunkInv, Phases, Covered
<1>2. Run(Spanned(cores), 1, length)
  BY <1>1 DEF Run
<1>3. Len(cores) \in Nat /\ DOMAIN cores = 1..Len(cores)
  BY <1>1, LenProperties
<1>4. \A i \in 1..Len(cores) : /\ cores[i].parts \in Seq(Parts)
                               /\ Run(cores[i].parts, Hull(cores[i].parts).from,
                                      Hull(cores[i].parts).to)
  <2>1. \A i \in 1..Len(cores) : cores[i] \in CoreSet
    BY <1>1
  <2> QED
    BY <2>1, CoreHull
<1>5. seqs \in Seq(Seq(Parts)) /\ Len(seqs) = Len(cores)
      /\ \A i \in 1..Len(cores) : seqs[i] = cores[i].parts
  <2>1. seqs \in [1..Len(cores) -> Seq(Parts)]
    BY <1>3, <1>4
  <2>2. \A i \in 1..Len(cores) : seqs[i] = cores[i].parts
    BY <1>3
  <2> HIDE DEF seqs
  <2> QED
    BY <1>3, <2>1, <2>2, IsASeq, LenProperties
<1> DEFINE hulls == Spanned(cores)
<1>6. hulls \in Seq(Parts) /\ Len(hulls) = Len(cores)
      /\ \A i \in 1..Len(cores) : hulls[i] = Hull(cores[i].parts)
  <2>1. hulls \in Seq(Parts) /\ Len(hulls) = Len(cores)
    BY <1>1, SpannedType
  <2>2. \A i \in 1..Len(cores) : hulls[i] = Hull(cores[i].parts)
    BY DEF Spanned
  <2> QED
    BY <2>1, <2>2
<1>7. all = FlattenSeq(seqs)
  OBVIOUS
<1>8. Run(hulls, 1, length)
  BY <1>2
<1> HIDE DEF seqs, hulls, all
<1>9. all \in Seq(Parts) /\ Run(all, 1, length)
  <2>1. \A i \in 1..Len(hulls) : Run(seqs[i], hulls[i].from, hulls[i].to)
    BY <1>4, <1>5, <1>6
  <2>2. Len(seqs) = Len(hulls) /\ 1 \in Int /\ length \in Int /\ Parts \in SUBSET Parts
    BY <1>1, <1>5, <1>6
  <2> QED
    BY <1>5, <1>6, <1>7, <1>8, <2>1, <2>2, FlattenRun
<1>10. Contiguous(all) /\ IF all = <<>> THEN length = 0 ELSE all[1].from = 1 /\ Last(all).to = length
  <2>1. CASE all = <<>>
    <3>1. Len(all) = 0 /\ 1 = length + 1
      BY <1>9, <2>1 DEF Run
    <3> QED
      BY <1>1, <2>1, <3>1 DEF Contiguous
  <2>2. CASE all # <<>>
    BY <1>9, <2>2 DEF Run, Contiguous, Last
  <2> QED
    BY <2>1, <2>2
<1> QED
  BY <1>10 DEF NothingLost, all

LEMMA AroundRun ==
  ASSUME NEW s \in Seq(Parts), NEW c \in CoreSet, NEW t \in Seq(Parts),
         s # <<>> => /\ JoinedTokens(s) + Separator <= OverlapMax
                     /\ \E a \in Int : Run(s, a, Hull(c.parts).from - 1),
         t # <<>> => /\ JoinedTokens(t) + Separator <= OverlapMax
                     /\ \E b \in Int : Run(t, Hull(c.parts).to + 1, b)
  PROVE  /\ JoinedTokens(s \o c.parts \o t) <= BodyMax + 2 * OverlapMax
         /\ Contiguous(s \o c.parts \o t)
<1> DEFINE p == c.parts
           from == Hull(p).from
           to == Hull(p).to
           q == s \o p
           r == q \o t
<1>1. /\ p \in Seq(Parts) /\ p # <<>> /\ JoinedTokens(p) <= BodyMax
      /\ from \in Int /\ to \in Int /\ Run(p, from, to)
  BY CoreHull
<1>2. {BodyMax, OverlapMax, Separator} \subseteq Nat
  BY ChunkingAssumption
<1>3. JoinedTokens(p) \in Int
  BY <1>1, JoinedType
<1> HIDE DEF p, from, to
<1>4. /\ q \in Seq(Parts) /\ q # <<>> /\ JoinedTokens(q) \in Int
      /\ JoinedTokens(q) <= BodyMax + OverlapMax
      /\ \E a \in Int : Run(q, a, to)
  <2>1. CASE s = <<>>
    <3>1. q = p
      BY <1>1, <2>1, ConcatEmptySeq
    <3> QED
      BY <1>1, <1>2, <1>3, <3>1
  <2>2. CASE s # <<>>
    <3>1. PICK a \in Int : Run(s, a, from - 1)
      BY <2>2 DEF from, p
    <3>2. q \in Seq(Parts) /\ Run(q, a, to)
      <4>1. from - 1 \in Int /\ (from - 1) + 1 = from
        BY <1>1
      <4> QED
        BY <1>1, <3>1, <4>1, RunConcat
    <3>3. q # <<>>
      BY <1>1, <2>2, ConcatProperties, EmptySeq
    <3>4. /\ JoinedTokens(s) \in Int /\ JoinedTokens(q) = JoinedTokens(s) + Separator + JoinedTokens(p)
      BY <1>1, <2>2, JoinedConcat
    <3>5. JoinedTokens(s) + Separator <= OverlapMax
      BY <2>2
    <3> HIDE DEF q
    <3>6. JoinedTokens(q) \in Int /\ JoinedTokens(q) <= BodyMax + OverlapMax
      <4>1. JoinedTokens(p) <= BodyMax
        BY <1>1
      <4> QED
        BY <1>2, <1>3, <3>4, <3>5, <4>1
    <3> QED
      BY <3>2, <3>3, <3>6
  <2> HIDE DEF q
  <2> QED
    BY <2>1, <2>2
<1> HIDE DEF q
<1>5. /\ r \in Seq(Parts) /\ JoinedTokens(r) <= BodyMax + 2 * OverlapMax
      /\ \E a \in Int, b \in Int : Run(r, a, b)
  <2>1. CASE t = <<>>
    <3>1. r = q
      BY <1>4, <2>1, ConcatEmptySeq
    <3> HIDE DEF r
    <3>2. JoinedTokens(q) <= BodyMax + 2 * OverlapMax
      <4>1. JoinedTokens(q) \in Int /\ JoinedTokens(q) <= BodyMax + OverlapMax
        BY <1>4
      <4> QED
        BY <1>2, <4>1
    <3> QED
      BY <1>1, <1>4, <3>1, <3>2
  <2>2. CASE t # <<>>
    <3>1. PICK b \in Int : Run(t, to + 1, b)
      BY <2>2 DEF to, p
    <3>2. PICK a \in Int : Run(q, a, to)
      BY <1>4
    <3>3. r \in Seq(Parts) /\ Run(r, a, b)
      BY <1>1, <1>4, <3>1, <3>2, RunConcat
    <3>4. /\ JoinedTokens(t) \in Int /\ JoinedTokens(r) = JoinedTokens(q) + Separator + JoinedTokens(t)
      BY <1>4, <2>2, JoinedConcat
    <3>5. JoinedTokens(t) + Separator <= OverlapMax
      BY <2>2
    <3> HIDE DEF r
    <3>6. JoinedTokens(r) <= BodyMax + 2 * OverlapMax
      <4>1. JoinedTokens(q) \in Int /\ JoinedTokens(q) <= BodyMax + OverlapMax
        BY <1>4
      <4> QED
        BY <1>2, <3>4, <3>5, <4>1
    <3> QED
      BY <3>3, <3>6
  <2> HIDE DEF r
  <2> QED
    BY <2>1, <2>2
<1>6. Contiguous(r)
  <2> HIDE DEF r
  <2>1. PICK a \in Int, b \in Int : Run(r, a, b)
    BY <1>5
  <2>2. CASE r = <<>>
    BY <2>2 DEF Contiguous
  <2>3. CASE r # <<>>
    BY <2>1, <2>3 DEF Contiguous, Run
  <2> QED
    BY <2>2, <2>3
<1> QED
  BY <1>5, <1>6 DEF r, q, p

LEMMA TextsHold ==
  ASSUME ChunkInv, NEW i \in DOMAIN chunks
  PROVE  /\ JoinedTokens(Text(i)) <= BodyMax + 2 * OverlapMax
         /\ Contiguous(Text(i))
         /\ chunks[i].before # <<>> => cores[i-1].headings = cores[i].headings
         /\ chunks[i].after # <<>> => cores[i+1].headings = cores[i].headings
<1>1. /\ chunks \in Seq([before : Seq(Parts), after : Seq(Parts)]) /\ cores \in Seq(CoreSet)
      /\ Len(chunks) <= Len(cores) /\ \A n \in 1..Len(chunks) : LentBefore(n) /\ LentAfter(n)
  BY DEF ChunkInv, Lent, Covered
<1>2. DOMAIN chunks = 1..Len(chunks) /\ Len(chunks) \in Nat /\ Len(cores) \in Nat
  BY <1>1, LenProperties
<1>3. i \in 1..Len(cores) /\ LentBefore(i) /\ LentAfter(i)
  BY <1>1, <1>2
<1>4. chunks[i] \in [before : Seq(Parts), after : Seq(Parts)] /\ cores[i] \in CoreSet
  <2>1. cores[i] \in CoreSet
    BY <1>1, <1>3
  <2>2. i \in 1..Len(chunks)
    BY <1>2
  <2> QED
    BY <1>1, <2>1, <2>2, ElementOfSeq
<1> DEFINE s == chunks[i].before
           t == chunks[i].after
           c == cores[i]
<1>5. s \in Seq(Parts) /\ t \in Seq(Parts) /\ c \in CoreSet
  BY <1>4
<1>6. /\ s # <<>> => /\ JoinedTokens(s) + Separator <= OverlapMax
                     /\ \E a \in Int : Run(s, a, Hull(c.parts).from - 1)
      /\ t # <<>> => /\ JoinedTokens(t) + Separator <= OverlapMax
                     /\ \E b \in Int : Run(t, Hull(c.parts).to + 1, b)
  BY <1>3 DEF LentBefore, LentAfter
<1>7. Text(i) = s \o c.parts \o t
  BY DEF Text
<1> HIDE DEF s, t, c
<1>8. /\ JoinedTokens(s \o c.parts \o t) <= BodyMax + 2 * OverlapMax
      /\ Contiguous(s \o c.parts \o t)
  BY <1>5, <1>6, AroundRun
<1> QED
  BY <1>3, <1>7, <1>8 DEF LentBefore, LentAfter

(* Every token of a document is in one core, in order, whichever way its blocks were
   split and packed: for every document and every setting. *)
THEOREM ChunkNothingLost ==
  ChunkSpec => []NothingLost
<1> QED
  BY ChunkInvariant, LostNothing, PTL

(* No core exceeds the budget, and none with the sentences it was lent exceeds it by more
   than two overlaps: an ingest is never stopped by the checks of chunk_markdown. *)
THEOREM ChunkWithinBudget ==
  ChunkSpec => []WithinBudget
<1>1. ChunkInv => WithinBudget
  <2> SUFFICES ASSUME ChunkInv PROVE WithinBudget
    OBVIOUS
  <2>1. \A i \in DOMAIN cores : JoinedTokens(cores[i].parts) <= BodyMax
    <3>1. \A i \in DOMAIN cores : cores[i] \in CoreSet
      BY DEF ChunkInv, Covered
    <3> QED
      BY <3>1, CoreHull
  <2>2. \A i \in DOMAIN chunks : JoinedTokens(Text(i)) <= BodyMax + 2 * OverlapMax
    BY TextsHold
  <2> QED
    BY <2>1, <2>2 DEF WithinBudget
<1> QED
  BY <1>1, ChunkInvariant, PTL

(* What a chunk was lent adjoins it in the document, without a gap, and comes from the
   same section. *)
THEOREM ChunkPassage ==
  ChunkSpec => []ChunkIsPassage
<1>1. ChunkInv => ChunkIsPassage
  BY TextsHold DEF ChunkIsPassage
<1> QED
  BY <1>1, ChunkInvariant, PTL
-----------------------------------------------------------------------------
ReadItems == Items \cup {[level |-> 0, name |-> b.kind] : b \in Blocks}
HeadingsInv ==
  /\ read \in Seq(ReadItems) /\ stack \in Seq(Items)
  /\ HeadingsAreOpen

LEMMA Levels ==
  /\ \A h \in Items : h.level \in Nat \ {0}
  /\ \A h \in ReadItems : h.level \in Nat
<1>1. \A h \in Items : h.level \in Nat \ {0}
  BY ChunkingAssumption DEF Items
<1> QED
  BY <1>1 DEF ReadItems

LEMMA InitHeadings ==
  ChunkInit => HeadingsInv
<1> SUFFICES ASSUME ChunkInit PROVE HeadingsInv
  OBVIOUS
<1> DEFINE t == [level |-> 1, name |-> "title"]
<1>0. t.level = 1 /\ t \in Items /\ t \in ReadItems
  BY DEF Items, ReadItems
<1> HIDE DEF t
<1>1. CASE read = <<>> /\ stack = <<>>
  <2>1. OpenItems = {} /\ DOMAIN stack = {}
    BY <1>1 DEF OpenItems
  <2>2. HeadingsAreOpen
    <3> DEFINE at == [i \in {} |-> i]
    <3>1. at \in [DOMAIN stack -> OpenItems]
      BY <2>1
    <3>2. stack = [n \in DOMAIN stack |-> read[at[n]]]
      BY <1>1
    <3>3. {at[n] : n \in DOMAIN stack} = OpenItems
      BY <2>1
    <3> HIDE DEF at
    <3> QED
      BY <2>1, <3>1, <3>2, <3>3 DEF HeadingsAreOpen
  <2>3. read \in Seq(ReadItems) /\ stack \in Seq(Items)
    BY <1>1
  <2> QED
    BY <2>2, <2>3 DEF HeadingsInv
<1>2. CASE read = <<t>> /\ stack = <<t>>
  <2>1. /\ DOMAIN read = {1} /\ DOMAIN stack = {1} /\ read[1] = t /\ stack[1] = t
        /\ stack = [n \in {1} |-> t]
    BY <1>2
  <2>2. OpenItems = {1}
    BY <1>0, <2>1 DEF OpenItems
  <2>3. HeadingsAreOpen
    <3> DEFINE at == [i \in {1} |-> 1]
    <3>1. at \in [DOMAIN stack -> OpenItems] /\ at[1] = 1
      BY <2>1, <2>2
    <3> HIDE DEF at
    <3>2. {at[n] : n \in DOMAIN stack} = OpenItems
      BY <2>1, <2>2, <3>1
    <3>3. stack = [n \in DOMAIN stack |-> read[at[n]]]
      BY <2>1, <3>1
    <3>4. \A m, n \in DOMAIN stack : m < n => at[m] < at[n]
      BY <2>1
    <3> QED
      BY <3>1, <3>2, <3>3, <3>4 DEF HeadingsAreOpen
  <2>4. read \in Seq(ReadItems) /\ stack \in Seq(Items)
    BY <1>0, <1>2
  <2> QED
    BY <2>3, <2>4 DEF HeadingsInv
<1> QED
  BY <1>1, <1>2 DEF ChunkInit, t

LEMMA StepHeading ==
  ASSUME HeadingsInv, NEW h \in Headings, AddHeading(h)
  PROVE  HeadingsInv'
<1> DEFINE m == Len(read)
           k == Len(stack)
<1>1. /\ read \in Seq(ReadItems) /\ stack \in Seq(Items) /\ HeadingsAreOpen
      /\ read' = Append(read, h)
  BY DEF HeadingsInv, AddHeading
<1>2. m \in Nat /\ k \in Nat /\ DOMAIN read = 1..m /\ DOMAIN stack = 1..k
  BY <1>1, LenProperties
<1>3. PICK n \in 0..k :
        /\ \A i \in (n+1)..k : ~(stack[i].level < h.level)
        /\ n > 0 => stack[n].level < h.level
        /\ stack' = Append(SubSeq(stack, 1, n), h)
  BY DEF AddHeading, StillOpen
<1>4. PICK at \in [DOMAIN stack -> OpenItems] :
        /\ \A i, j \in DOMAIN stack : i < j => at[i] < at[j]
        /\ {at[i] : i \in DOMAIN stack} = OpenItems
        /\ stack = [i \in DOMAIN stack |-> read[at[i]]]
  BY <1>1 DEF HeadingsAreOpen
<1>5. h \in Items /\ h \in ReadItems /\ h.level \in Nat \ {0}
  BY Levels DEF Items, ReadItems
<1>6. /\ read' \in Seq(ReadItems) /\ Len(read') = m + 1 /\ DOMAIN read' = 1..(m+1)
      /\ (\A i \in 1..m : read'[i] = read[i]) /\ read'[m+1] = h
  <2>1. /\ Append(read, h) \in Seq(ReadItems) /\ Len(Append(read, h)) = m + 1
        /\ \A i \in 1..m : Append(read, h)[i] = read[i]
        /\ Append(read, h)[m+1] = h
    BY <1>1, <1>5, AppendProperties
  <2>2. DOMAIN Append(read, h) = 1..(m+1)
    BY <2>1, LenProperties
  <2> QED
    BY <1>1, <2>1, <2>2
<1>7. \A i \in 1..m : read[i].level \in Nat
  <2>1. \A i \in 1..m : read[i] \in ReadItems
    BY <1>1
  <2> QED
    BY <2>1, Levels
<1>8. /\ Len(stack') = n + 1 /\ stack' \in Seq(Items) /\ DOMAIN stack' = 1..(n+1)
      /\ (\A i \in 1..n : stack'[i] = stack[i]) /\ stack'[n+1] = h
  <2> DEFINE s == SubSeq(stack, 1, n)
  <2>1. s \in Seq(Items) /\ Len(s) = n /\ \A i \in 1..n : s[i] = stack[i]
    <3>1. \A i \in 1..n : stack[i] \in Items
      BY <1>1, <1>2
    <3>2. /\ s \in Seq(Items) /\ Len(s) = IF 1 <= n THEN n - 1 + 1 ELSE 0
          /\ \A i \in 1..(n-1+1) : s[i] = stack[1+i-1]
      BY <3>1, SubSeqProperties
    <3>3. n - 1 + 1 = n /\ \A i \in 1..n : 1+i-1 = i
      BY <1>2
    <3>4. Len(s) = n
      BY <1>2, <3>2
    <3> HIDE DEF s
    <3> QED
      BY <3>2, <3>3, <3>4
  <2> HIDE DEF s
  <2>2. /\ Append(s, h) \in Seq(Items) /\ Len(Append(s, h)) = n + 1
        /\ \A i \in 1..n : Append(s, h)[i] = s[i]
        /\ Append(s, h)[n+1] = h
    BY <1>5, <2>1, AppendProperties
  <2>3. DOMAIN Append(s, h) = 1..(n+1) /\ stack' = Append(s, h)
    BY <1>3, <2>2, LenProperties DEF s
  <2> QED
    BY <2>1, <2>2, <2>3
<1> HIDE DEF m, k
<1>9. OpenItems' = {i \in OpenItems : read[i].level < h.level} \cup {m + 1}
  <2>1. OpenItems' = {i \in 1..(m+1) : read'[i].level > 0 /\ \A j \in 1..(m+1) :
                        i < j /\ read'[j].level > 0 => read'[i].level < read'[j].level}
    BY <1>6 DEF OpenItems
  <2>2. OpenItems = {i \in 1..m : read[i].level > 0 /\ \A j \in 1..m :
                        i < j /\ read[j].level > 0 => read[i].level < read[j].level}
    BY <1>2 DEF OpenItems
  <2>3. ASSUME NEW i \in OpenItems'
        PROVE  i = m + 1 \/ (i \in OpenItems /\ read[i].level < h.level)
    <3> SUFFICES ASSUME i # m + 1 PROVE i \in OpenItems /\ read[i].level < h.level
      OBVIOUS
    <3>1. i \in 1..m /\ i < m + 1 /\ m + 1 \in 1..(m+1)
      BY <1>2, <2>1, <2>3
    <3>2. \A j \in 1..m : j \in 1..(m+1)
      BY <1>2
    <3>3. read'[i].level < read'[m+1].level
      BY <1>5, <1>6, <2>1, <3>1
    <3>4. read[i].level > 0 /\ \A j \in 1..m : i < j /\ read[j].level > 0 =>
            read[i].level < read[j].level
      BY <1>6, <2>1, <3>1, <3>2
    <3> QED
      BY <1>6, <2>2, <3>1, <3>3, <3>4
  <2>4. ASSUME NEW i \in OpenItems, read[i].level < h.level PROVE i \in OpenItems'
    <3>1. i \in 1..m /\ i \in 1..(m+1)
      BY <1>2, <2>2
    <3>2. ASSUME NEW j \in 1..(m+1), i < j, read'[j].level > 0
          PROVE  read'[i].level < read'[j].level
      <4>1. CASE j = m + 1
        BY <1>6, <2>4, <3>1, <4>1
      <4>2. CASE j # m + 1
        <5>1. j \in 1..m
          BY <1>2, <4>2
        <5> QED
          BY <1>6, <2>2, <3>1, <3>2, <5>1
      <4> QED
        BY <4>1, <4>2
    <3>3. read'[i].level > 0
      BY <1>6, <2>2, <3>1
    <3> QED
      BY <2>1, <3>1, <3>2, <3>3
  <2>5. m + 1 \in OpenItems'
    <3>1. m + 1 \in 1..(m+1) /\ \A j \in 1..(m+1) : ~(m + 1 < j)
      BY <1>2
    <3> QED
      BY <1>5, <1>6, <2>1, <3>1
  <2> QED
    BY <2>3, <2>4, <2>5
<1>10. \A i \in 1..k : /\ at[i] \in OpenItems /\ at[i] \in 1..m /\ stack[i] = read[at[i]]
                       /\ read[at[i]].level \in Nat /\ read[at[i]].level > 0
  <2>1. \A i \in 1..k : at[i] \in OpenItems /\ stack[i] = read[at[i]]
    BY <1>2, <1>4
  <2>2. \A x \in OpenItems : x \in 1..m /\ read[x].level > 0
    BY <1>2 DEF OpenItems
  <2> QED
    BY <1>7, <2>1, <2>2
<1>11. \A i \in 1..k : read[at[i]].level < h.level <=> i <= n
  <2> SUFFICES ASSUME NEW i \in 1..k PROVE read[at[i]].level < h.level <=> i <= n
    OBVIOUS
  <2>1. CASE i > n
    <3>1. i \in (n+1)..k
      BY <1>2, <2>1
    <3> QED
      BY <1>2, <1>3, <1>10, <2>1, <3>1
  <2>2. CASE i = n
    BY <1>2, <1>3, <1>10, <2>2
  <2>3. CASE i < n
    <3>1. n \in 1..k /\ n > 0
      BY <1>2, <2>3
    <3>2. at[i] < at[n]
      BY <1>2, <1>4, <2>3, <3>1
    <3>3. read[at[i]].level < read[at[n]].level
      <4>1. \A x, y \in OpenItems : x < y /\ read[y].level > 0 => read[x].level < read[y].level
        BY DEF OpenItems
      <4> QED
        BY <1>10, <3>1, <3>2, <4>1
    <3>4. read[at[n]].level < h.level
      BY <1>3, <1>10, <3>1
    <3> QED
      BY <1>5, <1>10, <2>3, <3>1, <3>3, <3>4
  <2> QED
    BY <1>2, <2>1, <2>2, <2>3
<1> DEFINE at2 == [i \in 1..(n+1) |-> IF i <= n THEN at[i] ELSE m + 1]
<1>12. /\ \A i \in 1..n : at2[i] = at[i] /\ i \in 1..k
       /\ at2[n+1] = m + 1
  BY <1>2
<1>13. \A i \in 1..(n+1) : i \in 1..n \/ i = n + 1
  BY <1>2
<1>14. at2 \in [DOMAIN stack' -> OpenItems']
  <2>1. \A i \in 1..(n+1) : at2[i] \in OpenItems'
    <3> SUFFICES ASSUME NEW i \in 1..(n+1) PROVE at2[i] \in OpenItems'
      OBVIOUS
    <3> HIDE DEF at2
    <3>1. CASE i \in 1..n
      <4>1. at2[i] = at[i] /\ at[i] \in OpenItems /\ read[at[i]].level < h.level
        <5>1. i <= n
          BY <3>1
        <5> QED
          BY <1>10, <1>11, <1>12, <3>1, <5>1
      <4> QED
        BY <1>9, <4>1
    <3>2. CASE i = n + 1
      BY <1>9, <1>12, <3>2
    <3> QED
      BY <1>13, <3>1, <3>2
  <2> QED
    BY <1>8, <2>1
<1> HIDE DEF at2
<1>15. \A i, j \in DOMAIN stack' : i < j => at2[i] < at2[j]
  <2> SUFFICES ASSUME NEW i \in 1..(n+1), NEW j \in 1..(n+1), i < j PROVE at2[i] < at2[j]
    BY <1>8
  <2>1. i \in 1..n
    BY <1>2
  <2>2. CASE j \in 1..n
    BY <1>2, <1>4, <1>12, <2>1, <2>2
  <2>3. CASE j = n + 1
    <3>1. at2[i] = at[i] /\ at[i] \in 1..m /\ at2[j] = m + 1
      BY <1>10, <1>12, <2>1, <2>3
    <3> QED
      BY <1>2, <3>1
  <2> QED
    BY <1>13, <2>2, <2>3
<1>16. {at2[i] : i \in DOMAIN stack'} = OpenItems'
  <2>1. ASSUME NEW x \in OpenItems' PROVE \E i \in 1..(n+1) : x = at2[i]
    <3>1. CASE x = m + 1
      <4>1. n + 1 \in 1..(n+1)
        BY <1>2
      <4> QED
        BY <1>12, <3>1, <4>1
    <3>2. CASE x \in OpenItems /\ read[x].level < h.level
      <4>1. PICK i \in 1..k : x = at[i]
        BY <1>2, <1>4, <3>2
      <4>2. i \in 1..n /\ i \in 1..(n+1)
        BY <1>2, <1>11, <3>2, <4>1
      <4> QED
        BY <1>12, <4>1, <4>2
    <3> QED
      BY <1>9, <3>1, <3>2
  <2>2. \A i \in 1..(n+1) : at2[i] \in OpenItems'
    BY <1>8, <1>14
  <2> QED
    BY <1>8, <2>1, <2>2
<1>17. stack' = [i \in DOMAIN stack' |-> read'[at2[i]]]
  <2>1. \A i \in 1..(n+1) : stack'[i] = read'[at2[i]]
    <3> SUFFICES ASSUME NEW i \in 1..(n+1) PROVE stack'[i] = read'[at2[i]]
      OBVIOUS
    <3>1. CASE i \in 1..n
      <4>1. i \in 1..k /\ at2[i] = at[i] /\ stack'[i] = stack[i]
        BY <1>8, <1>12, <3>1
      <4>2. at[i] \in 1..m /\ stack[i] = read[at[i]]
        BY <1>10, <4>1
      <4>3. read'[at[i]] = read[at[i]]
        BY <1>6, <4>2
      <4> QED
        BY <4>1, <4>2, <4>3
    <3>2. CASE i = n + 1
      BY <1>6, <1>8, <1>12, <3>2
    <3> QED
      BY <1>13, <3>1, <3>2
  <2>2. stack' = [i \in DOMAIN stack' |-> stack'[i]]
    BY <1>8
  <2> QED
    BY <1>8, <2>1, <2>2
<1>18. HeadingsAreOpen'
  BY <1>14, <1>15, <1>16, <1>17 DEF HeadingsAreOpen
<1> QED
  BY <1>6, <1>8, <1>18 DEF HeadingsInv

LEMMA StepBlock ==
  ASSUME HeadingsInv, NEW b \in Blocks, AddBlock(b)
  PROVE  HeadingsInv'
<1> DEFINE m == Len(read)
           k == Len(stack)
           x == [level |-> 0, name |-> b.kind]
<1>1. /\ read \in Seq(ReadItems) /\ stack \in Seq(Items) /\ HeadingsAreOpen
      /\ stack' = stack /\ (read' = read \/ read' = Append(read, x))
  BY DEF HeadingsInv, AddBlock
<1>2. CASE read' = read
  <2>1. OpenItems' = OpenItems
    BY <1>2 DEF OpenItems
  <2>2. HeadingsAreOpen'
    BY <1>1, <1>2, <2>1 DEF HeadingsAreOpen
  <2> QED
    BY <1>1, <1>2, <2>2 DEF HeadingsInv
<1>3. CASE read' = Append(read, x)
  <2>1. m \in Nat /\ DOMAIN read = 1..m
    BY <1>1, LenProperties
  <2>2. /\ read' \in Seq(ReadItems) /\ Len(read') = m + 1 /\ DOMAIN read' = 1..(m+1)
        /\ (\A i \in 1..m : read'[i] = read[i]) /\ read'[m+1].level = 0
    <3>1. x \in ReadItems /\ x.level = 0
      BY DEF ReadItems
    <3> HIDE DEF x
    <3>2. /\ Append(read, x) \in Seq(ReadItems) /\ Len(Append(read, x)) = m + 1
          /\ \A i \in 1..m : Append(read, x)[i] = read[i]
          /\ Append(read, x)[m+1] = x
      BY <1>1, <3>1, AppendProperties
    <3>3. DOMAIN Append(read, x) = 1..(m+1)
      BY <3>2, LenProperties
    <3> QED
      BY <1>3, <3>1, <3>2, <3>3
  <2> HIDE DEF m, x
  <2>3. OpenItems' = OpenItems
    <3>1. OpenItems' = {i \in 1..(m+1) : read'[i].level > 0 /\ \A j \in 1..(m+1) :
                          i < j /\ read'[j].level > 0 => read'[i].level < read'[j].level}
      BY <2>2 DEF OpenItems
    <3>2. OpenItems = {i \in 1..m : read[i].level > 0 /\ \A j \in 1..m :
                          i < j /\ read[j].level > 0 => read[i].level < read[j].level}
      BY <2>1 DEF OpenItems
    <3>3. \A j \in 1..(m+1) : read'[j].level > 0 => j \in 1..m
      BY <2>1, <2>2
    <3>4. \A j \in 1..m : j \in 1..(m+1) /\ read'[j] = read[j]
      BY <2>1, <2>2
    <3> QED
      BY <3>1, <3>2, <3>3, <3>4
  <2>4. HeadingsAreOpen'
    <3>1. PICK at \in [DOMAIN stack -> OpenItems] :
            /\ \A i, j \in DOMAIN stack : i < j => at[i] < at[j]
            /\ {at[i] : i \in DOMAIN stack} = OpenItems
            /\ stack = [i \in DOMAIN stack |-> read[at[i]]]
      BY <1>1 DEF HeadingsAreOpen
    <3>2. \A i \in DOMAIN stack : at[i] \in 1..m
      BY <2>1 DEF OpenItems
    <3>3. \A i \in DOMAIN stack : stack[i] = read'[at[i]]
      BY <2>2, <3>1, <3>2
    <3>4. stack' = [i \in DOMAIN stack' |-> read'[at[i]]]
      BY <1>1, <3>1, <3>3
    <3> QED
      BY <1>1, <2>3, <3>1, <3>4 DEF HeadingsAreOpen
  <2> QED
    BY <1>1, <2>2, <2>4 DEF HeadingsInv
<1> QED
  BY <1>1, <1>2, <1>3

LEMMA StepHeadings ==
  ASSUME HeadingsInv, [ChunkNext]_chunkVars
  PROVE  HeadingsInv'
<1>1. CASE \E h \in Headings : AddHeading(h)
  BY <1>1, StepHeading
<1>2. CASE \E b \in Blocks : AddBlock(b)
  BY <1>2, StepBlock
<1>3. CASE UNCHANGED <<read, stack>>
  <2>1. OpenItems' = OpenItems
    BY <1>3 DEF OpenItems
  <2>2. HeadingsAreOpen'
    BY <1>3, <2>1 DEF HeadingsInv, HeadingsAreOpen
  <2> QED
    BY <1>3, <2>2 DEF HeadingsInv
<1>4. EndDocument \/ AddChunk \/ EndChunks \/ UNCHANGED chunkVars => UNCHANGED <<read, stack>>
  BY DEF EndDocument, AddChunk, EndChunks, chunkVars
<1> QED
  BY <1>1, <1>2, <1>3, <1>4 DEF ChunkNext

(* The headings a block gets are the sections it lies in, for every document. *)
THEOREM ChunkHeadingsOpen ==
  ChunkSpec => []HeadingsAreOpen
<1>1. HeadingsInv => HeadingsAreOpen
  BY DEF HeadingsInv
<1> QED
  BY <1>1, InitHeadings, StepHeadings, PTL DEF ChunkSpec
=============================================================================
