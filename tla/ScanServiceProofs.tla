------------------------- MODULE ScanServiceProofs --------------------------
(***************************************************************************)
(* The scanner's cursor never runs ahead of the durable evidence, for every *)
(* number of blocks, spends, crashes and reorgs.  NodeInv says what a tree  *)
(* of blocks is; ScanInv ties the locals of a tick in progress to the node  *)
(* state the tick saw, which the node may have left since; StayInv says     *)
(* that what was confirmed then still is.                                   *)
(***************************************************************************)
EXTENDS ScanService, TLAPS

Anc(b) == block[b].ancestors
Daa(b) == block[b].daa_score

\* A block is among its ancestors, which are blocks of lower or equal score
\* whose own ancestors are ancestors too, and any two of them are in line.
Tree ==
  \A b \in DOMAIN block :
    /\ b \in Anc(b)
    /\ Anc(b) \subseteq DOMAIN block
    /\ \A a \in Anc(b) : Anc(a) \subseteq Anc(b) /\ Daa(a) <= Daa(b)
    /\ \A a, c \in Anc(b) : a \in Anc(c) \/ c \in Anc(a)

\* Along one branch an output is spent once.
SpentOnce ==
  \A b \in DOMAIN block : \A a, c \in Anc(b) :
    \A s \in block[a].spends, t \in block[c].spends :
      s.spent = t.spent => a = c /\ s = t

\* Every nonempty set of blocks of one branch has a highest one.
HasHighest ==
  \A b \in DOMAIN block : \A S \in SUBSET Anc(b) :
    S # {} => \E h \in S : \A c \in S : Daa(c) <= Daa(h)

NodeInv ==
  /\ DOMAIN block \subseteq Block
  /\ \A b \in DOMAIN block : block[b] \in BlockData
  /\ tip \in [Chain -> DOMAIN block]
  /\ Tree
  /\ SpentOnce
  /\ HasHighest

Recorded(r) == r.spent \in DOMAIN observed_spends /\ observed_spends[r.spent] = r

\* The batch is what the node answered when t was the tip.
BatchFrom(t) ==
  LET s == start_cursor.block_hash IN
  /\ batch.removed = Anc(s) \ Anc(t)
  /\ batch.added = {b \in Anc(t) \ Anc(s) : Daa(b) + MinConfirmations <= Daa(t)}
  /\ batch.fetched \subseteq batch.added
  /\ pc = "fetch" => batch.records = UNION {records_of(b) : b \in batch.fetched}
  /\ pc = "record" =>
       /\ batch.removed = {}
       /\ \A r \in batch.records : \E b \in batch.added : r \in records_of(b)
       /\ \A b \in batch.added : \A r \in records_of(b) :
            r \in batch.records \/ Recorded(r)

ScanInv ==
  /\ scan_cursor # None =>
       scan_cursor.block_hash \in DOMAIN block /\ origin \in DOMAIN block
  /\ pc = "store_initial" =>
       /\ scan_cursor = None
       /\ start_cursor \in ScanCursor
       /\ start_cursor.block_hash \in DOMAIN block
  /\ pc \in {"fetch", "record"} =>
       /\ scan_cursor # None
       /\ start_cursor = scan_cursor
       /\ \E t \in DOMAIN block : BatchFrom(t)
  /\ CursorCovered

IInv == TypeOK /\ NodeInv /\ ScanInv

\* Blocks are only added and never change.
Grown ==
  /\ DOMAIN block \subseteq DOMAIN block'
  /\ \A b \in DOMAIN block : block'[b] = block[b]

-----------------------------------------------------------------------------
(* The node.                                                                *)

\* The genesis blocks form a tree each.
LEMMA NodeInitInv == NodeInit => NodeInv
<1> SUFFICES ASSUME NodeInit
             PROVE  NodeInv
  OBVIOUS
<1> DEFINE G == {Genesis[k] : k \in Chain}
<1>1. DOMAIN block = G /\ G \subseteq Block /\ tip \in [Chain -> G]
  BY NodeAssumption DEF NodeInit
<1>2. ASSUME NEW b \in G
      PROVE  /\ block[b] \in BlockData
             /\ block[b].ancestors = {b} /\ block[b].spends = {}
             /\ block[b].daa_score = 0
  <2>1. PICK k \in Chain : Genesis[k] = b
    OBVIOUS
  <2>2. (CHOOSE l \in Chain : Genesis[l] = b) \in Chain
    BY <2>1
  <2>3. block[b] = [chain_id |-> CHOOSE l \in Chain : Genesis[l] = b,
                    ancestors |-> {b}, spends |-> {}, daa_score |-> 0]
    BY DEF NodeInit
  <2>4. {b} \in SUBSET Block
    BY <1>1
  <2>5. QED BY <2>2, <2>3, <2>4 DEF BlockData
<1>3. Tree
  BY <1>1, <1>2 DEF Tree, Anc, Daa
<1>4. SpentOnce
  BY <1>1, <1>2 DEF SpentOnce, Anc
<1>5. HasHighest
  BY <1>1, <1>2 DEF HasHighest, Anc, Daa
<1>6. QED BY <1>1, <1>2, <1>3, <1>4, <1>5 DEF NodeInv

\* A mined block extends one branch; the others stay as they were.
LEMMA MineInv ==
  ASSUME NodeInv, NEW b, NEW p, NEW spends \in SUBSET Input, Mine(b, p, spends)
  PROVE  NodeInv' /\ Grown
<1> DEFINE data == block[p]
           mined == [chain_id |-> data.chain_id,
                     ancestors |-> data.ancestors \cup {b}, spends |-> spends,
                     daa_score |-> data.daa_score + 1]
<1>1. /\ b \in Block /\ b \notin DOMAIN block /\ p \in DOMAIN block
      /\ Spendable(p, spends)
      /\ block' = [c \in DOMAIN block \cup {b} |->
                     IF c = b THEN mined ELSE block[c]]
  BY DEF Mine
<1>2. /\ data \in BlockData
      /\ data.ancestors \subseteq DOMAIN block
      /\ DOMAIN block \subseteq Block
      /\ data.daa_score \in Nat
  BY <1>1 DEF NodeInv, Tree, Anc, BlockData
<1>3. /\ mined \in BlockData
      /\ mined.ancestors = data.ancestors \cup {b}
      /\ mined.spends = spends
      /\ mined.daa_score = data.daa_score + 1
      /\ mined.chain_id = data.chain_id
  <2>1. data.ancestors \cup {b} \in SUBSET Block
    BY <1>1, <1>2
  <2>2. data.daa_score + 1 \in Nat
    BY <1>2
  <2>3. data.chain_id \in Chain
    BY <1>2 DEF BlockData
  <2> HIDE DEF data
  <2>4. QED BY <2>1, <2>2, <2>3 DEF BlockData
<1> HIDE DEF mined
<1>4. /\ DOMAIN block' = DOMAIN block \cup {b}
      /\ block'[b] = mined
      /\ \A c \in DOMAIN block : block'[c] = block[c]
  BY <1>1
<1>5. Grown
  BY <1>4 DEF Grown
<1>6. DOMAIN block' \subseteq Block /\ \A c \in DOMAIN block' : block'[c] \in BlockData
  BY <1>1, <1>3, <1>4 DEF NodeInv
<1>7. tip' \in [Chain -> DOMAIN block']
  <2>1. tip \in [Chain -> DOMAIN block] /\ data.chain_id \in Chain
    BY <1>2 DEF NodeInv, BlockData
  <2>2. \E t \in DOMAIN block' : tip' = [tip EXCEPT ![data.chain_id] = t]
    BY <1>4, <2>1, Zenon DEF Mine
  <2>3. QED BY <1>4, <2>1, <2>2
<1>8. /\ Anc(b)' = Anc(p) \cup {b} /\ Daa(b)' = Daa(p) + 1
      /\ \A c \in DOMAIN block : Anc(c)' = Anc(c) /\ Daa(c)' = Daa(c)
  BY <1>3, <1>4 DEF Anc, Daa
<1>9. /\ \A c \in DOMAIN block : Anc(c) \subseteq DOMAIN block /\ Daa(c) \in Nat
      /\ \A a \in Anc(p) : Daa(a) <= Daa(p)
  BY <1>1 DEF NodeInv, Tree, BlockData, Anc, Daa
<1>10. Tree'
  <2> SUFFICES ASSUME NEW x \in DOMAIN block'
               PROVE  /\ x \in Anc(x)'
                      /\ Anc(x)' \subseteq DOMAIN block'
                      /\ \A a \in Anc(x)' : Anc(a)' \subseteq Anc(x)' /\ Daa(a)' <= Daa(x)'
                      /\ \A a, c \in Anc(x)' : a \in Anc(c)' \/ c \in Anc(a)'
    BY DEF Tree
  <2>1. Tree
    BY DEF NodeInv
  <2>2. CASE x \in DOMAIN block
    BY <2>1, <2>2, <1>4, <1>8, <1>9 DEF Tree
  <2>3. CASE x = b
    <3>1. /\ p \in Anc(p) /\ Anc(p) \subseteq DOMAIN block
          /\ \A a \in Anc(p) : Anc(a) \subseteq Anc(p) /\ Daa(a) <= Daa(p)
          /\ \A a, c \in Anc(p) : a \in Anc(c) \/ c \in Anc(a)
      BY <1>1, <2>1 DEF Tree
    <3>2. \A a \in Anc(p) : Daa(a) \in Nat /\ Daa(p) \in Nat /\ Daa(a) <= Daa(p) + 1
      BY <1>1, <1>9, <3>1
    <3>3. ASSUME NEW a \in Anc(x)'
          PROVE  Anc(a)' \subseteq Anc(x)' /\ Daa(a)' <= Daa(x)'
      <4>1. CASE a = b
        BY <2>3, <4>1, <1>1, <1>8, <1>9
      <4>2. CASE a \in Anc(p)
        BY <2>3, <4>2, <1>8, <3>1, <3>2
      <4>3. QED BY <2>3, <4>1, <4>2, <1>8
    <3>4. ASSUME NEW a \in Anc(x)', NEW c \in Anc(x)'
          PROVE  a \in Anc(c)' \/ c \in Anc(a)'
      <4>1. CASE a = b
        BY <2>3, <4>1
      <4>2. CASE c = b
        BY <2>3, <4>2
      <4>3. CASE a \in Anc(p) /\ c \in Anc(p)
        BY <4>3, <1>8, <3>1
      <4>4. QED BY <2>3, <4>1, <4>2, <4>3, <1>8
    <3>5. x \in Anc(x)' /\ Anc(x)' \subseteq DOMAIN block'
      BY <2>3, <1>4, <1>8, <3>1
    <3>6. QED BY <3>3, <3>4, <3>5
  <2>4. QED BY <2>2, <2>3, <1>4
<1>11. SpentOnce'
  <2> SUFFICES ASSUME NEW x \in DOMAIN block', NEW a \in Anc(x)', NEW c \in Anc(x)',
                      NEW s \in block'[a].spends, NEW t \in block'[c].spends,
                      s.spent = t.spent
               PROVE  a = c /\ s = t
    BY DEF SpentOnce
  <2>1. SpentOnce
    BY DEF NodeInv
  <2>2. CASE x \in DOMAIN block
    BY <2>1, <2>2, <1>4, <1>8, <1>9 DEF SpentOnce
  <2>3. CASE x = b
    <3>1. CASE a = b /\ c = b
      BY <3>1, <1>1, <1>3, <1>4 DEF Spendable
    <3>2. CASE a = b /\ c \in Anc(p)
      BY <3>2, <1>1, <1>3, <1>4, <1>9 DEF Spendable, Anc
    <3>3. CASE a \in Anc(p) /\ c = b
      BY <3>3, <1>1, <1>3, <1>4, <1>9 DEF Spendable, Anc
    <3>4. CASE a \in Anc(p) /\ c \in Anc(p)
      BY <3>4, <2>1, <1>1, <1>4, <1>9 DEF SpentOnce
    <3>5. QED BY <2>3, <3>1, <3>2, <3>3, <3>4, <1>8
  <2>4. QED BY <2>2, <2>3, <1>4
<1>12. HasHighest'
  <2> SUFFICES ASSUME NEW x \in DOMAIN block', NEW S \in SUBSET Anc(x)', S # {}
               PROVE  \E h \in S : \A c \in S : Daa(c)' <= Daa(h)'
    BY DEF HasHighest
  <2>1. HasHighest
    BY DEF NodeInv
  <2>2. ASSUME NEW y \in DOMAIN block, S \subseteq Anc(y)
        PROVE  \E h \in S : \A c \in S : Daa(c)' <= Daa(h)'
    <3>1. PICK h \in S : \A c \in S : Daa(c) <= Daa(h)
      BY <2>1, <2>2 DEF HasHighest
    <3>2. \A c \in S : Daa(c)' = Daa(c)
      BY <2>2, <1>8, <1>9
    <3>3. QED BY <3>1, <3>2
  <2>3. CASE x \in DOMAIN block
    BY <2>2, <2>3, <1>8
  <2>4. CASE x = b /\ b \in S
    <3>1. \A c \in S : Daa(c)' <= Daa(b)'
      <4> SUFFICES ASSUME NEW c \in S
                   PROVE  Daa(c)' <= Daa(b)'
        OBVIOUS
      <4>1. CASE c = b
        BY <4>1, <1>1, <1>8, <1>9
      <4>2. CASE c \in Anc(p)
        BY <4>2, <1>1, <1>8, <1>9
      <4>3. QED BY <2>4, <4>1, <4>2, <1>8
    <3>2. QED BY <2>4, <3>1
  <2>5. CASE x = b /\ b \notin S
    <3>1. S \subseteq Anc(p)
      BY <2>5, <1>8
    <3>2. QED BY <2>2, <3>1, <1>1
  <2>6. QED BY <2>3, <2>4, <2>5, <1>4
<1>13. QED BY <1>5, <1>6, <1>7, <1>10, <1>11, <1>12 DEF NodeInv

-----------------------------------------------------------------------------
(* Records and the maps they are inserted in.                               *)

\* The records of a block are well typed.
LEMMA RecordsTyped ==
  ASSUME NodeInv, NEW b \in DOMAIN block
  PROVE  records_of(b) \subseteq ObservedSpendRecord
<1>1. block[b].spends \subseteq Input /\ block[b].daa_score + 1 \in Nat
  BY DEF NodeInv, BlockData
<1>2. QED
  BY <1>1 DEF records_of, ObservedSpendRecord, Input, rpc_block_accepting_daa_score

\* Along one branch two records of one outpoint are the same record of the
\* same block.
LEMMA RecordOnce ==
  ASSUME NodeInv, NEW t \in DOMAIN block, NEW a \in Anc(t), NEW c \in Anc(t),
         NEW q \in records_of(a), NEW r \in records_of(c), q.spent = r.spent
  PROVE  a = c /\ q = r
<1>1. PICK x \in block[a].spends :
        q = [spent |-> x.spent, spending_txid |-> x.txid,
             block_daa_score |-> rpc_block_accepting_daa_score(a)]
  BY DEF records_of
<1>2. PICK y \in block[c].spends :
        r = [spent |-> y.spent, spending_txid |-> y.txid,
             block_daa_score |-> rpc_block_accepting_daa_score(c)]
  BY DEF records_of
<1>3. a = c /\ x = y
  BY <1>1, <1>2 DEF NodeInv, SpentOnce
<1>4. QED BY <1>1, <1>2, <1>3

\* What inserting does to a map.
LEMMA Inserted ==
  ASSUME NEW spends, NEW records
  PROVE  LET m == inserted(spends, records)
         IN /\ DOMAIN m = DOMAIN spends \cup {r.spent : r \in records}
            /\ \A r \in records : \E q \in records :
                 q.spent = r.spent /\ m[r.spent] = q
            /\ \A o \in DOMAIN spends :
                 (\A r \in records : r.spent # o) => m[o] = spends[o]
<1> DEFINE m == inserted(spends, records)
           keys == {r.spent : r \in records}
<1>1. DOMAIN m = DOMAIN spends \cup keys
  BY DEF inserted
<1>2. ASSUME NEW r \in records
      PROVE  \E q \in records : q.spent = r.spent /\ m[r.spent] = q
  <2>1. r.spent \in keys
    OBVIOUS
  <2>2. m[r.spent] = CHOOSE q \in records : q.spent = r.spent
    BY <2>1 DEF inserted
  <2>3. QED BY <2>2
<1>3. ASSUME NEW o \in DOMAIN spends, \A r \in records : r.spent # o
      PROVE  m[o] = spends[o]
  <2>1. o \notin keys
    BY <1>3
  <2>2. QED BY <2>1 DEF inserted
<1>4. QED BY <1>1, <1>2, <1>3

\* Inserting typed records keeps a map typed.
LEMMA InsertedTyped ==
  ASSUME NEW spends, NEW records, records \subseteq ObservedSpendRecord,
         DOMAIN spends \subseteq Outpoint,
         \A o \in DOMAIN spends : spends[o] \in ObservedSpendRecord
  PROVE  LET m == inserted(spends, records)
         IN /\ DOMAIN m \subseteq Outpoint
            /\ \A o \in DOMAIN m : m[o] \in ObservedSpendRecord
<1> DEFINE m == inserted(spends, records)
<1>1. /\ DOMAIN m = DOMAIN spends \cup {r.spent : r \in records}
      /\ \A r \in records : \E q \in records : q.spent = r.spent /\ m[r.spent] = q
      /\ \A o \in DOMAIN spends : (\A r \in records : r.spent # o) => m[o] = spends[o]
  BY Inserted, Zenon
<1> HIDE DEF m
<1>2. DOMAIN m \subseteq Outpoint
  BY <1>1 DEF ObservedSpendRecord
<1>3. ASSUME NEW o \in DOMAIN m
      PROVE  m[o] \in ObservedSpendRecord
  <2>1. CASE \E r \in records : r.spent = o
    BY <1>1, <2>1
  <2>2. CASE \A r \in records : r.spent # o
    BY <1>1, <2>2
  <2>3. QED BY <2>1, <2>2
<1>4. QED BY <1>2, <1>3 DEF m

-----------------------------------------------------------------------------
(* The node moves while a tick is in progress.                              *)

\* Blocks do not change, so a batch keeps being what the node answered.
LEMMA GrownKeeps ==
  ASSUME NodeInv, ScanInv, Grown, Outside
  PROVE  ScanInv'
<1>1. /\ DOMAIN block \subseteq DOMAIN block'
      /\ \A b \in DOMAIN block : /\ Anc(b)' = Anc(b) /\ Daa(b)' = Daa(b)
                                 /\ records_of(b)' = records_of(b)
                                 /\ Anc(b) \subseteq DOMAIN block
  BY DEF Grown, Anc, Daa, records_of, rpc_block_accepting_daa_score, NodeInv, Tree
<1>2. /\ scan_cursor' = scan_cursor /\ observed_spends' = observed_spends
      /\ pc' = pc /\ start_cursor' = start_cursor /\ batch' = batch
      /\ origin' = origin
  BY DEF Outside, durable, locals
<1>3. \A r : Recorded(r)' = Recorded(r)
  BY <1>2 DEF Recorded
<1>4. ASSUME NEW t \in DOMAIN block, BatchFrom(t),
             start_cursor.block_hash \in DOMAIN block
      PROVE  BatchFrom(t)'
  <2> DEFINE st == start_cursor.block_hash
  <2>1. /\ batch.removed = Anc(st) \ Anc(t)
        /\ batch.added = {b \in Anc(t) \ Anc(st) : Daa(b) + MinConfirmations <= Daa(t)}
        /\ batch.fetched \subseteq batch.added
    BY <1>4 DEF BatchFrom
  <2>2. batch.added \subseteq DOMAIN block
    BY <1>1, <2>1
  <2>3. (batch.removed = Anc(st) \ Anc(t))'
    BY <1>1, <1>2, <1>4, <2>1
  <2>4. {b \in Anc(t) \ Anc(st) : Daa(b) + MinConfirmations <= Daa(t)}' = batch.added
    BY <1>1, <1>2, <1>4, <2>1
  <2>5. pc = "fetch" =>
          (batch.records = UNION {records_of(b) : b \in batch.fetched})'
    <3>1. UNION {records_of(b) : b \in batch.fetched}' =
            UNION {records_of(b) : b \in batch.fetched}
      BY <1>1, <1>2, <2>1, <2>2
    <3>2. QED BY <3>1, <1>2, <1>4 DEF BatchFrom
  <2>6. pc = "record" =>
          /\ batch.removed = {}
          /\ \A r \in batch.records : \E b \in batch.added : r \in records_of(b)'
          /\ \A b \in batch.added : \A r \in records_of(b)' :
               r \in batch.records \/ Recorded(r)'
    BY <1>1, <1>3, <1>4, <2>2 DEF BatchFrom
  <2>7. QED BY <1>2, <2>1, <2>3, <2>4, <2>5, <2>6 DEF BatchFrom
<1>5. CursorCovered'
  <2> SUFFICES ASSUME scan_cursor # None,
                      NEW b \in Applied', NEW r \in records_of(b)'
               PROVE  Recorded(r)
    BY <1>2, <1>3 DEF CursorCovered, Recorded
  <2>1. scan_cursor.block_hash \in DOMAIN block /\ origin \in DOMAIN block
    BY DEF ScanInv
  <2>2. Applied' = Applied
    BY <1>1, <1>2, <2>1 DEF Applied, Anc
  <2>3. b \in DOMAIN block
    BY <1>1, <2>1, <2>2 DEF Applied, Anc
  <2>4. QED BY <1>1, <2>2, <2>3 DEF ScanInv, CursorCovered, Recorded
<1>6. QED BY <1>1, <1>2, <1>4, <1>5 DEF ScanInv

-----------------------------------------------------------------------------
(* The steps of the process.                                                *)

\* Between ticks, or with the process gone, there is no batch in progress.
Resting ==
  /\ pc' \in {"down", "ready"}
  /\ start_cursor' = None
  /\ batch' = EmptyBatch
  /\ cache' \in {cache, NoSpends}
  /\ mode' = mode /\ configured' = configured
  /\ idle_ticks' \in Nat

\* The end of the process and the end of a tick both leave nothing behind.
LEMMA RestingSteps ==
  ASSUME TypeOK
  PROVE  /\ exit => Resting
         /\ \A i, a : tick_returned(i, a) => Resting
<1>1. exit => Resting
  BY DEF exit, Resting, process
<1>2. ASSUME NEW i, NEW a, tick_returned(i, a)
      PROVE  Resting
  <2> DEFINE idle == IF a = {} /\ ~ i THEN idle_ticks + 1 ELSE 0
  <2>1. idle \in Nat /\ idle_ticks \in Nat
    BY DEF TypeOK
  <2>2. CASE exit
    BY <2>2, <1>1
  <2>3. CASE ~ exit
    BY <2>1, <2>3, <1>2 DEF tick_returned, Resting, process
  <2>4. QED BY <2>2, <2>3
<1>3. QED BY <1>1, <1>2

\* The empty batch and the empty map are typed.
LEMMA EmptyTyped ==
  /\ EmptyBatch \in ScanBatch
  /\ DOMAIN NoSpends = {}
BY DEF EmptyBatch, ScanBatch, NoSpends

\* The last added block is an added block, and none of them is higher.
LEMMA HighestChosen ==
  ASSUME NodeInv, NEW t \in DOMAIN block, BatchFrom(t), batch.added # {}
  PROVE  /\ Highest(batch.added) \in batch.added
         /\ \A c \in batch.added : Daa(c) <= Daa(Highest(batch.added))
<1>1. batch.added \in SUBSET Anc(t)
  BY DEF BatchFrom
<1>2. \E h \in batch.added : \A c \in batch.added :
        block[c].daa_score <= block[h].daa_score
  BY <1>1 DEF NodeInv, HasHighest, Daa
<1>3. QED BY <1>2 DEF Highest, Daa

\* Every step keeps the types.
LEMMA StepTyped ==
  ASSUME IInv, Next, NodeInv'
  PROVE  TypeOK'
<1> USE DEF IInv
<1>0. /\ DOMAIN block' \subseteq Block
      /\ \A b \in DOMAIN block' : block'[b] \in BlockData
      /\ tip' \in [Chain -> DOMAIN block']
  BY DEF NodeInv
<1>1. CASE Start
  BY <1>0, <1>1, EmptyTyped DEF Start, TypeOK, durable, locals
<1>2. CASE Stop
  <2>1. Resting
    BY <1>2, RestingSteps DEF Stop
  <2>2. stops' \in 0 .. MaxStops
    BY <1>2, ScanAssumption DEF Stop, TypeOK
  <2>3. QED BY <1>0, <1>2, <2>1, <2>2, EmptyTyped DEF Stop, TypeOK, Resting, durable
<1>3. CASE current_scan_cursor
  <2>1. start_cursor' \in ScanCursor
    <3>1. tip[configured] \in Block /\ block[tip[configured]].daa_score + 1 \in Nat
      BY DEF TypeOK, BlockData
    <3>2. QED BY <1>3, <3>1 DEF current_scan_cursor, ScanCursor, TypeOK
  <2>2. QED BY <1>0, <1>3, <2>1 DEF current_scan_cursor, TypeOK, durable, process
<1>4. CASE store_initial_cursor
  <2>1. Resting
    BY <1>4, RestingSteps, Zenon DEF store_initial_cursor
  <2>2. start_cursor \in ScanCursor
    BY <1>4 DEF store_initial_cursor, ScanInv
  <2>3. origin' \in Block
    BY <1>4, <2>2 DEF store_initial_cursor, ScanCursor
  <2>4. QED
    BY <1>0, <1>4, <2>1, <2>2, <2>3, EmptyTyped DEF store_initial_cursor, TypeOK, Resting
<1>5. CASE cursor_chain_mismatch
  <2>1. Resting
    BY <1>5, RestingSteps DEF cursor_chain_mismatch
  <2>2. QED
    BY <1>0, <1>5, <2>1, EmptyTyped DEF cursor_chain_mismatch, TypeOK, Resting, durable
<1>6. CASE scan_from_cursor
  <2>1. batch' \in ScanBatch
    <3>1. /\ configured \in Chain /\ scan_cursor.block_hash \in DOMAIN block
          /\ tip[configured] \in DOMAIN block
      BY <1>6 DEF scan_from_cursor, ScanInv, TypeOK
    <3>2. /\ block[scan_cursor.block_hash].ancestors \subseteq Block
          /\ block[tip[configured]].ancestors \subseteq Block
      BY <3>1 DEF TypeOK, BlockData
    <3>3. QED
      BY <1>6, <3>2
         DEF scan_from_cursor, ScanBatch, RemovedFrom, AddedFrom, SelectedChain
  <2>2. QED
    BY <1>0, <1>6, <2>1 DEF scan_from_cursor, TypeOK, durable, process
<1>7. CASE observe_rpc_block_spend_records
  <2>0. PICK b \in batch.added \ batch.fetched :
          /\ cache' = inserted(cache, records_of(b))
          /\ batch' = [batch EXCEPT !.fetched = batch.fetched \cup {b},
                                    !.records = batch.records \cup records_of(b)]
    BY <1>7, Zenon DEF observe_rpc_block_spend_records
  <2>1. PICK t \in DOMAIN block : BatchFrom(t)
    BY <1>7, Zenon DEF observe_rpc_block_spend_records, ScanInv
  <2>2. batch.added \subseteq DOMAIN block
    BY <2>1 DEF BatchFrom, NodeInv, Tree
  <2>4. b \in DOMAIN block /\ b \in Block
    BY <2>2 DEF TypeOK
  <2>5. records_of(b) \subseteq ObservedSpendRecord
    BY <2>4, RecordsTyped
  <2>6. batch' \in ScanBatch
    BY <2>0, <2>4, <2>5, Zenon DEF TypeOK, ScanBatch
  <2>7. DOMAIN cache' \subseteq Outpoint
        /\ \A o \in DOMAIN cache' : cache'[o] \in ObservedSpendRecord
    BY <2>0, <2>5, InsertedTyped DEF TypeOK
  <2>8. QED
    BY <1>0, <1>7, <2>6, <2>7
       DEF observe_rpc_block_spend_records, TypeOK, durable, process
<1>8. CASE reorg_detected
  <2>1. Resting
    BY <1>8, RestingSteps DEF reorg_detected
  <2>2. QED
    BY <1>0, <1>8, <2>1, EmptyTyped DEF reorg_detected, TypeOK, Resting, durable
<1>9. CASE batch_accepted
  BY <1>0, <1>9 DEF batch_accepted, TypeOK, durable, process, locals
<1>10. CASE record_observed_spend
  <2>1. PICK r \in batch.records :
          /\ observed_spends' = inserted(observed_spends, {r})
          /\ batch' = [batch EXCEPT !.records = @ \ {r}]
    BY <1>10, Zenon DEF record_observed_spend
  <2>2. {r} \subseteq ObservedSpendRecord /\ batch' \in ScanBatch
    BY <2>1 DEF TypeOK, ScanBatch
  <2>3. DOMAIN observed_spends' \subseteq Outpoint
        /\ \A o \in DOMAIN observed_spends' : observed_spends'[o] \in ObservedSpendRecord
    BY <2>1, <2>2, InsertedTyped DEF TypeOK
  <2>4. QED
    BY <1>0, <1>10, <2>2, <2>3, Zenon DEF record_observed_spend, TypeOK, process
<1>11. CASE store_scan_cursor
  <2>1. Resting
    BY <1>11, RestingSteps, Zenon DEF store_scan_cursor
  <2>2. scan_cursor' \in ScanCursor
    <3>1. start_cursor = scan_cursor /\ scan_cursor \in ScanCursor
      BY <1>11 DEF store_scan_cursor, ScanInv, TypeOK
    <3>2. CASE batch.added = {}
      BY <1>11, <3>1, <3>2 DEF store_scan_cursor, end_cursor
    <3>3. CASE batch.added # {}
      <4>0. PICK t \in DOMAIN block : BatchFrom(t)
        BY <1>11 DEF store_scan_cursor, ScanInv
      <4>1. Highest(batch.added) \in batch.added
        BY <3>3, <4>0, HighestChosen, Zenon
      <4>2. batch.added \subseteq DOMAIN block
        BY <4>0 DEF BatchFrom, NodeInv, Tree
      <4>3. /\ Highest(batch.added) \in Block
            /\ rpc_block_accepting_daa_score(Highest(batch.added)) \in Nat
        BY <4>1, <4>2 DEF TypeOK, BlockData, rpc_block_accepting_daa_score
      <4>4. QED
        BY <1>11, <3>1, <3>3, <4>3 DEF store_scan_cursor, end_cursor, ScanCursor
    <3>4. QED BY <3>2, <3>3
  <2>3. QED
    BY <1>0, <1>11, <2>1, <2>2, EmptyTyped DEF store_scan_cursor, TypeOK, Resting
<1>12. CASE clear_scan_cursor
  <2>1. stops' \in 0 .. MaxStops
    BY <1>12, ScanAssumption DEF clear_scan_cursor, TypeOK
  <2>2. QED
    BY <1>0, <1>12, <2>1 DEF clear_scan_cursor, TypeOK, locals, process
<1>13. CASE MineBlock /\ Outside
  BY <1>0, <1>13 DEF Outside, TypeOK, durable, process, locals
<1>14. QED
  BY <1>1, <1>2, <1>3, <1>4, <1>5, <1>6, <1>7, <1>8, <1>9, <1>10, <1>11, <1>12,
     <1>13 DEF Next, Tick

\* With the node, the store and the origin unchanged, CursorCovered and what a
\* stored cursor points to are unchanged.
LEMMA StoreUnchanged ==
  ASSUME ScanInv, UNCHANGED <<node, durable, origin>>
  PROVE  /\ CursorCovered'
         /\ (scan_cursor # None =>
               scan_cursor.block_hash \in DOMAIN block /\ origin \in DOMAIN block)'
<1>1. /\ block' = block /\ scan_cursor' = scan_cursor /\ origin' = origin
      /\ observed_spends' = observed_spends
  BY DEF node, durable
<1>2. Applied' = Applied
  BY <1>1 DEF Applied
<1>3. \A b : records_of(b)' = records_of(b)
  BY <1>1 DEF records_of, rpc_block_accepting_daa_score
<1>4. CursorCovered'
  BY <1>1, <1>2, <1>3 DEF ScanInv, CursorCovered
<1>5. QED BY <1>1, <1>4 DEF ScanInv

\* Recording one record of the batch: it does not replace the record of any
\* other spend on the branch of t.
LEMMA RecordKeeps ==
  ASSUME NodeInv, NEW t \in DOMAIN block, NEW c \in Anc(t), NEW r \in records_of(c),
         observed_spends' = inserted(observed_spends, {r})
  PROVE  /\ Recorded(r)'
         /\ \A b \in Anc(t) : \A q \in records_of(b) : Recorded(q) => Recorded(q)'
<1>1. /\ DOMAIN observed_spends' = DOMAIN observed_spends \cup {x.spent : x \in {r}}
      /\ observed_spends'[r.spent] = r
      /\ \A o \in DOMAIN observed_spends :
           r.spent # o => observed_spends'[o] = observed_spends[o]
  <2> DEFINE m == inserted(observed_spends, {r})
  <2>1. /\ DOMAIN m = DOMAIN observed_spends \cup {x.spent : x \in {r}}
        /\ \A x \in {r} : \E q \in {r} : q.spent = x.spent /\ m[x.spent] = q
        /\ \A o \in DOMAIN observed_spends :
             (\A x \in {r} : x.spent # o) => m[o] = observed_spends[o]
    BY Inserted, Zenon
  <2>2. observed_spends' = m
    OBVIOUS
  <2> HIDE DEF m
  <2>3. QED BY <2>1, <2>2, Zenon
<1>2. r.spent \in DOMAIN observed_spends'
  BY <1>1
<1>3. ASSUME NEW b \in Anc(t), NEW q \in records_of(b), Recorded(q)
      PROVE  Recorded(q)'
  <2>1. CASE q.spent = r.spent
    <3>1. q = r
      BY <2>1, RecordOnce
    <3>2. QED BY <3>1, <1>1, <1>2 DEF Recorded
  <2>2. CASE q.spent # r.spent
    BY <2>2, <1>1, <1>3 DEF Recorded
  <2>3. QED BY <2>1, <2>2
<1>4. QED BY <1>1, <1>2, <1>3, Zenon DEF Recorded

\* Storing the cursor: everything between the old and the new cursor was in
\* the batch, and the batch is recorded.
LEMMA CommitCovers ==
  ASSUME IInv, store_scan_cursor
  PROVE  /\ scan_cursor' # None
         /\ scan_cursor'.block_hash \in DOMAIN block
         /\ scan_cursor'.chain_id = scan_cursor.chain_id
         /\ scan_cursor.block_hash \in Anc(scan_cursor'.block_hash)
         /\ \A b \in Anc(scan_cursor'.block_hash) \ Anc(origin) :
              \A r \in records_of(b) : Recorded(r)
<1> USE DEF IInv
<1>1. /\ pc = "record" /\ batch.records = {} /\ scan_cursor' = end_cursor
      /\ scan_cursor # None /\ start_cursor = scan_cursor
      /\ scan_cursor.block_hash \in DOMAIN block
  BY DEF store_scan_cursor, ScanInv
<1>2. PICK t \in DOMAIN block : BatchFrom(t)
  BY <1>1 DEF ScanInv
<1> DEFINE s == scan_cursor.block_hash
           h == Highest(batch.added)
<1>3. /\ Anc(s) \subseteq Anc(t)
      /\ batch.added = {b \in Anc(t) \ Anc(s) : Daa(b) + MinConfirmations <= Daa(t)}
      /\ \A b \in batch.added : \A r \in records_of(b) : Recorded(r)
  BY <1>1, <1>2 DEF BatchFrom
<1>4. \A b \in Anc(s) \ Anc(origin) : \A r \in records_of(b) : Recorded(r)
  BY <1>1 DEF ScanInv, CursorCovered, Applied, Anc, Recorded
<1>5. s \in Anc(s)
  BY <1>1 DEF NodeInv, Tree
<1>6. CASE batch.added = {}
  <2>1. scan_cursor' = scan_cursor
    BY <1>1, <1>6 DEF end_cursor
  <2>2. QED BY <2>1, <1>1, <1>4, <1>5
<1>7. CASE batch.added # {}
  <2>1. h \in batch.added
    BY <1>2, <1>7, HighestChosen
  <2>2. /\ scan_cursor'.block_hash = h /\ scan_cursor'.chain_id = scan_cursor.chain_id
        /\ scan_cursor' # None
    <3>1. scan_cursor' = [chain_id |-> scan_cursor.chain_id, block_hash |-> h,
                          daa_score |-> rpc_block_accepting_daa_score(h)]
      BY <1>1, <1>7 DEF end_cursor
    <3>2. scan_cursor' \in ScanCursor
      <4>1. h \in Block /\ rpc_block_accepting_daa_score(h) \in Nat
        BY <2>1, <1>3 DEF NodeInv, Tree, BlockData, rpc_block_accepting_daa_score
      <4>2. scan_cursor.chain_id \in Chain
        BY <1>1 DEF TypeOK, ScanCursor
      <4>3. QED BY <3>1, <4>1, <4>2 DEF ScanCursor
    <3>3. None \notin ScanCursor
      BY ScanAssumption
    <3>4. QED BY <3>1, <3>2, <3>3
  <2>3. h \in Anc(t) /\ h \notin Anc(s) /\ h \in DOMAIN block /\ Anc(h) \subseteq Anc(t)
    BY <2>1, <1>3, Zenon DEF NodeInv, Tree
  <2>4. s \in Anc(h)
    BY <2>3, <1>3, <1>5 DEF NodeInv, Tree
  <2>5. ASSUME NEW b \in Anc(h) \ Anc(origin), NEW r \in records_of(b)
        PROVE  Recorded(r)
    <3>1. CASE b \in Anc(s)
      BY <3>1, <1>4
    <3>2. CASE b \notin Anc(s)
      <4>1. /\ Daa(b) \in Nat /\ Daa(h) \in Nat /\ Daa(t) \in Nat
            /\ Daa(b) <= Daa(h)
        BY <2>3 DEF NodeInv, Tree, BlockData, Daa, Anc
      <4>2. Daa(h) + MinConfirmations <= Daa(t)
        BY <2>1, <1>3
      <4>3. Daa(b) + MinConfirmations <= Daa(t)
        BY <4>1, <4>2, ScanAssumption
      <4>4. b \in batch.added
        BY <3>2, <4>3, <2>3, <1>3
      <4>5. QED BY <4>4, <1>3
    <3>3. QED BY <3>1, <3>2
  <2>6. QED BY <2>2, <2>3, <2>4, <2>5
<1>8. QED BY <1>6, <1>7

\* Every step keeps ScanInv.
LEMMA StepScan ==
  ASSUME IInv, Next
  PROVE  ScanInv'
<1> USE DEF IInv
<1>1. ASSUME UNCHANGED <<node, durable, origin>>, pc' \in {"down", "ready"}
      PROVE  ScanInv'
  BY <1>1, StoreUnchanged DEF ScanInv
<1>2. CASE Start
  BY <1>1, <1>2 DEF Start
<1>3. CASE Stop
  BY <1>1, <1>3, RestingSteps DEF Stop, Resting
<1>4. CASE current_scan_cursor
  <2>1. start_cursor' \in ScanCursor /\ start_cursor'.block_hash \in DOMAIN block
    <3>1. /\ tip[configured] \in DOMAIN block /\ tip[configured] \in Block
          /\ block[tip[configured]].daa_score + 1 \in Nat /\ configured \in Chain
      BY DEF TypeOK, BlockData
    <3>2. QED BY <1>4, <3>1 DEF current_scan_cursor, ScanCursor
  <2>2. UNCHANGED <<node, durable, origin>> /\ pc' = "store_initial"
        /\ scan_cursor' = None
    BY <1>4 DEF current_scan_cursor, durable
  <2>3. QED BY <2>1, <2>2, StoreUnchanged DEF ScanInv, node
<1>5. CASE store_initial_cursor
  <2>1. Resting
    BY <1>5, RestingSteps, Zenon DEF store_initial_cursor
  <2>2. /\ scan_cursor' = start_cursor /\ origin' = start_cursor.block_hash
        /\ start_cursor.block_hash \in DOMAIN block /\ block' = block
    BY <1>5 DEF store_initial_cursor, ScanInv, node
  <2>3. Applied' = {}
    BY <2>2 DEF Applied
  <2>4. CursorCovered'
    BY <2>3 DEF CursorCovered
  <2>5. QED BY <2>1, <2>2, <2>4 DEF ScanInv, Resting
<1>6. CASE cursor_chain_mismatch
  BY <1>1, <1>6, RestingSteps DEF cursor_chain_mismatch, Resting
<1>7. CASE scan_from_cursor
  <2>1. /\ UNCHANGED <<node, durable, origin>> /\ block' = block
        /\ pc' = "fetch" /\ scan_cursor # None /\ scan_cursor' = scan_cursor
        /\ start_cursor' = scan_cursor
        /\ batch' = [removed |-> RemovedFrom(configured, scan_cursor.block_hash),
                     added |-> AddedFrom(configured, scan_cursor.block_hash,
                                         MinConfirmations),
                     fetched |-> {}, records |-> {}]
    BY <1>7 DEF scan_from_cursor, durable, node
  <2>2. tip[configured] \in DOMAIN block
    BY DEF TypeOK
  <2>3. BatchFrom(tip[configured])'
    <3> DEFINE t == tip[configured]
               st == scan_cursor.block_hash
    <3>1. /\ batch'.removed = block[st].ancestors \ block[t].ancestors
          /\ batch'.added = {b \in block[t].ancestors \ block[st].ancestors :
                               block[b].daa_score + MinConfirmations
                                 <= block[t].daa_score}
          /\ batch'.fetched = {} /\ batch'.records = {}
      BY <2>1 DEF RemovedFrom, AddedFrom, SelectedChain
    <3>2. tip[configured]' = t
      BY <1>7 DEF scan_from_cursor, node, process
    <3>3. UNION {records_of(b)' : b \in {}} = {}
      OBVIOUS
    <3>4. QED BY <2>1, <3>1, <3>2, <3>3, Zenon DEF BatchFrom, Anc, Daa
  <2>4. \E t \in DOMAIN block' : BatchFrom(t)'
    <3>1. tip' = tip /\ configured' = configured
      BY <1>7 DEF scan_from_cursor, node, process
    <3>2. QED BY <2>1, <2>2, <2>3, <3>1
  <2>5. QED BY <2>1, <2>4, StoreUnchanged DEF ScanInv
<1>8. CASE observe_rpc_block_spend_records
  <2>1. PICK b \in batch.added \ batch.fetched :
          batch' = [batch EXCEPT !.fetched = batch.fetched \cup {b},
                                 !.records = batch.records \cup records_of(b)]
    BY <1>8, Zenon DEF observe_rpc_block_spend_records
  <2>2. /\ UNCHANGED <<node, durable, origin>> /\ block' = block
        /\ pc = "fetch" /\ pc' = "fetch" /\ scan_cursor' = scan_cursor
        /\ start_cursor' = start_cursor
    BY <1>8 DEF observe_rpc_block_spend_records, durable, node
  <2>3. PICK t \in DOMAIN block : BatchFrom(t)
    BY <2>2 DEF ScanInv
  <2>4. /\ batch'.removed = batch.removed /\ batch'.added = batch.added
        /\ batch'.fetched = batch.fetched \cup {b}
        /\ batch'.records = batch.records \cup records_of(b)
    BY <2>1 DEF TypeOK, ScanBatch
  <2>5. \A c : records_of(c)' = records_of(c)
    BY <2>2 DEF records_of, rpc_block_accepting_daa_score
  <2>6. batch'.records = UNION {records_of(c)' : c \in batch'.fetched}
    <3>1. batch.records = UNION {records_of(c) : c \in batch.fetched}
      BY <2>2, <2>3, Zenon DEF BatchFrom
    <3>2. QED BY <2>4, <2>5, <3>1
  <2>7. BatchFrom(t)'
    BY <2>2, <2>3, <2>4, <2>6 DEF BatchFrom, Anc, Daa
  <2>8. QED BY <2>2, <2>7, StoreUnchanged, Zenon DEF ScanInv
<1>9. CASE reorg_detected
  BY <1>1, <1>9, RestingSteps, Zenon DEF reorg_detected, Resting
<1>10. CASE batch_accepted
  <2>1. /\ UNCHANGED <<node, durable, origin>> /\ block' = block
        /\ pc = "fetch" /\ pc' = "record" /\ scan_cursor' = scan_cursor
        /\ observed_spends' = observed_spends
        /\ start_cursor' = start_cursor /\ batch' = batch
        /\ batch.fetched = batch.added /\ batch.removed = {}
    BY <1>10 DEF batch_accepted, durable, node, locals
  <2>2. PICK t \in DOMAIN block : BatchFrom(t)
    BY <2>1 DEF ScanInv
  <2>3. \A c : records_of(c)' = records_of(c)
    BY <2>1, Zenon DEF records_of, rpc_block_accepting_daa_score
  <2>4. batch.records = UNION {records_of(c) : c \in batch.added}
    BY <2>1, <2>2 DEF BatchFrom
  <2>5. /\ \A r \in batch.records : \E b \in batch.added : r \in records_of(b)'
        /\ \A b \in batch.added : \A r \in records_of(b)' : r \in batch.records
    BY <2>3, <2>4, Zenon
  <2>6. BatchFrom(t)'
    BY <2>1, <2>2, <2>5, Zenon DEF BatchFrom, Anc, Daa
  <2>7. QED BY <2>1, <2>6, StoreUnchanged, Zenon DEF ScanInv
<1>11. CASE record_observed_spend
  <2>1. PICK r \in batch.records :
          /\ observed_spends' = inserted(observed_spends, {r})
          /\ batch' = [batch EXCEPT !.records = @ \ {r}]
    BY <1>11, Zenon DEF record_observed_spend
  <2>2. /\ block' = block /\ origin' = origin
        /\ pc = "record" /\ pc' = "record" /\ scan_cursor' = scan_cursor
        /\ start_cursor' = start_cursor
    BY <1>11 DEF record_observed_spend, node
  <2>3. PICK t \in DOMAIN block : BatchFrom(t)
    BY <2>2 DEF ScanInv
  <2>4. /\ batch'.removed = batch.removed /\ batch'.added = batch.added
        /\ batch'.fetched = batch.fetched /\ batch'.records = batch.records \ {r}
    BY <2>1 DEF TypeOK, ScanBatch
  <2>5. \A c : records_of(c)' = records_of(c)
    BY <2>2 DEF records_of, rpc_block_accepting_daa_score
  <2>6. /\ scan_cursor # None /\ start_cursor = scan_cursor
        /\ scan_cursor.block_hash \in DOMAIN block /\ origin \in DOMAIN block
    BY <2>2 DEF ScanInv
  <2>7. /\ batch.removed = {} /\ batch.added \subseteq Anc(t)
        /\ Anc(scan_cursor.block_hash) \subseteq Anc(t)
    BY <2>2, <2>3, <2>6, Zenon DEF BatchFrom
  <2>8. PICK c \in batch.added : r \in records_of(c)
    BY <2>2, <2>3 DEF BatchFrom
  <2>9. /\ Recorded(r)'
        /\ \A b \in Anc(t) : \A q \in records_of(b) : Recorded(q) => Recorded(q)'
    BY <2>1, <2>7, <2>8, RecordKeeps, Zenon
  <2>10. /\ \A q \in batch'.records : \E b \in batch'.added : q \in records_of(b)'
         /\ \A b \in batch'.added : \A q \in records_of(b)' :
              q \in batch'.records \/ Recorded(q)'
    <3>1. /\ \A q \in batch.records : \E b \in batch.added : q \in records_of(b)
          /\ \A b \in batch.added : \A q \in records_of(b) :
               q \in batch.records \/ Recorded(q)
      BY <2>2, <2>3, Zenon DEF BatchFrom
    <3>2. QED BY <3>1, <2>4, <2>5, <2>7, <2>9, Zenon
  <2>11. BatchFrom(t)'
    BY <2>2, <2>3, <2>4, <2>7, <2>10 DEF BatchFrom, Anc, Daa
  <2>12. CursorCovered'
    <3>1. Applied' = Applied /\ Applied \subseteq Anc(t)
      BY <2>2, <2>7 DEF Applied, Anc
    <3>2. \A b \in Applied : \A q \in records_of(b) : Recorded(q)
      BY <2>6 DEF ScanInv, CursorCovered, Recorded
    <3>3. \A b \in Applied' : \A q \in records_of(b)' : Recorded(q)'
      BY <2>5, <2>9, <3>1, <3>2, Zenon
    <3>4. QED BY <3>3 DEF CursorCovered, Recorded
  <2>13. QED BY <2>2, <2>6, <2>11, <2>12 DEF ScanInv
<1>12. CASE store_scan_cursor
  <2>1. Resting
    BY <1>12, RestingSteps, Zenon DEF store_scan_cursor
  <2>2. /\ block' = block /\ origin' = origin /\ observed_spends' = observed_spends
        /\ pc = "record"
    BY <1>12 DEF store_scan_cursor, node
  <2>3. /\ scan_cursor' # None /\ scan_cursor'.block_hash \in DOMAIN block
        /\ \A b \in Anc(scan_cursor'.block_hash) \ Anc(origin) :
             \A r \in records_of(b) : Recorded(r)
    BY <1>12, CommitCovers
  <2>4. \A c : records_of(c)' = records_of(c)
    BY <2>2 DEF records_of, rpc_block_accepting_daa_score
  <2>5. CursorCovered'
    <3>1. Applied' = Anc(scan_cursor'.block_hash) \ Anc(origin)
      BY <2>2 DEF Applied, Anc
    <3>2. \A b \in Applied' : \A r \in records_of(b)' : Recorded(r)'
      BY <2>2, <2>3, <2>4, <3>1 DEF Recorded
    <3>3. QED BY <3>2 DEF CursorCovered, Recorded
  <2>6. origin \in DOMAIN block
    BY <2>2, Zenon DEF ScanInv
  <2>7. QED BY <2>1, <2>2, <2>3, <2>5, <2>6 DEF ScanInv, Resting
<1>13. CASE clear_scan_cursor
  <2>1. scan_cursor' = None /\ pc' = "down"
    BY <1>13 DEF clear_scan_cursor
  <2>2. QED BY <2>1 DEF ScanInv, CursorCovered
<1>14. CASE MineBlock /\ Outside
  <2>1. Grown
    <3>1. PICK b \in Block, p \in DOMAIN block, spends \in SUBSET Input :
            Mine(b, p, spends)
      BY <1>14, Zenon DEF MineBlock
    <3>2. QED BY <3>1, MineInv
  <2>2. QED BY <1>14, <2>1, GrownKeeps
<1>15. QED
  BY <1>2, <1>3, <1>4, <1>5, <1>6, <1>7, <1>8, <1>9, <1>10, <1>11, <1>12, <1>13,
     <1>14 DEF Next, Tick

-----------------------------------------------------------------------------
(* The theorems.                                                            *)

\* A step of the node keeps the tree; no other step touches it.
LEMMA StepNode ==
  ASSUME NodeInv, Next
  PROVE  NodeInv'
<1>1. CASE MineBlock
  <2>1. PICK b \in Block, p \in DOMAIN block, spends \in SUBSET Input :
          Mine(b, p, spends)
    BY <1>1, Zenon DEF MineBlock
  <2>2. QED BY <2>1, MineInv
<1>2. CASE UNCHANGED node
  BY <1>2 DEF node, NodeInv, Tree, SpentOnce, HasHighest, Anc, Daa
<1>3. QED
  BY <1>1, <1>2, Zenon
     DEF Next, Start, Stop, Tick, clear_scan_cursor, current_scan_cursor,
         store_initial_cursor, cursor_chain_mismatch, scan_from_cursor,
         observe_rpc_block_spend_records, reorg_detected, batch_accepted,
         record_observed_spend, store_scan_cursor

\* The invariant holds at the start.
LEMMA InitInv == Init => IInv
<1> SUFFICES ASSUME Init
             PROVE  IInv
  OBVIOUS
<1>1. NodeInv
  BY NodeInitInv DEF Init
<1>2. TypeOK
  BY <1>1, EmptyTyped, ScanAssumption DEF Init, TypeOK, NodeInv
<1>3. ScanInv
  BY DEF Init, ScanInv, CursorCovered
<1>4. QED BY <1>1, <1>2, <1>3 DEF IInv

\* A stuttering step keeps the invariant.
LEMMA StutterInv ==
  ASSUME IInv, UNCHANGED vars
  PROVE  IInv'
<1> USE DEF IInv
<1>1. /\ UNCHANGED <<block, tip, scan_cursor, observed_spends, cache, pc, mode>>
      /\ UNCHANGED <<configured, start_cursor, batch, idle_ticks, stops, origin>>
  BY Zenon DEF vars, node, durable, process, locals
<1>2. TypeOK'
  BY <1>1, Zenon DEF TypeOK
<1>3. NodeInv'
  BY <1>1 DEF NodeInv, Tree, SpentOnce, HasHighest, Anc, Daa
<1>4. Grown /\ Outside
  BY <1>1 DEF Grown, Outside, durable, process, locals
<1>5. QED BY <1>2, <1>3, <1>4, GrownKeeps

\* Every step keeps the invariant.
LEMMA Inductive == IInv /\ [Next]_vars => IInv'
<1>1. ASSUME IInv, Next
      PROVE  IInv'
  BY <1>1, StepNode, StepTyped, StepScan DEF IInv
<1>2. QED BY <1>1, StutterInv

\* The state keeps its types.
THEOREM TypeCorrect == Spec => []TypeOK
<1>1. IInv => TypeOK
  BY DEF IInv
<1>2. QED BY <1>1, InitInv, Inductive, PTL DEF Spec

\* The cursor never claims a block whose spends are not in the durable store,
\* whatever the node does during a tick and wherever the process stops.
THEOREM CursorNeverAhead == Spec => []CursorCovered
<1>1. IInv => CursorCovered
  BY DEF IInv, ScanInv
<1>2. QED BY <1>1, InitInv, Inductive, PTL DEF Spec

\* The cursor only moves up its own branch on its own network.
THEOREM CursorAdvances == Spec => CursorOnlyAdvances
<1>1. ASSUME IInv, [Next]_vars
      PROVE  [CursorStep]_vars
  <2> USE DEF IInv
  <2>1. CASE store_scan_cursor
    BY <1>1, <2>1, CommitCovers DEF CursorStep, Anc
  <2>2. CASE scan_cursor = None
    BY <2>2 DEF CursorStep
  <2>3. CASE scan_cursor' = None
    BY <2>3 DEF CursorStep
  <2>4. CASE scan_cursor' = scan_cursor
    <3>1. scan_cursor # None => scan_cursor.block_hash \in Anc(scan_cursor.block_hash)
      BY <1>1, Zenon DEF ScanInv, NodeInv, Tree
    <3>2. QED BY <2>4, <3>1, Zenon DEF CursorStep, Anc
  <2>5. store_initial_cursor => scan_cursor = None
    BY <1>1 DEF store_initial_cursor, ScanInv
  <2>6. clear_scan_cursor => scan_cursor' = None
    BY DEF clear_scan_cursor
  <2>7. CASE UNCHANGED vars
    BY <2>7, Zenon
  <2>8. CASE Next
    BY <2>8, <2>1, <2>2, <2>3, <2>4, <2>5, <2>6, Zenon
       DEF Next, Start, Stop, Tick, current_scan_cursor, cursor_chain_mismatch,
           scan_from_cursor, observe_rpc_block_spend_records, reorg_detected,
           batch_accepted, record_observed_spend, Outside, durable
  <2>9. QED BY <1>1, <2>7, <2>8
<1>2. QED BY <1>1, InitInv, Inductive, PTL DEF Spec, CursorOnlyAdvances

-----------------------------------------------------------------------------
(* Confirmed blocks stay.                                                   *)

\* What the count of a branch's blocks uses of finite sets: the facts of
\* FiniteSetTheorems, taken from there once everything else is done.
FiniteLaws ==
  /\ IsFiniteSet({}) /\ Cardinality({}) = 0
  /\ \A S : IsFiniteSet(S) =>
       /\ Cardinality(S) \in Nat
       /\ \A R \in SUBSET S : IsFiniteSet(R) /\ Cardinality(R) <= Cardinality(S)
       /\ \A x : /\ IsFiniteSet(S \cup {x})
                 /\ x \notin S => Cardinality(S \cup {x}) = Cardinality(S) + 1

\* The empty set.
LEMMA FiniteEmpty ==
  ASSUME FiniteLaws
  PROVE  IsFiniteSet({}) /\ Cardinality({}) = 0
BY Zenon DEF FiniteLaws

\* A finite set has a number of elements.
LEMMA FiniteSize ==
  ASSUME FiniteLaws, NEW S, IsFiniteSet(S)
  PROVE  Cardinality(S) \in Nat
BY Zenon DEF FiniteLaws

\* Some elements of a finite set are no more than all of them.
LEMMA FiniteSubset ==
  ASSUME FiniteLaws, NEW S, IsFiniteSet(S), NEW R \in SUBSET S
  PROVE  IsFiniteSet(R) /\ Cardinality(R) <= Cardinality(S)
BY Zenon DEF FiniteLaws

\* One element more.
LEMMA FiniteAdd ==
  ASSUME FiniteLaws, NEW S, IsFiniteSet(S), NEW x
  PROVE  /\ IsFiniteSet(S \cup {x})
         /\ x \notin S => Cardinality(S \cup {x}) = Cardinality(S) + 1
BY Zenon DEF FiniteLaws

\* Scores count blocks: between two blocks of a branch there are as many
\* blocks as their scores differ.
Ranked ==
  \A b \in DOMAIN block :
    /\ IsFiniteSet(Anc(b))
    /\ \A a \in Anc(b) : Cardinality(Anc(b) \ Anc(a)) = Daa(b) - Daa(a)

Confirmed(k, b) ==
  b \in SelectedChain(k) /\ Daa(b) + MinConfirmations <= Daa(tip[k])

\* A cursor some tick has advanced, and every block of a batch that is still
\* being fetched or recorded, is confirmed at every moment and not only when
\* the node answered.
StayInv ==
  /\ scan_cursor # None /\ scan_cursor.block_hash # origin =>
       Confirmed(scan_cursor.chain_id, scan_cursor.block_hash)
  /\ pc \in {"fetch", "record"} =>
       \A b \in batch.added : Confirmed(scan_cursor.chain_id, b)

\* A mined block is one more block on its branch.
LEMMA MineRanked ==
  ASSUME FiniteLaws, NodeInv, Ranked, NEW b, NEW p, NEW spends \in SUBSET Input,
         Mine(b, p, spends)
  PROVE  Ranked'
<1>1. /\ b \notin DOMAIN block /\ p \in DOMAIN block
      /\ DOMAIN block' = DOMAIN block \cup {b}
      /\ Anc(b)' = Anc(p) \cup {b} /\ Daa(b)' = Daa(p) + 1
  BY Zenon DEF Mine, Anc, Daa
<1>2. \A c \in DOMAIN block : Anc(c)' = Anc(c) /\ Daa(c)' = Daa(c)
  BY MineInv, Zenon DEF Grown, Anc, Daa
<1>3. \A c \in DOMAIN block : Anc(c) \subseteq DOMAIN block /\ Daa(c) \in Nat
  BY Zenon DEF NodeInv, Tree, BlockData, Anc, Daa
<1>4. ASSUME NEW x \in DOMAIN block'
      PROVE  /\ IsFiniteSet(Anc(x)')
             /\ \A a \in Anc(x)' :
                  Cardinality(Anc(x)' \ Anc(a)') = Daa(x)' - Daa(a)'
  <2>1. CASE x \in DOMAIN block
    BY <2>1, <1>2, <1>3, Zenon DEF Ranked
  <2>2. CASE x = b
    <3>1. IsFiniteSet(Anc(p)) /\ IsFiniteSet(Anc(p) \cup {b})
      BY <1>1, FiniteAdd DEF Ranked
    <3>2. ASSUME NEW a \in Anc(p)
          PROVE  Cardinality(Anc(b)' \ Anc(a)') = Daa(b)' - Daa(a)'
      <4>1. a \in DOMAIN block /\ Anc(a)' = Anc(a) /\ Daa(a)' = Daa(a)
            /\ Daa(a) \in Nat /\ Daa(p) \in Nat /\ Anc(a) \subseteq DOMAIN block
        BY <1>1, <1>2, <1>3, Zenon
      <4> DEFINE D == Anc(p) \ Anc(a)
      <4>2. Anc(b)' \ Anc(a)' = D \cup {b} /\ b \notin D
        BY <1>1, <1>3, <4>1, Zenon
      <4>3. IsFiniteSet(D) /\ Cardinality(D) = Daa(p) - Daa(a)
        BY <1>1, <3>1, FiniteSubset DEF Ranked
      <4> HIDE DEF D
      <4>4. Cardinality(D \cup {b}) = Cardinality(D) + 1
        BY <4>2, <4>3, FiniteAdd
      <4>5. Cardinality(Anc(b)' \ Anc(a)') = Daa(p) - Daa(a) + 1
        BY <4>2, <4>3, <4>4, Zenon
      <4>6. Daa(b)' - Daa(a)' = Daa(p) - Daa(a) + 1
        BY <4>1, <1>1
      <4>7. QED BY <4>5, <4>6, Zenon
    <3>3. Cardinality(Anc(b)' \ Anc(b)') = Daa(b)' - Daa(b)'
      <4>1. Anc(b)' \ Anc(b)' = {}
        BY Zenon
      <4>2. Daa(b)' \in Nat
        BY <1>1, <1>3
      <4>3. QED BY <4>1, <4>2, FiniteEmpty
    <3>4. QED BY <2>2, <3>1, <3>2, <3>3, <1>1, Zenon
  <2>3. QED BY <2>1, <2>2, <1>1, Zenon
<1>5. QED BY <1>4, Zenon DEF Ranked

\* A reorg removes at most MaxReorg blocks: a confirmed block has at least as
\* many above it, and they would go with it.
LEMMA MineKeepsConfirmed ==
  ASSUME FiniteLaws, NodeInv, Ranked, MaxReorg <= MinConfirmations,
         NEW b, NEW p, NEW spends \in SUBSET Input, Mine(b, p, spends),
         NEW k \in Chain, NEW a, Confirmed(k, a)
  PROVE  Confirmed(k, a)'
<1> DEFINE j == block[p].chain_id
           t == tip[k]
<1>1. /\ b \notin DOMAIN block /\ p \in DOMAIN block
      /\ block'[b].ancestors = Anc(p) \cup {b} /\ block'[b].daa_score = Daa(p) + 1
  BY Zenon DEF Mine, Anc, Daa
<1>2. \A c \in DOMAIN block : block'[c] = block[c]
  BY MineInv, Zenon DEF Grown
<1>3. /\ t \in DOMAIN block /\ a \in Anc(t) /\ Daa(a) + MinConfirmations <= Daa(t)
      /\ tip \in [Chain -> DOMAIN block] /\ j \in Chain
  BY <1>1, Zenon DEF Confirmed, SelectedChain, NodeInv, BlockData, Anc
<1>4. /\ a \in DOMAIN block /\ Daa(a) \in Nat /\ Daa(t) \in Nat /\ Daa(p) \in Nat
      /\ a \in Anc(a)
  BY <1>1, <1>3, Zenon DEF NodeInv, Tree, BlockData, Anc, Daa
<1>5. CASE tip'[k] = t
  BY <1>2, <1>3, <1>4, <1>5, Zenon DEF Confirmed, SelectedChain, Anc, Daa
<1>6. CASE tip'[k] # t
  <2>1. /\ j = k /\ tip'[k] = b /\ Daa(p) + 1 > Daa(t)
        /\ Cardinality(Anc(t) \ (Anc(p) \cup {b})) <= MaxReorg
    BY <1>1, <1>3, <1>6, Zenon DEF Mine, Anc, Daa
  <2>2. a \in Anc(p)
    <3> SUFFICES ASSUME a \notin Anc(p)
                 PROVE  FALSE
      OBVIOUS
    <3> DEFINE D == Anc(t) \ Anc(a)
               R == Anc(t) \ (Anc(p) \cup {b})
    <3>1. D \cup {a} \subseteq R
      <4>1. a \in R
        BY <1>1, <1>3, <1>4, Zenon
      <4>2. ASSUME NEW c \in D
            PROVE  c \in R
        <5>1. a \in Anc(c) /\ c \in DOMAIN block
          BY <1>3, Zenon DEF NodeInv, Tree
        <5>2. c \in Anc(p) => Anc(c) \subseteq Anc(p)
          BY <1>1, Zenon DEF NodeInv, Tree
        <5>3. QED BY <1>1, <5>1, <5>2, Zenon
      <4>3. QED BY <4>1, <4>2, Zenon
    <3>2. /\ IsFiniteSet(R) /\ IsFiniteSet(D)
          /\ Cardinality(D) = Daa(t) - Daa(a) /\ a \notin D
      BY <1>3, <1>4, FiniteSubset, Zenon DEF Ranked
    <3> HIDE DEF D, R
    <3>3. Cardinality(D \cup {a}) = Daa(t) - Daa(a) + 1
      BY <3>2, FiniteAdd, Zenon
    <3>4. Cardinality(D \cup {a}) <= Cardinality(R)
      BY <3>1, <3>2, FiniteSubset, Zenon
    <3>5. Cardinality(R) <= MaxReorg /\ Cardinality(R) \in Nat
      BY <2>1, <3>2, FiniteSize, Zenon DEF R
    <3>6. QED
      BY <3>3, <3>4, <3>5, <1>3, <1>4, ScanAssumption, NodeAssumption
  <2>3. Daa(a) + MinConfirmations <= Daa(p) + 1
    BY <2>1, <1>3, <1>4, ScanAssumption
  <2>4. QED
    BY <1>1, <1>2, <1>4, <2>1, <2>2, <2>3, Zenon
       DEF Confirmed, SelectedChain, Anc, Daa
<1>7. QED BY <1>5, <1>6, Zenon

\* Every step keeps cursors and batches confirmed.
LEMMA StepStay ==
  ASSUME FiniteLaws, IInv, Ranked, StayInv, MaxReorg <= MinConfirmations, Next
  PROVE  StayInv'
<1> USE DEF IInv
<1>1. ASSUME UNCHANGED node
      PROVE  \A k, b : Confirmed(k, b)' <=> Confirmed(k, b)
  BY <1>1 DEF Confirmed, SelectedChain, Anc, Daa, node
<1>2. ASSUME UNCHANGED <<node, durable, origin>>, pc' \in {"down", "ready"}
      PROVE  StayInv'
  BY <1>1, <1>2, Zenon DEF StayInv, durable
<1>3. ASSUME UNCHANGED <<node, scan_cursor, origin>>,
             pc \in {"fetch", "record"}, batch'.added = batch.added
      PROVE  StayInv'
  BY <1>1, <1>3 DEF StayInv
<1>4. CASE Start
  BY <1>2, <1>4 DEF Start
<1>5. CASE Stop
  BY <1>2, <1>5, RestingSteps, Zenon DEF Stop, Resting
<1>6. CASE current_scan_cursor
  BY <1>1, <1>6, Zenon DEF current_scan_cursor, StayInv, durable
<1>7. CASE store_initial_cursor
  BY <1>7, RestingSteps, Zenon DEF store_initial_cursor, Resting, StayInv
<1>8. CASE cursor_chain_mismatch
  BY <1>2, <1>8, RestingSteps, Zenon DEF cursor_chain_mismatch, Resting
<1>9. CASE scan_from_cursor
  <2>1. /\ UNCHANGED node /\ scan_cursor' = scan_cursor /\ origin' = origin
        /\ scan_cursor.chain_id = configured
        /\ batch'.added = AddedFrom(configured, scan_cursor.block_hash,
                                    MinConfirmations)
    BY <1>9, Zenon DEF scan_from_cursor, durable
  <2>2. \A b \in batch'.added : Confirmed(configured, b)
    BY <2>1 DEF AddedFrom, Confirmed, SelectedChain, Daa
  <2>3. QED BY <1>1, <2>1, <2>2, Zenon DEF StayInv
<1>10. CASE observe_rpc_block_spend_records
  <2>1. batch'.added = batch.added
    BY <1>10, Zenon DEF observe_rpc_block_spend_records, TypeOK, ScanBatch
  <2>2. QED BY <1>3, <1>10, <2>1 DEF observe_rpc_block_spend_records, durable
<1>11. CASE reorg_detected
  BY <1>2, <1>11, RestingSteps, Zenon DEF reorg_detected, Resting
<1>12. CASE batch_accepted
  BY <1>3, <1>12 DEF batch_accepted, durable, locals
<1>13. CASE record_observed_spend
  <2>1. batch'.added = batch.added
    BY <1>13 DEF record_observed_spend, TypeOK, ScanBatch
  <2>2. QED BY <1>3, <1>13, <2>1 DEF record_observed_spend
<1>14. CASE store_scan_cursor
  <2>1. /\ UNCHANGED node /\ origin' = origin /\ pc = "record"
        /\ scan_cursor' = end_cursor /\ start_cursor = scan_cursor
        /\ scan_cursor # None /\ pc' \in {"down", "ready"}
    BY <1>14, RestingSteps, Zenon DEF store_scan_cursor, Resting, ScanInv
  <2>2. CASE batch.added = {}
    <3>1. scan_cursor' = scan_cursor
      BY <2>1, <2>2 DEF end_cursor
    <3>2. QED BY <1>1, <2>1, <3>1 DEF StayInv
  <2>3. CASE batch.added # {}
    <3>1. PICK t \in DOMAIN block : BatchFrom(t)
      BY <2>1, Zenon DEF ScanInv
    <3>2. Highest(batch.added) \in batch.added
      BY <2>3, <3>1, HighestChosen, Zenon
    <3>3. /\ scan_cursor'.chain_id = scan_cursor.chain_id
          /\ scan_cursor'.block_hash = Highest(batch.added)
      BY <2>1, <2>3, Zenon DEF end_cursor
    <3>4. Confirmed(scan_cursor.chain_id, Highest(batch.added))
      BY <2>1, <3>2, Zenon DEF StayInv
    <3>5. QED BY <1>1, <2>1, <3>3, <3>4, Zenon DEF StayInv
  <2>4. QED BY <2>2, <2>3, Zenon
<1>15. CASE clear_scan_cursor
  BY <1>15, Zenon DEF clear_scan_cursor, StayInv
<1>16. CASE MineBlock /\ Outside
  <2>1. PICK b \in Block, p \in DOMAIN block, spends \in SUBSET Input :
          Mine(b, p, spends)
    BY <1>16 DEF MineBlock
  <2>2. \A k \in Chain : \A a : Confirmed(k, a) => Confirmed(k, a)'
    BY <2>1, MineKeepsConfirmed
  <2>3. /\ scan_cursor' = scan_cursor /\ origin' = origin /\ pc' = pc
        /\ batch' = batch
    BY <1>16, Zenon DEF Outside, durable, locals
  <2>4. scan_cursor # None => scan_cursor.chain_id \in Chain
    BY DEF TypeOK, ScanCursor
  <2>5. pc \in {"fetch", "record"} => scan_cursor # None
    BY Zenon DEF ScanInv
  <2>6. QED BY <2>2, <2>3, <2>4, <2>5 DEF StayInv
<1>17. QED
  BY <1>4, <1>5, <1>6, <1>7, <1>8, <1>9, <1>10, <1>11, <1>12, <1>13, <1>14,
     <1>15, <1>16, Zenon DEF Next, Tick

\* Every step keeps scores and blocks in step.
LEMMA StepRanked ==
  ASSUME FiniteLaws, NodeInv, Ranked, Next
  PROVE  Ranked'
<1>1. CASE MineBlock
  <2>1. PICK b \in Block, p \in DOMAIN block, spends \in SUBSET Input :
          Mine(b, p, spends)
    BY <1>1, Zenon DEF MineBlock
  <2>2. QED BY <2>1, MineRanked
<1>2. CASE UNCHANGED node
  BY <1>2 DEF node, Ranked, Anc, Daa
<1>3. QED
  BY <1>1, <1>2, Zenon
     DEF Next, Start, Stop, Tick, clear_scan_cursor, current_scan_cursor,
         store_initial_cursor, cursor_chain_mismatch, scan_from_cursor,
         observe_rpc_block_spend_records, reorg_detected, batch_accepted,
         record_observed_spend, store_scan_cursor

-----------------------------------------------------------------------------
(* Finite sets from the library, and the theorem that counts blocks.        *)

Sets == INSTANCE FiniteSetTheorems

\* The library's finite sets are those of the model.
LEMMA SameSets ==
  \A S : /\ Sets!Cardinality(S) = Cardinality(S)
         /\ Sets!IsFiniteSet(S) <=> IsFiniteSet(S)
BY Zenon DEF Sets!Cardinality, Cardinality, Sets!IsFiniteSet, IsFiniteSet

\* What the lemmas assume of finite sets holds.
LEMMA FiniteLawsHold == FiniteLaws
<1>1. IsFiniteSet({}) /\ Cardinality({}) = 0
  BY Sets!FS_EmptySet, SameSets, Zenon
<1>2. ASSUME NEW S, IsFiniteSet(S)
      PROVE  /\ Cardinality(S) \in Nat
             /\ \A R \in SUBSET S : IsFiniteSet(R) /\ Cardinality(R) <= Cardinality(S)
             /\ \A x : /\ IsFiniteSet(S \cup {x})
                       /\ x \notin S => Cardinality(S \cup {x}) = Cardinality(S) + 1
  <2>1. Sets!IsFiniteSet(S)
    BY <1>2, SameSets, Zenon
  <2>2. Cardinality(S) \in Nat
    BY <2>1, Sets!FS_CardinalityType, SameSets, Zenon
  <2>3. ASSUME NEW R \in SUBSET S
        PROVE  IsFiniteSet(R) /\ Cardinality(R) <= Cardinality(S)
    BY <2>1, Sets!FS_Subset, SameSets, Zenon
  <2>4. ASSUME NEW x
        PROVE  /\ IsFiniteSet(S \cup {x})
               /\ x \notin S => Cardinality(S \cup {x}) = Cardinality(S) + 1
    BY <2>1, Sets!FS_AddElement, SameSets, Zenon
  <2>5. QED BY <2>2, <2>3, <2>4, Zenon
<1>3. QED BY <1>1, <1>2, Zenon DEF FiniteLaws

\* With reorgs no deeper than min_confirmation_count, however many there are
\* and whenever they come, a cursor that a tick advanced is on the selected
\* chain: reorg_detected cannot end the scanner for it.
THEOREM CursorStaysConfirmed == Spec => []ConfirmedCursorStays
<1> DEFINE Inv == IInv /\ Ranked /\ (MaxReorg <= MinConfirmations => StayInv)
<1>1. Init => Inv
  <2> SUFFICES ASSUME Init
               PROVE  Inv
    OBVIOUS
  <2>1. IInv
    BY InitInv, Zenon
  <2>2. StayInv
    BY Zenon DEF Init, StayInv
  <2>3. ASSUME NEW b \in DOMAIN block
        PROVE  Anc(b) = {b} /\ Daa(b) = 0
    BY Zenon DEF Init, NodeInit, Anc, Daa
  <2>4. ASSUME NEW b \in DOMAIN block
        PROVE  /\ IsFiniteSet(Anc(b))
               /\ \A a \in Anc(b) : Cardinality(Anc(b) \ Anc(a)) = Daa(b) - Daa(a)
    <3>1. IsFiniteSet({} \cup {b}) /\ IsFiniteSet({}) /\ Cardinality({}) = 0
      BY FiniteLawsHold, FiniteEmpty, FiniteAdd, Zenon
    <3>2. {} \cup {b} = {b} /\ {b} \ {b} = {}
      OBVIOUS
    <3>3. QED BY <2>3, <3>1, <3>2
  <2>5. QED BY <2>1, <2>2, <2>4 DEF Ranked
<1>2. Inv /\ [Next]_vars => Inv'
  <2>1. ASSUME Inv, Next
        PROVE  Inv'
    <3>1. IInv' /\ Ranked'
      BY <2>1, Inductive, StepRanked, FiniteLawsHold DEF IInv
    <3>2. MaxReorg <= MinConfirmations => StayInv'
      BY <2>1, StepStay, FiniteLawsHold, Zenon
    <3>3. QED BY <3>1, <3>2
  <2>2. ASSUME Inv, UNCHANGED vars
        PROVE  Inv'
    <3>1. UNCHANGED <<block, tip, scan_cursor, pc, batch, origin>>
      BY <2>2 DEF vars, node, durable, locals
    <3>2. IInv'
      BY <2>2, Inductive, Zenon
    <3>3. QED
      BY <2>2, <3>1, <3>2, Zenon
         DEF Ranked, StayInv, Confirmed, SelectedChain, Anc, Daa
  <2>3. QED BY <2>1, <2>2
<1>3. Inv => ConfirmedCursorStays
  BY DEF ConfirmedCursorStays, StayInv, Confirmed, OnSelectedChain
<1>4. QED BY <1>1, <1>2, <1>3, PTL DEF Spec
=============================================================================
