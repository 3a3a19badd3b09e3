------------------------- MODULE CovenantChainProofs -------------------------
(***************************************************************************)
(* For every set of specs, policies and payloads, and any number of         *)
(* transactions, by the client or by others: an id is opened once, a closed *)
(* covenant keeps its script and its identity, a singleton has exactly one  *)
(* unspent output, what the builders build is admitted, and a signature     *)
(* that holds covers what was signed.                                       *)
(***************************************************************************)
EXTENDS CovenantChain, TLAPS

\* What an opened id says: its outpoint has been spent, and was created by a
\* transaction accepted before.
OpenedSpent ==
  \A p \in opened :
    /\ p[1].genesis_outpoint \notin DOMAIN utxo
    /\ p[1].genesis_outpoint[1] <= Len(accepted)

\* An id that is carried has been opened, and not by the funding.
CarriedOpened ==
  \A o \in DOMAIN utxo :
    utxo[o].covenant_id # None =>
      /\ o[1] # 0
      /\ \E p \in opened : p[1] = utxo[o].covenant_id

\* The part of TypeOK that is about the chain.
ChainOK ==
  /\ accepted \in Seq(Range(accepted))
  /\ DOMAIN utxo \subseteq (0 .. Len(accepted)) \X Nat
  /\ \A o \in DOMAIN utxo : utxo[o] \in Entry
  /\ opened \subseteq CovenantId \X (1 .. Len(accepted))

DraftOK == draft # NoDraft => TxOK(draft.tx)

Inv ==
  /\ ChainOK
  /\ DraftOK
  /\ OpenedSpent
  /\ CarriedOpened
  /\ CovenantOpensOnce
  /\ CovenantKeepsScript
  /\ SingletonHasOneOutput
  /\ ContinuationKeepsIdentity

-----------------------------------------------------------------------------
\* A function on 1 .. n is a sequence of length n.
LEMMA FunctionIsSequence ==
  ASSUME NEW n \in Nat, NEW f, f = [k \in 1 .. n |-> f[k]]
  PROVE  f \in Seq(Range(f)) /\ Len(f) = n /\ DOMAIN f = 1 .. n
<1>1. f \in [1 .. n -> Range(f)]
  BY DEF Range
<1>2. f \in Seq(Range(f))
  BY <1>1
<1> QED
  BY <1>1, <1>2

\* Append keeps what is there and adds one.
LEMMA AppendIsSequence ==
  ASSUME NEW s, NEW e, s \in Seq(Range(s))
  PROVE  /\ Append(s, e) \in Seq(Range(Append(s, e)))
         /\ Len(Append(s, e)) = Len(s) + 1
         /\ Append(s, e)[Len(s) + 1] = e
         /\ \A i \in 1 .. Len(s) : Append(s, e)[i] = s[i]
         /\ Len(s) \in Nat
<1> DEFINE S == Range(s) \cup {e}
           t == Append(s, e)
<1>1. s \in Seq(S) /\ e \in S
  OBVIOUS
<1>2. /\ t \in Seq(S)
      /\ Len(t) = Len(s) + 1
      /\ t[Len(s) + 1] = e
      /\ \A i \in 1 .. Len(s) : t[i] = s[i]
      /\ Len(s) \in Nat
  <2> HIDE DEF S
  <2> QED BY <1>1
<1> HIDE DEF t
<1>3. t = [k \in 1 .. Len(t) |-> t[k]] /\ Len(t) \in Nat
  <2> HIDE DEF S
  <2>1. t \in [1 .. Len(t) -> S] /\ Len(t) \in Nat
    BY <1>2
  <2> QED BY <2>1, Zenon
<1>4. t \in Seq(Range(t))
  BY <1>3, FunctionIsSequence, Zenon
<1> QED
  BY <1>2, <1>4 DEF t

-----------------------------------------------------------------------------
\* What the chain admits: the outputs of an accepted transaction.
\* Every bound output continues an id that a spent output carries, or opens one
\* whose outpoint is spent here.
LEMMA BoundOutput ==
  ASSUME Inv, NEW tx, TxOK(tx), admitted(tx),
         NEW k \in DOMAIN tx.outputs, tx.outputs[k].covenant_binding # None
  PROVE  LET c == tx.outputs[k].covenant_binding.covenant_id
             a == tx.outputs[k].covenant_binding.authorizing_input + 1
         IN /\ a \in DOMAIN tx.inputs
            /\ tx.inputs[a].previous_outpoint \in DOMAIN utxo
            /\ \/ /\ continues(tx, k)
                  /\ utxo[tx.inputs[a].previous_outpoint].covenant_id # None
                  /\ utxo[tx.inputs[a].previous_outpoint].covenant_id = c
                  /\ c \in CovenantId
               \/ /\ ~continues(tx, k)
                  /\ opens(tx, k)
                  /\ c.genesis_outpoint = tx.inputs[a].previous_outpoint
                  /\ [index |-> k - 1,
                      script_public_key |-> tx.outputs[k].script_public_key]
                       \in c.authorized_outputs
                  /\ c \in CovenantId
<1> DEFINE binding == tx.outputs[k].covenant_binding
           c == binding.covenant_id
           a == binding.authorizing_input + 1
           o == tx.inputs[a].previous_outpoint
           Same == {j \in DOMAIN tx.outputs :
                      tx.outputs[j].covenant_binding = binding}
           outs == authorized(tx, {j - 1 : j \in Same})
<1>1. a \in DOMAIN tx.inputs /\ o \in DOMAIN utxo
  <2>1. live(tx) /\ bindings_admitted(tx)
    BY Zenon DEF admitted
  <2>2. a \in DOMAIN tx.inputs
    BY <2>1, Zenon DEF bindings_admitted
  <2> HIDE DEF a
  <2> QED BY <2>1, <2>2, Zenon DEF live
<1>2. o \in OutpointSet /\ utxo[o] \in Entry
  <2>1. /\ \A q \in DOMAIN utxo : q \in (0 .. Len(accepted)) \X Nat /\ utxo[q] \in Entry
        /\ accepted \in Seq(Range(accepted))
    BY Zenon DEF Inv, ChainOK
  <2> HIDE DEF o
  <2>2. o \in (0 .. Len(accepted)) \X Nat /\ utxo[o] \in Entry
    BY <1>1, <2>1, Zenon
  <2> QED BY <2>1, <2>2 DEF OutpointSet
<1>3. spent_by(tx)[a] = utxo[o]
  BY <1>1 DEF spent_by
<1>4. CASE continues(tx, k)
  <2>1. utxo[o].covenant_id # None /\ utxo[o].covenant_id = c
    BY <1>3, <1>4, Zenon DEF continues, carries
  <2>2. c \in CovenantId
    BY <2>1, <1>2, Zenon DEF Entry
  <2> QED BY <1>1, <1>4, <2>1, <2>2, Zenon
<1>5. CASE ~continues(tx, k)
  <2>1. opens(tx, k)
    BY <1>5 DEF admitted, bindings_admitted
  <2>2. c = [genesis_outpoint |-> o, authorized_outputs |-> outs]
    BY <2>1 DEF opens, compute_covenant_id
  <2>3. DOMAIN tx.outputs = 1 .. Len(tx.outputs) /\ Len(tx.outputs) \in Nat
    BY DEF TxOK
  <2>4. \A j \in Same : (j - 1) + 1 = j /\ j - 1 \in Nat /\ j \in DOMAIN tx.outputs
    BY <2>3
  <2>5. outs \subseteq [index : Nat, script_public_key : ScriptPublicKey]
    <3> SUFFICES ASSUME NEW j \in Same
                 PROVE  [index |-> j - 1,
                         script_public_key |-> tx.outputs[(j - 1) + 1].script_public_key]
                          \in [index : Nat, script_public_key : ScriptPublicKey]
      BY DEF authorized
    <3>1. tx.outputs[(j - 1) + 1].script_public_key \in ScriptPublicKey
      BY <2>4 DEF TxOK
    <3> QED BY <3>1, <2>4
  <2>6. [index |-> k - 1,
         script_public_key |-> tx.outputs[k].script_public_key] \in outs
    <3>1. k \in Same
      <4>1. k \in DOMAIN tx.outputs /\ tx.outputs[k].covenant_binding = binding
        OBVIOUS
      <4> HIDE DEF binding, outs, o, a, c
      <4> QED BY <4>1, Zenon
    <3> HIDE DEF Same
    <3> QED BY <3>1, <2>4 DEF authorized
  <2>7. c \in CovenantId
    <3> HIDE DEF outs
    <3> QED BY <2>2, <2>5, <1>2 DEF CovenantId
  <2>8. c.genesis_outpoint = o /\ c.authorized_outputs = outs
    <3> HIDE DEF outs, o
    <3> QED BY <2>2
  <2> QED
    <3> HIDE DEF outs
    <3> HIDE DEF o, a
    <3> QED BY <1>1, <1>5, <2>1, <2>6, <2>7, <2>8, ZenonT(20) DEF o, a
<1> QED BY <1>4, <1>5, Zenon

\* Accept, output by output.
LEMMA AcceptFacts ==
  ASSUME Inv, NEW tx, TxOK(tx), Accept(tx)
  PROVE  LET n == Len(accepted) + 1
         IN /\ Len(accepted) \in Nat
            /\ Len(accepted') = n
            /\ accepted' \in Seq(Range(accepted'))
            /\ accepted'[n].tx.payload = tx.payload
            /\ \A i \in 1 .. Len(accepted) : accepted'[i] = accepted[i]
            /\ \A o \in DOMAIN utxo' :
                 \/ /\ o \in DOMAIN utxo /\ o \notin Spent(tx)
                    /\ o[1] # n /\ utxo'[o] = utxo[o]
                 \/ \E k \in DOMAIN tx.outputs :
                      o = <<n, k - 1>> /\ utxo'[o] = entry_of(tx.outputs[k])
            /\ \A o \in DOMAIN utxo \ Spent(tx) :
                 o \in DOMAIN utxo' /\ utxo'[o] = utxo[o]
            /\ \A k \in DOMAIN tx.outputs :
                 /\ <<n, k - 1>> \in DOMAIN utxo'
                 /\ utxo'[<<n, k - 1>>] = entry_of(tx.outputs[k])
<1> DEFINE n == Len(accepted) + 1
           e == [tx |-> txid(tx), spent |-> spent_by(tx)]
           D == (DOMAIN utxo \ Spent(tx)) \cup Created(tx, n)
<1>1. accepted \in Seq(Range(accepted))
  BY DEF Inv, ChainOK
<1>2. accepted' = Append(accepted, e)
  BY DEF Accept
<1>3. /\ Len(accepted) \in Nat
      /\ Len(accepted') = n
      /\ accepted' \in Seq(Range(accepted'))
      /\ accepted'[n] = e
      /\ \A i \in 1 .. Len(accepted) : accepted'[i] = accepted[i]
  <2> HIDE DEF e
  <2> QED BY <1>1, <1>2, AppendIsSequence
<1>4. e.tx.payload = tx.payload
  BY DEF txid
<1>5. /\ DOMAIN utxo' = D
      /\ \A o \in D : utxo'[o] =
           IF o[1] = n THEN entry_of(tx.outputs[o[2] + 1]) ELSE utxo[o]
  <2>1. utxo' = [o \in D |->
                  IF o[1] = n THEN entry_of(tx.outputs[o[2] + 1]) ELSE utxo[o]]
    BY DEF Accept
  <2> HIDE DEF D
  <2> QED BY <2>1
<1>6. \A o \in DOMAIN utxo : o[1] # n
  BY <1>3 DEF Inv, ChainOK
<1>7. DOMAIN tx.outputs = 1 .. Len(tx.outputs) /\ Len(tx.outputs) \in Nat
  BY DEF TxOK
<1>8. \A k \in DOMAIN tx.outputs :
        /\ <<n, k - 1>> \in D
        /\ <<n, k - 1>>[1] = n
        /\ <<n, k - 1>>[2] + 1 = k
  BY <1>7 DEF Created, Outpoint
<1>9. \A k \in DOMAIN tx.outputs :
        <<n, k - 1>> \in DOMAIN utxo' /\ utxo'[<<n, k - 1>>] = entry_of(tx.outputs[k])
  <2> HIDE DEF D, n
  <2> QED BY <1>5, <1>8
<1>10. \A o \in DOMAIN utxo \ Spent(tx) : o \in DOMAIN utxo' /\ utxo'[o] = utxo[o]
  <2>1. \A o \in DOMAIN utxo \ Spent(tx) : o \in D
    OBVIOUS
  <2> HIDE DEF D
  <2> QED BY <1>5, <1>6, <2>1
<1>11. \A o \in D : o \in DOMAIN utxo \ Spent(tx)
          \/ \E k \in DOMAIN tx.outputs : o = <<n, k - 1>>
  BY DEF Created, Outpoint
<1> HIDE DEF D, n, e
<1> QED BY <1>3, <1>4, <1>5, <1>6, <1>9, <1>10, <1>11 DEF n

\* A new output that carries an id is bound to it.
LEMMA NewOutput ==
  ASSUME NEW output
  PROVE  /\ entry_of(output).script_public_key = output.script_public_key
         /\ entry_of(output).covenant_id # None =>
              /\ output.covenant_binding # None
              /\ entry_of(output).covenant_id = output.covenant_binding.covenant_id
         /\ output.covenant_binding # None =>
              entry_of(output).covenant_id = output.covenant_binding.covenant_id
BY DEF entry_of

\* What is opened by an accepted transaction.
LEMMA OpenedFacts ==
  ASSUME NEW tx, Accept(tx)
  PROVE  LET n == Len(accepted) + 1
         IN /\ \A p \in opened' :
                 \/ p \in opened
                 \/ \E k \in DOMAIN tx.outputs :
                      /\ tx.outputs[k].covenant_binding # None
                      /\ ~continues(tx, k)
                      /\ p = <<tx.outputs[k].covenant_binding.covenant_id, n>>
            /\ opened \subseteq opened'
            /\ \A k \in DOMAIN tx.outputs :
                 /\ tx.outputs[k].covenant_binding # None
                 /\ ~continues(tx, k)
                 => <<tx.outputs[k].covenant_binding.covenant_id, n>> \in opened'
BY DEF Accept, newly_opened

\* Types after a transaction is accepted.
LEMMA AcceptTypes ==
  ASSUME Inv, NEW tx, TxOK(tx), Accept(tx)
  PROVE  ChainOK'
<1> DEFINE n == Len(accepted) + 1
<1>1. admitted(tx)
  BY DEF Accept
<1>2. Len(accepted) \in Nat /\ Len(accepted') = n /\ accepted' \in Seq(Range(accepted'))
  BY AcceptFacts
<1>3. DOMAIN tx.outputs = 1 .. Len(tx.outputs) /\ Len(tx.outputs) \in Nat
  BY DEF TxOK
<1>4. ASSUME NEW o \in DOMAIN utxo'
      PROVE  o \in (0 .. n) \X Nat /\ utxo'[o] \in Entry
  <2>1. CASE o \in DOMAIN utxo /\ utxo'[o] = utxo[o]
    BY <2>1, <1>2 DEF Inv, ChainOK
  <2>2. ASSUME NEW k \in DOMAIN tx.outputs,
               o = <<n, k - 1>>, utxo'[o] = entry_of(tx.outputs[k])
        PROVE  o \in (0 .. n) \X Nat /\ utxo'[o] \in Entry
    <3>1. o \in (0 .. n) \X Nat
      <4>1. k - 1 \in Nat
        BY <1>3
      <4>2. n \in 0 .. n
        BY <1>2
      <4> HIDE DEF n
      <4> QED BY <2>2, <4>1, <4>2, Zenon
    <3>2. tx.outputs[k].script_public_key \in ScriptPublicKey
      BY DEF TxOK
    <3>3. tx.outputs[k].covenant_binding # None =>
            tx.outputs[k].covenant_binding.covenant_id \in CovenantId
      BY <1>1, BoundOutput, Zenon
    <3> QED BY <3>1, <3>2, <3>3, <2>2 DEF entry_of, Entry
  <2> QED BY <2>1, <2>2, AcceptFacts
<1>5. opened' \subseteq CovenantId \X (1 .. n)
  <2> SUFFICES ASSUME NEW p \in opened'
               PROVE  p \in CovenantId \X (1 .. n)
    OBVIOUS
  <2>1. CASE p \in opened
    <3>1. p \in CovenantId \X (1 .. Len(accepted))
      BY <2>1 DEF Inv, ChainOK
    <3> QED BY <3>1, <1>2
  <2>2. ASSUME NEW k \in DOMAIN tx.outputs, tx.outputs[k].covenant_binding # None,
               p = <<tx.outputs[k].covenant_binding.covenant_id, n>>
        PROVE  p \in CovenantId \X (1 .. n)
    <3>1. tx.outputs[k].covenant_binding.covenant_id \in CovenantId
      BY <1>1, <2>2, BoundOutput, Zenon
    <3>2. n \in 1 .. n
      BY <1>2
    <3> HIDE DEF n
    <3> QED BY <3>1, <3>2, <2>2, Zenon
  <2> QED BY <2>1, <2>2, OpenedFacts
<1> QED BY <1>2, <1>4, <1>5 DEF ChainOK

\* An id is opened once.  A second opening would spend the outpoint again.
LEMMA AcceptOpened ==
  ASSUME Inv, NEW tx, TxOK(tx), Accept(tx)
  PROVE  OpenedSpent' /\ CarriedOpened' /\ CovenantOpensOnce'
<1> DEFINE n == Len(accepted) + 1
           Cid(k) == tx.outputs[k].covenant_binding.covenant_id
           Fresh(k) == /\ k \in DOMAIN tx.outputs
                       /\ tx.outputs[k].covenant_binding # None
                       /\ ~continues(tx, k)
<1>1. admitted(tx)
  BY DEF Accept
<1>2. Len(accepted) \in Nat /\ Len(accepted') = n
  BY AcceptFacts
<1>3. ASSUME NEW k, Fresh(k)
      PROVE  /\ Cid(k).genesis_outpoint \in DOMAIN utxo
             /\ Cid(k).genesis_outpoint \in Spent(tx)
             /\ Cid(k).genesis_outpoint[1] \in 0 .. Len(accepted)
  <2>1. Cid(k).genesis_outpoint \in DOMAIN utxo /\ Cid(k).genesis_outpoint \in Spent(tx)
    BY <1>1, <1>3, BoundOutput, Zenon DEF Spent
  <2> QED BY <2>1, Zenon DEF Inv, ChainOK
<1>4. ASSUME NEW p \in opened'
      PROVE  p \in opened \/ \E k : Fresh(k) /\ p = <<Cid(k), n>>
  BY <1>4, OpenedFacts
<1>5. \A o \in DOMAIN utxo' : o \in DOMAIN utxo \ Spent(tx) \/ o[1] = n
  BY AcceptFacts
<1>6. ASSUME NEW g, g \notin DOMAIN utxo \/ g \in Spent(tx),
             g[1] \in Nat, g[1] <= Len(accepted)
      PROVE  g \notin DOMAIN utxo' /\ g[1] <= Len(accepted')
  <2>1. g[1] # n /\ g[1] <= n
    BY <1>6, <1>2
  <2> QED BY <2>1, <1>2, <1>5, <1>6
<1>7. OpenedSpent'
  <2> SUFFICES ASSUME NEW p \in opened'
               PROVE  /\ p[1].genesis_outpoint \notin DOMAIN utxo'
                      /\ p[1].genesis_outpoint[1] <= Len(accepted')
    BY DEF OpenedSpent
  <2>1. CASE p \in opened
    <3>1. p[1].genesis_outpoint \in OutpointSet
      BY <2>1 DEF Inv, ChainOK, CovenantId
    <3>2. p[1].genesis_outpoint[1] \in Nat
      BY <3>1 DEF OutpointSet
    <3>3. /\ p[1].genesis_outpoint \notin DOMAIN utxo
          /\ p[1].genesis_outpoint[1] <= Len(accepted)
      BY <2>1 DEF Inv, OpenedSpent
    <3> QED BY <3>2, <3>3, <1>6
  <2>2. ASSUME NEW k, Fresh(k), p = <<Cid(k), n>>
        PROVE  /\ p[1].genesis_outpoint \notin DOMAIN utxo'
               /\ p[1].genesis_outpoint[1] <= Len(accepted')
    <3>1. p[1] = Cid(k)
      BY <2>2
    <3>2. /\ Cid(k).genesis_outpoint \in Spent(tx)
          /\ Cid(k).genesis_outpoint[1] \in 0 .. Len(accepted)
      BY <2>2, <1>3
    <3> HIDE DEF Cid
    <3> QED BY <3>1, <3>2, <1>2, <1>6
  <2> QED BY <1>4, <2>1, <2>2
<1>8. CarriedOpened'
  <2> SUFFICES ASSUME NEW o \in DOMAIN utxo', utxo'[o].covenant_id # None
               PROVE  o[1] # 0 /\ \E p \in opened' : p[1] = utxo'[o].covenant_id
    BY DEF CarriedOpened
  <2>1. CASE o \in DOMAIN utxo /\ utxo'[o] = utxo[o]
    BY <2>1, OpenedFacts DEF Inv, CarriedOpened
  <2>2. ASSUME NEW k \in DOMAIN tx.outputs,
               o = <<n, k - 1>>, utxo'[o] = entry_of(tx.outputs[k])
        PROVE  o[1] # 0 /\ \E p \in opened' : p[1] = utxo'[o].covenant_id
    <3>1. o[1] # 0
      BY <2>2, <1>2
    <3>2. tx.outputs[k].covenant_binding # None /\ utxo'[o].covenant_id = Cid(k)
      BY <2>2, NewOutput
    <3>3. CASE Fresh(k)
      <4>1. <<Cid(k), n>> \in opened'
        BY <3>3, OpenedFacts
      <4>2. <<Cid(k), n>>[1] = utxo'[o].covenant_id
        BY <3>2
      <4> QED BY <3>1, <4>1, <4>2
    <3>4. CASE ~Fresh(k)
      <4> DEFINE s == tx.inputs[tx.outputs[k].covenant_binding.authorizing_input + 1]
                        .previous_outpoint
      <4>1. /\ s \in DOMAIN utxo
            /\ utxo[s].covenant_id # None
            /\ utxo[s].covenant_id = Cid(k)
        BY <1>1, <3>2, <3>4, BoundOutput, Zenon
      <4>2. \E p \in opened : p[1] = Cid(k)
        BY <4>1 DEF Inv, CarriedOpened
      <4> QED BY <3>1, <3>2, <4>2, OpenedFacts, Zenon
    <3> QED BY <3>3, <3>4
  <2> QED BY <2>1, <2>2, AcceptFacts
<1>9. CovenantOpensOnce'
  <2> SUFFICES ASSUME NEW p \in opened', NEW q \in opened', p[1] = q[1]
               PROVE  p = q
    BY DEF CovenantOpensOnce
  <2>1. ASSUME NEW r \in opened, NEW k, Fresh(k), r[1] = Cid(k)
        PROVE  FALSE
    <3>1. r[1].genesis_outpoint \notin DOMAIN utxo
      BY DEF Inv, OpenedSpent
    <3>2. Cid(k).genesis_outpoint \in DOMAIN utxo
      BY <2>1, <1>3
    <3> QED BY <2>1, <3>1, <3>2
  <2>2. CASE p \in opened /\ q \in opened
    BY <2>2 DEF Inv, CovenantOpensOnce
  <2>3. ASSUME NEW k, Fresh(k), p = <<Cid(k), n>>, q \in opened
        PROVE  FALSE
    <3>1. q[1] = Cid(k)
      BY <2>3
    <3> QED BY <3>1, <2>1, <2>3
  <2>4. ASSUME NEW k, Fresh(k), q = <<Cid(k), n>>, p \in opened
        PROVE  FALSE
    <3>1. p[1] = Cid(k)
      BY <2>4
    <3> QED BY <3>1, <2>1, <2>4
  <2>5. ASSUME NEW k, p = <<Cid(k), n>>, NEW j, q = <<Cid(j), n>>
        PROVE  p = q
    BY <2>5
  <2> QED BY <1>4, <2>2, <2>3, <2>4, <2>5
<1> QED BY <1>7, <1>8, <1>9

-----------------------------------------------------------------------------
\* An output that continues a closed id was checked by a script of the id: it
\* has the script of the output spent, and the payload was admitted.
LEMMA ContinuationChecked ==
  ASSUME Inv, NEW tx, TxOK(tx), Accept(tx),
         NEW k \in DOMAIN tx.outputs, tx.outputs[k].covenant_binding # None,
         continues(tx, k),
         NEW c, c = tx.outputs[k].covenant_binding.covenant_id, closed(c)
  PROVE  LET spk == tx.outputs[k].script_public_key
         IN /\ \E a \in c.authorized_outputs : a.script_public_key = spk
            /\ spk \in Scripts
            /\ payload_admitted(spk.template, tx.payload)
<1> DEFINE binding == tx.outputs[k].covenant_binding
           i == binding.authorizing_input + 1
           o == tx.inputs[i].previous_outpoint
           script == utxo[o].script_public_key
           spent == spent_by(tx)
<1>1. admitted(tx)
  BY Zenon DEF Accept
<1>2. /\ i \in DOMAIN tx.inputs
      /\ o \in DOMAIN utxo
      /\ utxo[o].covenant_id # None
      /\ utxo[o].covenant_id = c
  BY <1>1, BoundOutput, Zenon
<1>3. PICK a \in c.authorized_outputs : a.script_public_key = script
  BY <1>2, Zenon DEF Inv, CovenantKeepsScript
<1>4. script # Wallet /\ closing(script.policy)
  BY <1>3, Zenon DEF closed
<1>5. script \in Scripts
  BY <1>2, <1>4, Zenon DEF Inv, ChainOK, Entry, ScriptPublicKey
<1>6. spent[i] = utxo[o]
  BY <1>2, Zenon DEF spent_by
<1>7. script_accepts(script, tx, spent, i)
  BY <1>1, <1>2, <1>4, <1>6, Zenon DEF admitted, unlocked
<1>8. DOMAIN tx.outputs = 1 .. Len(tx.outputs) /\ Len(tx.outputs) \in Nat
  BY DEF TxOK
<1>9. tx.outputs[k].script_public_key = script
  <2>1. CASE script.policy.kind = "shared"
    <3>1. bound_to(tx.outputs[k], spent[i].covenant_id)
      BY <1>2, <1>6, Zenon DEF bound_to
    <3>2. keeps_covenant(tx.outputs[k], spent[i])
      BY <1>7, <2>1, <3>1, Zenon DEF script_accepts, shared_script
    <3> QED BY <3>2, <1>6, Zenon DEF keeps_covenant
  <2>2. CASE /\ script.policy.kind = "policy"
             /\ Range(script.policy.covenant_output_indices)
                  = 0 .. script.policy.exact_output_count - 1
    <3>1. policy_script(script.policy, tx, spent, i)
      BY <1>7, <2>2, Zenon DEF script_accepts
    <3>2. Len(tx.outputs) = script.policy.exact_output_count
      BY <3>1, Zenon DEF policy_script
    <3>3. k - 1 \in Range(script.policy.covenant_output_indices) /\ (k - 1) + 1 = k
      <4> DEFINE count == Len(tx.outputs)
      <4>1. k \in 1 .. count /\ count \in Nat
        BY <1>8
      <4> HIDE DEF count
      <4>2. k - 1 \in 0 .. count - 1 /\ (k - 1) + 1 = k
        BY <4>1
      <4>3. Range(script.policy.covenant_output_indices) = 0 .. count - 1
        BY <2>2, <3>2, Zenon DEF count
      <4> QED BY <4>2, <4>3, Zenon
    <3>4. keeps_covenant(tx.outputs[k], spent[i])
      BY <3>1, <3>3, Zenon DEF policy_script
    <3> QED BY <3>4, <1>6, Zenon DEF keeps_covenant
  <2> QED BY <1>4, <2>1, <2>2, Zenon DEF closing
<1>10. payload_admitted(script.template, tx.payload)
  BY <1>7, Zenon DEF script_accepts
<1> QED BY <1>3, <1>5, <1>9, <1>10, Zenon

\* A payload that a script of build_script admits decodes to its identity.
LEMMA AdmittedDecodes ==
  ASSUME NEW script \in Scripts, NEW payload,
         payload_admitted(script.template, payload)
  PROVE  /\ payload_decodes(payload)
         /\ identity(decode_payload(payload)) = identity(decode_payload(script.template))
<1>1. PICK spec \in CovenantSpec :
        script.template = encode_payload(state_of(spec, Zero, Zero))
  BY DEF Scripts, build_script
<1> DEFINE template == script.template
<1>2. /\ template.prefix = <<PayloadTag, EncodingVersion, spec.chain_id>>
      /\ template.lineage = spec.lineage_id
      /\ template.contract = spec.asset_id
      /\ template.policy_mode = <<spec.receipt_policy, spec.genesis_proof_mode>>
  <2>1. LET of == encode_payload(state_of(spec, Zero, Zero))
        IN /\ of.prefix = <<PayloadTag, EncodingVersion, spec.chain_id>>
           /\ of.lineage = spec.lineage_id
           /\ of.contract = spec.asset_id
           /\ of.policy_mode = <<spec.receipt_policy, spec.genesis_proof_mode>>
    BY Zenon DEF encode_payload, state_of
  <2>2. QED BY <1>1, <2>1, Zenon
<1>3. /\ payload.len = ExpectedPayloadLen
      /\ payload.prefix = template.prefix
      /\ payload.lineage = template.lineage
      /\ payload.contract = template.contract
      /\ payload.policy_mode = template.policy_mode
  BY DEF payload_admitted
<1>4. spec.lineage_id # Zero /\ spec.asset_id # Zero
  BY ChainAssumption
<1>5. /\ template.prefix[1] = PayloadTag
      /\ template.prefix[2] = EncodingVersion
  BY <1>2
<1> HIDE DEF template
<1>6. payload_decodes(payload)
  BY <1>2, <1>3, <1>4, <1>5 DEF payload_decodes, state_valid, decode_payload
<1>7. identity(decode_payload(payload)) = identity(decode_payload(template))
  BY <1>3 DEF identity, decode_payload
<1> QED BY <1>6, <1>7 DEF template

\* A closed covenant keeps its script.
LEMMA AcceptKeepsScript ==
  ASSUME Inv, NEW tx, TxOK(tx), Accept(tx)
  PROVE  CovenantKeepsScript'
<1> SUFFICES ASSUME NEW o \in DOMAIN utxo',
                    utxo'[o].covenant_id # None, closed(utxo'[o].covenant_id)
             PROVE  \E a \in utxo'[o].covenant_id.authorized_outputs :
                      a.script_public_key = utxo'[o].script_public_key
  BY DEF CovenantKeepsScript, closed
<1>1. CASE o \in DOMAIN utxo /\ utxo'[o] = utxo[o]
  BY <1>1 DEF Inv, CovenantKeepsScript
<1>2. ASSUME NEW k \in DOMAIN tx.outputs, utxo'[o] = entry_of(tx.outputs[k])
      PROVE  \E a \in utxo'[o].covenant_id.authorized_outputs :
               a.script_public_key = utxo'[o].script_public_key
  <2> DEFINE c == tx.outputs[k].covenant_binding.covenant_id
             spk == tx.outputs[k].script_public_key
  <2>1. /\ tx.outputs[k].covenant_binding # None
        /\ utxo'[o].covenant_id = c
        /\ utxo'[o].script_public_key = spk
    BY <1>2, NewOutput
  <2>2. CASE continues(tx, k)
    BY <2>1, <2>2, ContinuationChecked
  <2>3. CASE ~continues(tx, k)
    <3>1. [index |-> k - 1, script_public_key |-> spk] \in c.authorized_outputs
      BY <2>1, <2>3, BoundOutput, Zenon DEF Accept
    <3> DEFINE a == [index |-> k - 1, script_public_key |-> spk]
    <3>2. a.script_public_key = spk
      OBVIOUS
    <3> HIDE DEF a
    <3> QED BY <2>1, <3>1, <3>2, Zenon DEF a
  <2> QED BY <2>2, <2>3
<1> QED BY <1>1, <1>2, AcceptFacts

\* A continued closed covenant keeps its identity.
LEMMA AcceptKeepsIdentity ==
  ASSUME Inv, NEW tx, TxOK(tx), Accept(tx)
  PROVE  ContinuationKeepsIdentity'
<1> DEFINE n == Len(accepted) + 1
<1> SUFFICES ASSUME NEW o \in DOMAIN utxo',
                    utxo'[o].covenant_id # None, closed(utxo'[o].covenant_id),
                    <<utxo'[o].covenant_id, o[1]>> \notin opened'
             PROVE  /\ payload_decodes(accepted'[o[1]].tx.payload)
                    /\ identity(decode_payload(accepted'[o[1]].tx.payload))
                         = identity(decode_payload(utxo'[o].script_public_key.template))
  BY DEF ContinuationKeepsIdentity, closed, payload_at
<1>1. CASE o \in DOMAIN utxo /\ utxo'[o] = utxo[o]
  <2>1. o[1] \in 0 .. Len(accepted) /\ o[1] # 0 /\ Len(accepted) \in Nat
    BY <1>1, AcceptFacts DEF Inv, ChainOK, CarriedOpened
  <2>2. accepted'[o[1]] = accepted[o[1]]
    BY <2>1, AcceptFacts
  <2>3. <<utxo[o].covenant_id, o[1]>> \notin opened
    BY <1>1, OpenedFacts
  <2> QED BY <1>1, <2>2, <2>3 DEF Inv, ContinuationKeepsIdentity, payload_at
<1>2. ASSUME NEW k \in DOMAIN tx.outputs, o = <<n, k - 1>>,
             utxo'[o] = entry_of(tx.outputs[k])
      PROVE  /\ payload_decodes(accepted'[o[1]].tx.payload)
             /\ identity(decode_payload(accepted'[o[1]].tx.payload))
                  = identity(decode_payload(utxo'[o].script_public_key.template))
  <2>1. /\ tx.outputs[k].covenant_binding # None
        /\ utxo'[o].covenant_id = tx.outputs[k].covenant_binding.covenant_id
        /\ utxo'[o].script_public_key = tx.outputs[k].script_public_key
    BY <1>2, NewOutput
  <2>2. o[1] = n
    BY <1>2
  <2>3. accepted'[o[1]].tx.payload = tx.payload
    BY <2>2, AcceptFacts
  <2>4. continues(tx, k)
    BY <2>1, <2>2, OpenedFacts
  <2>5. /\ tx.outputs[k].script_public_key \in Scripts
        /\ payload_admitted(tx.outputs[k].script_public_key.template, tx.payload)
    BY <2>1, <2>4, ContinuationChecked
  <2> QED BY <2>1, <2>3, <2>5, AdmittedDecodes
<1> QED BY <1>1, <1>2, AcceptFacts

\* A singleton covenant keeps exactly one output.
LEMMA AcceptKeepsSingleton ==
  ASSUME Inv, NEW tx, TxOK(tx), Accept(tx)
  PROVE  SingletonHasOneOutput'
<1> DEFINE n == Len(accepted) + 1
           Cid(k) == tx.outputs[k].covenant_binding.covenant_id
           Bound(k) == tx.outputs[k].covenant_binding # None
           Fresh(k) == Bound(k) /\ ~continues(tx, k)
           Carriers(c) == {o \in DOMAIN utxo' : carries(utxo'[o], c)}
<1> SUFFICES ASSUME NEW p \in opened',
                    \A a \in p[1].authorized_outputs :
                      a.script_public_key # Wallet
                      /\ a.script_public_key.policy = singleton,
                    \A a, b \in p[1].authorized_outputs : a = b
             PROVE  \E o \in Carriers(p[1]) : Carriers(p[1]) = {o}
  BY DEF SingletonHasOneOutput, Carrying, carries
<1> DEFINE c == p[1]
<1>1. admitted(tx)
  BY DEF Accept
<1>2. closed(c)
  BY DEF closed, closing, singleton, Range
<1>3. DOMAIN tx.outputs = 1 .. Len(tx.outputs) /\ Len(tx.outputs) \in Nat
  BY DEF TxOK
<1>4. ASSUME NEW k \in DOMAIN tx.outputs, carries(entry_of(tx.outputs[k]), c)
      PROVE  Bound(k) /\ Cid(k) = c
  BY <1>4, NewOutput, Zenon DEF carries
<1>5. ASSUME NEW k \in DOMAIN tx.outputs, Bound(k), ~Fresh(k), Cid(k) = c
      PROVE  \E s \in DOMAIN utxo : s \in Spent(tx) /\ carries(utxo[s], c)
  BY <1>1, <1>5, BoundOutput, Zenon DEF Spent, carries
<1>6. ASSUME NEW k \in DOMAIN tx.outputs, Fresh(k), Cid(k) = c
      PROVE  /\ c.genesis_outpoint \in DOMAIN utxo
             /\ c \in CovenantId
             /\ [index |-> k - 1,
                 script_public_key |-> tx.outputs[k].script_public_key]
                  \in c.authorized_outputs
  <2>1. /\ Cid(k).genesis_outpoint \in DOMAIN utxo
        /\ Cid(k) \in CovenantId
        /\ [index |-> k - 1,
            script_public_key |-> tx.outputs[k].script_public_key]
             \in Cid(k).authorized_outputs
    BY <1>1, <1>6, BoundOutput, Zenon
  <2> QED BY <1>6, <2>1, Zenon
<1>7. ASSUME NEW o \in DOMAIN utxo, carries(utxo[o], c), c.genesis_outpoint \in DOMAIN utxo
      PROVE  FALSE
  BY <1>7 DEF carries, Inv, CarriedOpened, OpenedSpent
<1>8. \A o \in DOMAIN utxo' :
        \/ o \in DOMAIN utxo /\ o \notin Spent(tx) /\ utxo'[o] = utxo[o]
        \/ \E k \in DOMAIN tx.outputs :
             o = <<n, k - 1>> /\ utxo'[o] = entry_of(tx.outputs[k])
  BY AcceptFacts
<1>9. CASE p \in opened
  <2>1. PICK o \in Carrying(c) : Carrying(c) = {o}
    BY <1>9 DEF Inv, SingletonHasOneOutput
  <2>2. o \in DOMAIN utxo /\ carries(utxo[o], c)
    BY <2>1 DEF Carrying
  <2>3. \A s \in DOMAIN utxo : carries(utxo[s], c) => s = o
    BY <2>1 DEF Carrying
  <2>4. \A k \in DOMAIN tx.outputs :
          carries(entry_of(tx.outputs[k]), c) => o \in Spent(tx)
    <3> SUFFICES ASSUME NEW k \in DOMAIN tx.outputs,
                        carries(entry_of(tx.outputs[k]), c)
                 PROVE  o \in Spent(tx)
      OBVIOUS
    <3>1. Bound(k) /\ Cid(k) = c
      BY <1>4
    <3>2. ~Fresh(k)
      BY <3>1, <1>6, <1>9, Zenon DEF Inv, OpenedSpent
    <3> QED BY <3>1, <3>2, <1>5, <2>3
  <2>5. CASE o \notin Spent(tx)
    <3>1. o \in DOMAIN utxo' /\ utxo'[o] = utxo[o]
      BY <2>2, <2>5, AcceptFacts
    <3>2. o \in Carriers(c)
      BY <3>1, <2>2
    <3>3. \A q \in Carriers(c) : q = o
      BY <1>8, <2>3, <2>4, <2>5
    <3> QED BY <3>2, <3>3
  <2>6. CASE o \in Spent(tx)
    <3>1. PICK i \in DOMAIN tx.inputs : tx.inputs[i].previous_outpoint = o
      BY <2>6 DEF Spent
    <3> DEFINE script == utxo[o].script_public_key
    <3>2. utxo[o].covenant_id # None /\ utxo[o].covenant_id = c
      BY <2>2 DEF carries
    <3>3. script # Wallet /\ script.policy = singleton
      BY <3>2, <2>2, <1>2 DEF Inv, CovenantKeepsScript
    <3>4. spent_by(tx)[i] = utxo[o]
      BY <3>1 DEF spent_by
    <3>5. script_accepts(script, tx, spent_by(tx), i)
      BY <1>1, <3>1, <3>3, <3>4, Zenon DEF admitted, unlocked
    <3>6. policy_script(singleton, tx, spent_by(tx), i)
      BY <3>3, <3>5 DEF script_accepts, singleton
    <3>7. Len(tx.outputs) = 1 /\ 0 \in Range(singleton.covenant_output_indices)
      BY <3>6 DEF policy_script, singleton, Range
    <3>8. keeps_covenant(tx.outputs[1], utxo[o])
      BY <3>4, <3>6, <3>7 DEF policy_script
    <3>9. carries(entry_of(tx.outputs[1]), c)
      BY <3>2, <3>8, NewOutput DEF keeps_covenant, bound_to, carries
    <3>10. DOMAIN tx.outputs = {1}
      BY <1>3, <3>7
    <3>11. <<n, 1 - 1>> \in DOMAIN utxo' /\ utxo'[<<n, 1 - 1>>] = entry_of(tx.outputs[1])
      BY <3>10, AcceptFacts, Zenon
    <3> DEFINE new == <<n, 1 - 1>>
    <3> HIDE DEF n
    <3>12. new \in Carriers(c)
      BY <3>9, <3>11
    <3>13. \A q \in Carriers(c) : q = new
      BY <1>8, <2>3, <2>6, <3>10
    <3> QED BY <3>12, <3>13
  <2> QED BY <2>5, <2>6
<1>10. CASE p \notin opened
  <2>1. PICK k \in DOMAIN tx.outputs : Fresh(k) /\ p = <<Cid(k), n>>
    BY <1>10, OpenedFacts
  <2>2. Cid(k) = c
    BY <2>1, Zenon
  <2>3. /\ c.genesis_outpoint \in DOMAIN utxo
        /\ c \in CovenantId
        /\ [index |-> k - 1, script_public_key |-> tx.outputs[k].script_public_key]
             \in c.authorized_outputs
    BY <2>1, <2>2, <1>6, Zenon
  <2>4. c # None
    BY <2>3, ChainAssumption, Zenon
  <2>5. carries(entry_of(tx.outputs[k]), c)
    BY <2>1, <2>2, <2>4, NewOutput DEF carries
  <2>6. <<n, k - 1>> \in DOMAIN utxo' /\ utxo'[<<n, k - 1>>] = entry_of(tx.outputs[k])
    BY AcceptFacts
  <2>7. ASSUME NEW j \in DOMAIN tx.outputs, carries(entry_of(tx.outputs[j]), c)
        PROVE  j = k
    <3>1. Bound(j) /\ Cid(j) = c
      BY <2>7, <1>4
    <3>2. Fresh(j)
      BY <3>1, <1>5, <1>7, <2>3
    <3>3. [index |-> j - 1, script_public_key |-> tx.outputs[j].script_public_key]
            \in c.authorized_outputs
      BY <3>1, <3>2, <1>6
    <3>4. [index |-> j - 1, script_public_key |-> tx.outputs[j].script_public_key]
            = [index |-> k - 1, script_public_key |-> tx.outputs[k].script_public_key]
      BY <2>3, <3>3
    <3>5. j - 1 = k - 1
      BY <3>4
    <3> QED BY <3>5, <1>3
  <2> DEFINE new == <<n, k - 1>>
  <2>8. new \in Carriers(c)
    BY <2>5, <2>6
  <2>9. ASSUME NEW q \in Carriers(c)
        PROVE  q = new
    <3>1. CASE q \in DOMAIN utxo /\ utxo'[q] = utxo[q]
      BY <3>1, <1>7, <2>3
    <3>2. ASSUME NEW j \in DOMAIN tx.outputs,
                 q = <<n, j - 1>>, utxo'[q] = entry_of(tx.outputs[j])
          PROVE  q = new
      BY <3>2, <2>7
    <3> QED BY <3>1, <3>2, <1>8, Zenon
  <2> QED BY <2>8, <2>9
<1> QED BY <1>9, <1>10

-----------------------------------------------------------------------------
\* What the client drafts has outputs locked by the wallet or by a script.
LEMMA GenesisTyped ==
  ASSUME NEW f, NEW spec \in CovenantSpec, NEW policies \in Locking,
         BuildGenesis(f, spec, policies)
  PROVE  TxOK(draft'.tx)
<1> DEFINE outs == [k \in DOMAIN policies |->
                      TxOutput(build_script(spec, policies[k]), None)]
<1>1. policies \in Seq(Policy)
  BY ChainAssumption
<1>2. draft'.tx.outputs = outs
  BY DEF BuildGenesis, Drafted
<1>3. DOMAIN policies = 1 .. Len(policies) /\ Len(policies) \in Nat
  BY <1>1
<1>4. outs = [k \in 1 .. Len(policies) |-> outs[k]]
  BY <1>3
<1>5. \A k \in DOMAIN outs : outs[k].script_public_key \in ScriptPublicKey
  BY <1>1 DEF TxOutput, ScriptPublicKey, Scripts
<1> HIDE DEF outs
<1>6. outs \in Seq(Range(outs))
  BY <1>3, <1>4, FunctionIsSequence
<1> QED BY <1>2, <1>5, <1>6 DEF TxOK

\* populate_genesis_covenants binds outputs and leaves their scripts alone.
LEMMA PopulatedTyped ==
  ASSUME DraftOK, NEW groups, PopulateGenesis(groups), draft # NoDraft
  PROVE  TxOK(draft'.tx)
<1> DEFINE tx == draft.tx
           outs == populate_genesis_covenants(tx, groups).outputs
<1>1. TxOK(tx)
  BY DEF DraftOK
<1>2. draft'.tx.outputs = outs
  BY DEF PopulateGenesis, Drafted
<1>3. DOMAIN tx.outputs = 1 .. Len(tx.outputs) /\ Len(tx.outputs) \in Nat
  BY <1>1 DEF TxOK
<1>4. /\ outs = [k \in DOMAIN tx.outputs |-> outs[k]]
      /\ DOMAIN outs = DOMAIN tx.outputs
      /\ \A k \in DOMAIN tx.outputs :
           outs[k].script_public_key = tx.outputs[k].script_public_key
  BY DEF populate_genesis_covenants, TxOutput
<1> HIDE DEF outs, tx
<1>5. outs \in Seq(Range(outs))
  BY <1>3, <1>4, FunctionIsSequence
<1> QED BY <1>1, <1>2, <1>4, <1>5, Zenon DEF TxOK

\* One or two outputs.
LEMMA FewOutputs ==
  ASSUME NEW a, NEW b,
         a.script_public_key \in ScriptPublicKey,
         b.script_public_key \in ScriptPublicKey
  PROVE  /\ <<a>> \in Seq(Range(<<a>>))
         /\ \A k \in DOMAIN <<a>> : <<a>>[k].script_public_key \in ScriptPublicKey
         /\ <<a, b>> \in Seq(Range(<<a, b>>))
         /\ \A k \in DOMAIN <<a, b>> :
              <<a, b>>[k].script_public_key \in ScriptPublicKey
<1>1. /\ <<a>> = [k \in 1 .. 1 |-> <<a>>[k]]
      /\ <<a, b>> = [k \in 1 .. 2 |-> <<a, b>>[k]]
  OBVIOUS
<1>2. <<a>> \in Seq(Range(<<a>>)) /\ <<a, b>> \in Seq(Range(<<a, b>>))
  BY <1>1, FunctionIsSequence, Zenon
<1> QED BY <1>2

\* A transition puts the covenant output, and the change if any, in one transaction.
LEMMA TransitionTyped ==
  ASSUME ChainOK, NEW open \in LockedInputs, NEW digest, NEW marker,
         NEW change \in BOOLEAN, BuildTransition(open, digest, marker, change)
  PROVE  TxOK(draft'.tx)
<1> DEFINE entry == utxo[open[1]]
           a == TxOutput(entry.script_public_key,
                         CovenantBinding(0, entry.covenant_id))
           b == TxOutput(Wallet, None)
<1>1. open[1] \in DOMAIN utxo
  BY DEF LockedInputs, Locked
<1>2. entry.script_public_key \in ScriptPublicKey
  BY <1>1 DEF ChainOK, Entry
<1>3. /\ a.script_public_key \in ScriptPublicKey
      /\ b.script_public_key \in ScriptPublicKey
  BY <1>2, Zenon DEF TxOutput, ScriptPublicKey
<1>4. draft'.tx.outputs = IF change THEN <<a, b>> ELSE <<a>>
  BY Zenon DEF BuildTransition, Drafted, build_transition_outputs
<1> HIDE DEF a, b
<1> QED BY <1>3, <1>4, FewOutputs, Zenon DEF TxOK

\* What another party locks an output to is in ScriptPublicKey.
LEMMA OtherOutputTyped ==
  ASSUME ChainOK, NEW inputs \in LockedInputs, NEW k, NEW c \in OtherOutput(inputs, k)
  PROVE  c.script_public_key \in ScriptPublicKey
<1>1. Range(inputs) \subseteq DOMAIN utxo
  BY DEF LockedInputs, Locked, Range
<1>2. \A o \in Range(inputs) : utxo[o].script_public_key \in ScriptPublicKey
  BY <1>1 DEF ChainOK, Entry
<1>3. \E spk \in OtherSpk(inputs) : \E binding : c = TxOutput(spk, binding)
  BY DEF OtherOutput
<1>4. OtherSpk(inputs) \subseteq ScriptPublicKey
  BY <1>2 DEF OtherSpk, ScriptPublicKey
<1> QED BY <1>3, <1>4 DEF TxOutput

\* A transaction of another party with one output.
LEMMA OtherOneTyped ==
  ASSUME ChainOK, NEW inputs \in LockedInputs, NEW a \in OtherOutput(inputs, 1),
         NEW payload
  PROVE  TxOK(OtherTx(inputs, <<a>>, payload))
BY OtherOutputTyped, FewOutputs, Zenon DEF TxOK, OtherTx

\* A transaction of another party with two outputs.
LEMMA OtherTwoTyped ==
  ASSUME ChainOK, NEW inputs \in LockedInputs, NEW a \in OtherOutput(inputs, 1),
         NEW b \in OtherOutput(inputs, 2), NEW payload
  PROVE  TxOK(OtherTx(inputs, <<a, b>>, payload))
BY OtherOutputTyped, FewOutputs, Zenon DEF TxOK, OtherTx

\* A step of the client on its draft leaves the chain alone.
LEMMA DraftStep ==
  ASSUME Inv, UNCHANGED <<utxo, accepted, opened>>, DraftOK'
  PROVE  Inv'
<1>1. ChainOK'
  BY DEF Inv, ChainOK
<1>2. OpenedSpent' /\ CarriedOpened' /\ CovenantOpensOnce'
  BY DEF Inv, OpenedSpent, CarriedOpened, CovenantOpensOnce
<1>3. CovenantKeepsScript' /\ ContinuationKeepsIdentity'
  BY DEF Inv, CovenantKeepsScript, ContinuationKeepsIdentity, closed, payload_at
<1>4. SingletonHasOneOutput'
  BY DEF Inv, SingletonHasOneOutput, Carrying, carries
<1> QED BY <1>1, <1>2, <1>3, <1>4 DEF Inv

\* Accepting a transaction with typed outputs keeps the invariant.
LEMMA AcceptStep ==
  ASSUME Inv, NEW tx, TxOK(tx), Accept(tx), DraftOK'
  PROVE  Inv'
BY AcceptTypes, AcceptOpened, AcceptKeepsScript, AcceptKeepsIdentity,
   AcceptKeepsSingleton DEF Inv

\* The invariant is inductive: one step per action.
LEMMA NextInv ==
  ASSUME Inv, [Next]_vars
  PROVE  Inv'
<1>1. ASSUME NEW f \in Funding, NEW s \in CovenantSpec, NEW policies \in Locking,
             BuildGenesis(f, s, policies)
      PROVE  Inv'
  <2>1. DraftOK'
    BY <1>1, GenesisTyped DEF DraftOK
  <2> QED BY <1>1, <2>1, DraftStep DEF BuildGenesis
<1>2. ASSUME NEW groups \in Groups, PopulateGenesis(groups)
      PROVE  Inv'
  <2>1. draft # NoDraft
    BY <1>2 DEF PopulateGenesis, NoDraft
  <2>2. DraftOK'
    BY <1>2, <2>1, PopulatedTyped, Zenon DEF DraftOK, Inv
  <2> QED BY <1>2, <2>2, DraftStep DEF PopulateGenesis
<1>3. ASSUME NEW open \in LockedInputs, NEW d \in Digest, NEW m \in Marker,
             NEW change \in BOOLEAN, BuildTransition(open, d, m, change)
      PROVE  Inv'
  <2>1. DraftOK'
    BY <1>3, TransitionTyped DEF DraftOK, Inv
  <2> QED BY <1>3, <2>1, DraftStep DEF BuildTransition
<1>4. ASSUME NEW f \in Funding, AddFeeInput(f)
      PROVE  Inv'
  <2>1. draft'.tx.outputs = draft.tx.outputs
    BY <1>4 DEF AddFeeInput, Drafted, with_inputs
  <2>2. DraftOK'
    BY <1>4, <2>1 DEF AddFeeInput, DraftOK, Inv, TxOK
  <2> QED BY <1>4, <2>2, DraftStep DEF AddFeeInput
<1>5. ASSUME NEW i, NEW t \in HashType, Sign(i, t)
      PROVE  Inv'
  <2>1. draft'.tx.outputs = draft.tx.outputs
    BY <1>5 DEF Sign, Finish, Drafted, with_inputs
  <2>2. DraftOK'
    BY <1>5, <2>1 DEF Sign, DraftOK, Inv, TxOK
  <2> QED BY <1>5, <2>2, DraftStep DEF Sign
<1>6. CASE SetComputeBudget
  <2>1. draft'.tx.outputs = draft.tx.outputs
    BY <1>6 DEF SetComputeBudget, Finish, Drafted, with_inputs
  <2>2. DraftOK'
    BY <1>6, <2>1 DEF SetComputeBudget, DraftOK, Inv, TxOK
  <2> QED BY <1>6, <2>2, DraftStep DEF SetComputeBudget
<1>7. CASE Submit
  <2>1. TxOK(draft.tx) /\ Accept(draft.tx)
    BY <1>7 DEF Submit, Inv, DraftOK
  <2>2. DraftOK'
    BY <1>7 DEF Submit, DraftOK, NoDraft
  <2> QED BY <2>1, <2>2, AcceptStep
<1>8. CASE Abandon
  <2>1. DraftOK'
    BY <1>8 DEF Abandon, DraftOK, NoDraft
  <2> QED BY <1>8, <2>1, DraftStep DEF Abandon
<1>9. ASSUME NEW inputs \in LockedInputs, NEW payload \in OtherPayload,
             NEW a \in OtherOutput(inputs, 1), OtherSpends(inputs, <<a>>, payload)
      PROVE  Inv'
  <2>1. TxOK(OtherTx(inputs, <<a>>, payload))
    BY OtherOneTyped DEF Inv
  <2>2. DraftOK'
    BY <1>9 DEF OtherSpends, DraftOK, Inv, TxOK
  <2> QED BY <1>9, <2>1, <2>2, AcceptStep DEF OtherSpends
<1>10. ASSUME NEW inputs \in LockedInputs, NEW payload \in OtherPayload,
              NEW a \in OtherOutput(inputs, 1), NEW b \in OtherOutput(inputs, 2),
              OtherSpends(inputs, <<a, b>>, payload)
       PROVE  Inv'
  <2>1. TxOK(OtherTx(inputs, <<a, b>>, payload))
    BY OtherTwoTyped DEF Inv
  <2>2. DraftOK'
    BY <1>10 DEF OtherSpends, DraftOK, Inv, TxOK
  <2> QED BY <1>10, <2>1, <2>2, AcceptStep DEF OtherSpends
<1>11. CASE UNCHANGED vars
  <2>1. DraftOK'
    BY <1>11 DEF vars, DraftOK, Inv, TxOK
  <2> QED BY <1>11, <2>1, DraftStep DEF vars
<1> QED
  BY <1>1, <1>2, <1>3, <1>4, <1>5, <1>6, <1>7, <1>8, <1>9, <1>10, <1>11, Zenon DEF Next

\* At the start nothing is opened and no output carries an id.
LEMMA InitInv == Init => Inv
<1> SUFFICES ASSUME Init
             PROVE  Inv
  OBVIOUS
<1>1. accepted = <<>> /\ Len(accepted) = 0 /\ opened = {} /\ draft = NoDraft
  BY DEF Init
<1>2. accepted \in Seq(Range(accepted))
  BY <1>1
<1>3. \A o \in DOMAIN utxo :
        /\ o \in (0 .. 0) \X Nat
        /\ utxo[o].script_public_key = Wallet
        /\ utxo[o].covenant_id = None
        /\ utxo[o] \in Entry
  BY ChainAssumption DEF Init, Outpoint, Entry, ScriptPublicKey
<1>4. ChainOK /\ DraftOK
  BY <1>1, <1>2, <1>3 DEF ChainOK, DraftOK
<1>5. OpenedSpent /\ CarriedOpened /\ CovenantOpensOnce /\ SingletonHasOneOutput
  BY <1>1, <1>3 DEF OpenedSpent, CarriedOpened, CovenantOpensOnce,
                    SingletonHasOneOutput
<1>6. CovenantKeepsScript /\ ContinuationKeepsIdentity
  BY <1>3 DEF CovenantKeepsScript, ContinuationKeepsIdentity
<1> QED BY <1>4, <1>5, <1>6 DEF Inv

\* The invariant holds in every state.
LEMMA Inductive == Spec => []Inv
<1>1. Inv /\ [Next]_vars => Inv'
  BY NextInv
<1> QED BY <1>1, InitInv, PTL DEF Spec

-----------------------------------------------------------------------------
\* Types: outputs are locked by the wallet or by a script of
\* build_script_for_policy or build_script_for_shared_policy.
THEOREM Typed == Spec => []TypeOK
<1>1. Inv => TypeOK
  BY DEF Inv, ChainOK, DraftOK, TypeOK
<1> QED BY <1>1, Inductive, PTL

\* compute_covenant_id gives every covenant an id of its own: no id is opened
\* by two transactions.
THEOREM OpensOnce == Spec => []CovenantOpensOnce
<1>1. Inv => CovenantOpensOnce
  BY DEF Inv
<1> QED BY <1>1, Inductive, PTL

\* The continuation checks of build_script_for_policy and
\* build_script_for_shared_policy keep a closed covenant under its scripts.
THEOREM KeepsScript == Spec => []CovenantKeepsScript
<1>1. Inv => CovenantKeepsScript
  BY DEF Inv
<1> QED BY <1>1, Inductive, PTL

\* The payload checks of the scripts keep chain, lineage, asset, receipt policy
\* and proof mode of a closed covenant.
THEOREM KeepsIdentity == Spec => []ContinuationKeepsIdentity
<1>1. Inv => ContinuationKeepsIdentity
  BY DEF Inv
<1> QED BY <1>1, Inductive, PTL

\* Under CovenantContinuationPolicy::singleton a covenant has exactly one
\* unspent output, whoever spends it and however often.
THEOREM SingletonStays == Spec => []SingletonHasOneOutput
<1>1. Inv => SingletonHasOneOutput
  BY DEF Inv
<1> QED BY <1>1, Inductive, PTL

-----------------------------------------------------------------------------
(* The client's draft.  BuildInv is inductive over Inv: it says of a draft  *)
(* what the builders put into it and what a signature was made over, and of *)
(* the chain that every locked output was created with a payload that its   *)
(* script admits.                                                           *)

\* Inputs are records that spend different outputs of accepted transactions.
InputsOK(inputs) ==
  /\ inputs \in Seq(Range(inputs))
  /\ inputs # <<>>
  /\ \A i \in DOMAIN inputs :
       /\ inputs[i] = [previous_outpoint |-> inputs[i].previous_outpoint,
                       signature_script |-> inputs[i].signature_script,
                       compute_budget |-> inputs[i].compute_budget]
       /\ inputs[i].previous_outpoint \in (0 .. Len(accepted)) \X Nat
  /\ \A i, j \in DOMAIN inputs :
       inputs[i].previous_outpoint = inputs[j].previous_outpoint => i = j

\* What the hash of a signature of input i has in common with the consent.
HashOfConsent(signature, i) ==
  LET consent == signature.consent
      hash == signature.hash
      kind == signature.hash_type
  IN /\ kind \in SigHashType
     /\ hash.payload = consent.payload
     /\ ~ kind.anyone_can_pay => hash.previous_outputs = consent.inputs
     /\ kind.outputs = "all" => hash.outputs = consent.outputs
     /\ kind.outputs = "single" =>
          hash.outputs = IF i \in DOMAIN consent.outputs
                           THEN <<consent.outputs[i]>> ELSE <<>>

\* Only wallet inputs are signed.
SignaturesOK(inputs) ==
  \A i \in DOMAIN inputs :
    inputs[i].signature_script # None =>
      /\ HashOfConsent(inputs[i].signature_script, i)
      /\ inputs[i].previous_outpoint \in DOMAIN utxo =>
           utxo[inputs[i].previous_outpoint].script_public_key = Wallet

\* Every script among the outputs admits the payload.
PayloadFits(outputs, payload) ==
  \A k \in DOMAIN outputs :
    outputs[k].script_public_key # Wallet =>
      payload_admitted(outputs[k].script_public_key.template, payload)

\* A genesis spends funding, and a bound output opens its id.
GenesisOK(tx) ==
  /\ \A i \in DOMAIN tx.inputs : tx.inputs[i].previous_outpoint[1] = 0
  /\ \A k \in DOMAIN tx.outputs :
       tx.outputs[k].covenant_binding # None =>
         /\ tx.outputs[k].covenant_binding.authorizing_input + 1 \in DOMAIN tx.inputs
         /\ opens(tx, k)

\* A transition spends m outputs that are alike, and then funding.
TransitionOf(tx, entry, m, change) ==
  /\ entry \in Entry
  /\ entry.covenant_id # None /\ entry.script_public_key # Wallet
  /\ m <= Len(tx.inputs)
  /\ builder_fits(entry.script_public_key.policy, m, change)
  /\ tx.outputs = build_transition_outputs(entry.script_public_key,
                                           entry.covenant_id, change)
  /\ \A i \in DOMAIN tx.inputs :
       IF i <= m
         THEN tx.inputs[i].previous_outpoint \in DOMAIN utxo =>
                utxo[tx.inputs[i].previous_outpoint] = entry
         ELSE tx.inputs[i].previous_outpoint[1] = 0

TransitionOK(tx) ==
  \E entry \in Entry, m \in {1, 2}, change \in BOOLEAN :
    TransitionOf(tx, entry, m, change)

DraftBuilt ==
  draft # NoDraft =>
    /\ draft = [purpose |-> draft.purpose, tx |-> draft.tx]
    /\ draft.tx = [inputs |-> draft.tx.inputs, outputs |-> draft.tx.outputs,
                   payload |-> draft.tx.payload]
    /\ InputsOK(draft.tx.inputs)
    /\ SignaturesOK(draft.tx.inputs)
    /\ PayloadFits(draft.tx.outputs, draft.tx.payload)
    /\ draft.purpose = "genesis" => GenesisOK(draft.tx)
    /\ draft.purpose # "genesis" => TransitionOK(draft.tx)

ChainBuilt ==
  \A o \in DOMAIN utxo :
    utxo[o].script_public_key # Wallet =>
      o[1] # 0 /\ payload_admitted(utxo[o].script_public_key.template, payload_at(o))

BuildInv == DraftBuilt /\ ChainBuilt

\* An outpoint of an accepted transaction keeps its entry until it is spent.
LEMMA OutpointStable ==
  ASSUME Inv, NEW tx, TxOK(tx), Accept(tx),
         NEW o \in (0 .. Len(accepted)) \X Nat, o \in DOMAIN utxo'
  PROVE  o \in DOMAIN utxo /\ utxo'[o] = utxo[o]
<1> DEFINE n == Len(accepted) + 1
<1>1. /\ Len(accepted) \in Nat
      /\ \/ o \in DOMAIN utxo /\ utxo'[o] = utxo[o]
         \/ \E k \in DOMAIN tx.outputs : o = <<n, k - 1>>
  BY AcceptFacts
<1>2. o[1] # n
  BY <1>1
<1> HIDE DEF n
<1> QED BY <1>1, <1>2

\* A transaction whose payload fits its outputs creates outputs whose script
\* admits the payload they were created with.
LEMMA AcceptBuilt ==
  ASSUME Inv, ChainBuilt, NEW tx, TxOK(tx), Accept(tx),
         PayloadFits(tx.outputs, tx.payload)
  PROVE  ChainBuilt'
<1> DEFINE n == Len(accepted) + 1
<1>1. /\ Len(accepted) \in Nat
      /\ accepted'[n].tx.payload = tx.payload
      /\ \A i \in 1 .. Len(accepted) : accepted'[i] = accepted[i]
      /\ \A o \in DOMAIN utxo' :
           \/ o \in DOMAIN utxo /\ utxo'[o] = utxo[o]
           \/ \E k \in DOMAIN tx.outputs :
                o = <<n, k - 1>> /\ utxo'[o] = entry_of(tx.outputs[k])
  BY AcceptFacts
<1> SUFFICES ASSUME NEW o \in DOMAIN utxo', utxo'[o].script_public_key # Wallet
             PROVE  /\ o[1] # 0
                    /\ payload_admitted(utxo'[o].script_public_key.template,
                                        accepted'[o[1]].tx.payload)
  BY DEF ChainBuilt, payload_at
<1>2. CASE o \in DOMAIN utxo /\ utxo'[o] = utxo[o]
  <2>1. /\ o[1] # 0
        /\ payload_admitted(utxo[o].script_public_key.template,
                            accepted[o[1]].tx.payload)
    BY <1>2 DEF ChainBuilt, payload_at
  <2>2. o \in (0 .. Len(accepted)) \X Nat
    BY <1>2 DEF Inv, ChainOK
  <2>3. o[1] \in 1 .. Len(accepted)
    BY <1>1, <2>1, <2>2
  <2> QED BY <1>1, <1>2, <2>1, <2>3
<1>3. ASSUME NEW k \in DOMAIN tx.outputs,
             o = <<n, k - 1>>, utxo'[o] = entry_of(tx.outputs[k])
      PROVE  /\ o[1] # 0
             /\ payload_admitted(utxo'[o].script_public_key.template,
                                 accepted'[o[1]].tx.payload)
  <2>1. utxo'[o].script_public_key = tx.outputs[k].script_public_key
    BY <1>3, NewOutput
  <2>2. payload_admitted(utxo'[o].script_public_key.template, tx.payload)
    BY <2>1 DEF PayloadFits
  <2>3. n # 0
    BY <1>1
  <2> HIDE DEF n
  <2>4. o[1] = n
    BY <1>3
  <2> QED BY <1>1, <2>2, <2>3, <2>4
<1> QED BY <1>1, <1>2, <1>3

\* What others lock with a script they found in an input, that script admits.
LEMMA OthersFit ==
  ASSUME NEW inputs \in LockedInputs, NEW outputs, NEW payload,
         \A k \in DOMAIN outputs :
           outputs[k].script_public_key \in OtherSpk(inputs),
         admitted(OtherTx(inputs, outputs, payload))
  PROVE  PayloadFits(outputs, payload)
<1> DEFINE tx == OtherTx(inputs, outputs, payload)
<1>1. /\ tx.payload = payload
      /\ tx.inputs = [i \in DOMAIN inputs |-> TxInput(inputs[i])]
  BY Zenon DEF OtherTx
<1>2. ASSUME NEW i \in DOMAIN inputs
      PROVE  payload_admitted(utxo[inputs[i]].script_public_key.template, payload)
  <2>1. i \in DOMAIN tx.inputs /\ tx.inputs[i].previous_outpoint = inputs[i]
    BY <1>1 DEF TxInput
  <2>2. spent_by(tx)[i] = utxo[inputs[i]]
    BY <2>1 DEF spent_by
  <2>3. inputs[i] \in Locked
    BY DEF LockedInputs
  <2>4. unlocked(tx, spent_by(tx), i)
    BY <2>1 DEF admitted
  <2> HIDE DEF tx
  <2> QED BY <1>1, <2>2, <2>3, <2>4 DEF Locked, unlocked, script_accepts
<1> QED BY <1>2 DEF PayloadFits, OtherSpk, Range

\* Nothing others do changes what the draft says or what it may still spend.
LEMMA DraftStays ==
  ASSUME Inv, DraftBuilt, NEW tx, TxOK(tx), Accept(tx), UNCHANGED draft
  PROVE  DraftBuilt'
<1> SUFFICES ASSUME draft # NoDraft
             PROVE  /\ InputsOK(draft.tx.inputs)'
                    /\ SignaturesOK(draft.tx.inputs)'
                    /\ TransitionOK(draft.tx) => TransitionOK(draft.tx)'
  BY Zenon DEF DraftBuilt, PayloadFits, GenesisOK, opens
<1> DEFINE d == draft.tx
<1>1. InputsOK(d.inputs) /\ SignaturesOK(d.inputs)
  BY DEF DraftBuilt
<1>2. Len(accepted) \in Nat /\ Len(accepted') = Len(accepted) + 1
  BY AcceptFacts, Zenon
<1>3. InputsOK(d.inputs)'
  <2>1. \A o \in (0 .. Len(accepted)) \X Nat : o \in (0 .. Len(accepted')) \X Nat
    BY <1>2
  <2> QED BY <1>1, <2>1, Zenon DEF InputsOK
<1>4. \A i \in DOMAIN d.inputs :
        d.inputs[i].previous_outpoint \in DOMAIN utxo' =>
          /\ d.inputs[i].previous_outpoint \in DOMAIN utxo
          /\ utxo'[d.inputs[i].previous_outpoint] = utxo[d.inputs[i].previous_outpoint]
  BY <1>1, OutpointStable, Zenon DEF InputsOK
<1>5. SignaturesOK(d.inputs)'
  BY <1>1, <1>4, Zenon DEF SignaturesOK, HashOfConsent
<1>6. ASSUME NEW entry \in Entry, NEW m \in {1, 2}, NEW change \in BOOLEAN,
             TransitionOf(d, entry, m, change)
      PROVE  TransitionOf(d, entry, m, change)'
  BY <1>4, <1>6 DEF TransitionOf
<1> QED BY <1>3, <1>5, <1>6, Zenon DEF TransitionOK

\* What is said of a genesis is said of its inputs and outputs alone.
LEMMA GenesisKept ==
  ASSUME NEW tx, draft'.tx = tx, GenesisOK(tx)
  PROVE  GenesisOK(draft.tx)'
<1>1. \A k : opens(tx, k) => opens(draft.tx, k)'
  BY Zenon DEF opens
<1>2. QED BY <1>1, Zenon DEF GenesisOK

\* What is said of a transition stays while no output is spent.
LEMMA TransitionKept ==
  ASSUME NEW tx, draft'.tx = tx, utxo' = utxo, TransitionOK(tx)
  PROVE  TransitionOK(draft.tx)'
<1>1. \A entry, m, change : TransitionOf(tx, entry, m, change)
                              => TransitionOf(draft.tx, entry, m, change)'
  BY Zenon DEF TransitionOf
<1>2. QED BY <1>1, Zenon DEF TransitionOK

\* A step of the client on its draft, from what it puts there.
LEMMA DraftMade ==
  ASSUME UNCHANGED <<utxo, accepted>>,
         NEW purpose, NEW inputs, NEW outputs, NEW payload,
         NEW tx, tx = [inputs |-> inputs, outputs |-> outputs, payload |-> payload],
         draft' = Drafted(purpose, tx),
         InputsOK(inputs), SignaturesOK(inputs), PayloadFits(outputs, payload),
         purpose = "genesis" => GenesisOK(tx),
         purpose # "genesis" => TransitionOK(tx)
  PROVE  DraftBuilt'
<1>1. draft' = [purpose |-> purpose, tx |-> tx]
  BY DEF Drafted
<1>2. draft'.purpose = purpose /\ draft'.tx = tx
  BY <1>1
<1>3. tx.inputs = inputs /\ tx.outputs = outputs /\ tx.payload = payload
  OBVIOUS
<1>4. draft' = [purpose |-> draft'.purpose, tx |-> draft'.tx]
      /\ tx = [inputs |-> tx.inputs, outputs |-> tx.outputs, payload |-> tx.payload]
  BY <1>1, <1>2, <1>3
<1>5. InputsOK(draft.tx.inputs)' /\ SignaturesOK(draft.tx.inputs)'
  <2>1. draft'.tx.inputs = inputs
    BY <1>2, <1>3, Zenon
  <2>2. InputsOK(draft.tx.inputs)'
    BY <2>1 DEF InputsOK
  <2>3. SignaturesOK(draft.tx.inputs)'
    BY <2>1, Zenon DEF SignaturesOK
  <2> QED BY <2>2, <2>3
<1>6. PayloadFits(draft.tx.outputs, draft.tx.payload)'
  BY <1>2, <1>3 DEF PayloadFits
<1>7. GenesisOK(tx) => GenesisOK(draft.tx)'
  BY <1>2, GenesisKept, Zenon
<1>8. TransitionOK(tx) => TransitionOK(draft.tx)'
  BY <1>2, TransitionKept, Zenon
<1> QED BY <1>2, <1>4, <1>5, <1>6, <1>7, <1>8 DEF DraftBuilt

\* More funding behind the inputs there are, or the same outpoints with other
\* signature scripts and budgets: what was built stays built.
LEMMA MoreInputs ==
  ASSUME NEW tx, NEW inputs, NEW new, new = with_inputs(tx, inputs),
         tx.inputs \in Seq(Range(tx.inputs)), inputs \in Seq(Range(inputs)),
         Len(tx.inputs) <= Len(inputs),
         \A i \in DOMAIN tx.inputs :
           inputs[i].previous_outpoint = tx.inputs[i].previous_outpoint,
         \A i \in DOMAIN inputs \ DOMAIN tx.inputs : inputs[i].previous_outpoint[1] = 0
  PROVE  /\ GenesisOK(tx) => GenesisOK(new)
         /\ TransitionOK(tx) => TransitionOK(new)
<1>1. new.inputs = inputs /\ new.outputs = tx.outputs
  BY DEF with_inputs
<1>2. /\ DOMAIN tx.inputs = 1 .. Len(tx.inputs) /\ Len(tx.inputs) \in Nat
      /\ DOMAIN inputs = 1 .. Len(inputs) /\ Len(inputs) \in Nat
  OBVIOUS
<1>3. DOMAIN tx.inputs \subseteq DOMAIN inputs
  BY <1>2
<1>4. GenesisOK(tx) => GenesisOK(new)
  <2> SUFFICES ASSUME GenesisOK(tx)
               PROVE  GenesisOK(new)
    OBVIOUS
  <2>1. \A i \in DOMAIN inputs : inputs[i].previous_outpoint[1] = 0
    BY Zenon DEF GenesisOK
  <2>2. ASSUME NEW k \in DOMAIN tx.outputs, tx.outputs[k].covenant_binding # None
        PROVE  /\ tx.outputs[k].covenant_binding.authorizing_input + 1 \in DOMAIN inputs
               /\ opens(new, k)
    <3> DEFINE a == tx.outputs[k].covenant_binding.authorizing_input + 1
               D(t) == {j - 1 : j \in {j \in DOMAIN t.outputs :
                          t.outputs[j].covenant_binding = t.outputs[k].covenant_binding}}
    <3>1. a \in DOMAIN tx.inputs /\ opens(tx, k)
      BY <2>2, Zenon DEF GenesisOK
    <3>2. inputs[a].previous_outpoint = tx.inputs[a].previous_outpoint
      BY <3>1
    <3>3. authorized(new, D(new)) = authorized(tx, D(tx))
      BY <1>1, Zenon DEF authorized
    <3> QED BY <1>1, <1>3, <3>1, <3>2, <3>3, Zenon DEF opens
  <2> QED BY <1>1, <2>1, <2>2 DEF GenesisOK
<1>5. ASSUME NEW entry \in Entry, NEW m \in {1, 2}, NEW change \in BOOLEAN,
             TransitionOf(tx, entry, m, change)
      PROVE  TransitionOf(new, entry, m, change)
  <2>1. m <= Len(inputs) /\ m <= Len(tx.inputs)
    BY <1>2, <1>5 DEF TransitionOf
  <2>2. ASSUME NEW i \in DOMAIN inputs
        PROVE  IF i <= m
                 THEN inputs[i].previous_outpoint \in DOMAIN utxo =>
                        utxo[inputs[i].previous_outpoint] = entry
                 ELSE inputs[i].previous_outpoint[1] = 0
    <3>1. CASE i \in DOMAIN tx.inputs
      BY <3>1, <1>5 DEF TransitionOf
    <3>2. CASE i \notin DOMAIN tx.inputs
      <4>1. ~ (i <= m)
        BY <1>2, <2>1, <3>2
      <4> QED BY <3>2, <4>1
    <3> QED BY <3>1, <3>2, Zenon
  <2> QED BY <1>1, <1>5, <2>1, <2>2, Zenon DEF TransitionOf
<1> QED BY <1>4, <1>5 DEF TransitionOK

\* A genesis as it is built: nothing is bound yet.
LEMMA GenesisBuilt ==
  ASSUME ChainOK, NEW f \in Funding, NEW spec \in CovenantSpec,
         NEW policies \in Locking, BuildGenesis(f, spec, policies)
  PROVE  DraftBuilt'
<1> DEFINE o == Outpoint(0, f)
           inputs == <<TxInput(o)>>
           outputs == [k \in DOMAIN policies |->
                         TxOutput(build_script(spec, policies[k]), None)]
           payload == encode_payload(state_of(spec, Zero, Zero))
           tx == [inputs |-> inputs, outputs |-> outputs, payload |-> payload]
<1>1. draft' = Drafted("genesis", tx) /\ UNCHANGED <<utxo, accepted>>
  BY Zenon DEF BuildGenesis
<1>2. o \in (0 .. Len(accepted)) \X Nat /\ o[1] = 0
  BY Zenon DEF BuildGenesis, ChainOK, Outpoint
<1>3. InputsOK(inputs) /\ SignaturesOK(inputs)
  <2>1. /\ inputs \in Seq(Range(inputs)) /\ DOMAIN inputs = {1}
        /\ inputs[1] = TxInput(o) /\ inputs # <<>>
    <3>1. inputs = [k \in 1 .. 1 |-> inputs[k]]
      OBVIOUS
    <3>2. inputs \in Seq(Range(inputs)) /\ DOMAIN inputs = 1 .. 1
      BY <3>1, FunctionIsSequence, Zenon
    <3> QED BY <3>2
  <2> HIDE DEF inputs, o
  <2> QED BY <1>2, <2>1 DEF InputsOK, SignaturesOK, TxInput
<1>4. PayloadFits(outputs, payload)
  <2>1. \A k \in DOMAIN outputs :
          outputs[k].script_public_key.template = payload
    BY DEF TxOutput, build_script
  <2>2. payload.len = ExpectedPayloadLen
    BY Zenon DEF encode_payload
  <2> HIDE DEF outputs, payload
  <2> QED BY <2>1, <2>2 DEF PayloadFits, payload_admitted
<1>5. GenesisOK(tx)
  <2>1. \A k \in DOMAIN outputs : outputs[k].covenant_binding = None
    BY DEF TxOutput
  <2>2. \A i \in DOMAIN inputs : inputs[i].previous_outpoint[1] = 0
    BY <1>2 DEF TxInput
  <2> HIDE DEF outputs, inputs
  <2> QED BY <2>1, <2>2 DEF GenesisOK
<1> HIDE DEF inputs, outputs, payload
<1> QED BY <1>1, <1>3, <1>4, <1>5, DraftMade

\* The indices in an id are those of the outputs it was computed for.
LEMMA AuthorizedIndices ==
  ASSUME NEW tx, NEW S, NEW T, authorized(tx, S) = authorized(tx, T), NEW x \in S
  PROVE  x \in T
<1> DEFINE r == [index |-> x, script_public_key |-> tx.outputs[x + 1].script_public_key]
<1>1. r \in authorized(tx, T)
  BY DEF authorized
<1>2. PICK y \in T :
        r = [index |-> y, script_public_key |-> tx.outputs[y + 1].script_public_key]
  BY <1>1 DEF authorized
<1>3. r.index = x /\ r.index = y
  BY <1>2, Zenon
<1> QED BY <1>3

\* populate_genesis_covenants: a group is bound to the id of its own outputs and
\* of no others, whatever was bound before and whatever the other groups are.
LEMMA PopulateOpens ==
  ASSUME NEW tx, TxOK(tx), GenesisOK(tx), tx.inputs \in Seq(Range(tx.inputs)),
         NEW groups \in Groups, groups_valid(tx, groups),
         NEW new, new = populate_genesis_covenants(tx, groups)
  PROVE  GenesisOK(new)
<1> DEFINE Of(k) == {g \in Range(groups) : k - 1 \in Range(g.outputs)}
           Same(t, b) == {j \in DOMAIN t.outputs : t.outputs[j].covenant_binding = b}
           indices(t, b) == {j - 1 : j \in Same(t, b)}
           id(t, b, S) == compute_covenant_id(
                            t.inputs[b.authorizing_input + 1].previous_outpoint,
                            authorized(t, S))
<1>1. /\ new.inputs = tx.inputs /\ DOMAIN new.outputs = DOMAIN tx.outputs
      /\ \A k \in DOMAIN tx.outputs :
           /\ new.outputs[k].script_public_key = tx.outputs[k].script_public_key
           /\ new.outputs[k].covenant_binding =
                IF Of(k) = {} THEN tx.outputs[k].covenant_binding
                ELSE group_binding(tx, CHOOSE g \in Of(k) : TRUE)
  BY DEF populate_genesis_covenants, TxOutput
<1>2. /\ DOMAIN tx.outputs = 1 .. Len(tx.outputs) /\ Len(tx.outputs) \in Nat
      /\ DOMAIN tx.inputs = 1 .. Len(tx.inputs) /\ Len(tx.inputs) \in Nat
  BY DEF TxOK
<1>3. groups \in Seq([authorizing_input : Nat, outputs : Seq(Nat)])
  BY ChainAssumption
<1>4. ASSUME NEW g \in Range(groups)
      PROVE  /\ g.authorizing_input + 1 \in DOMAIN tx.inputs
             /\ \A x \in Range(g.outputs) :
                  /\ x \in Nat /\ x + 1 \in DOMAIN tx.outputs /\ (x + 1) - 1 = x
                  /\ tx.outputs[x + 1].covenant_binding = None
  <2>1. PICK n \in DOMAIN groups : g = groups[n]
    BY DEF Range
  <2>2. g.authorizing_input \in Nat /\ g.outputs \in Seq(Nat)
    <3> DEFINE G == [authorizing_input : Nat, outputs : Seq(Nat)]
    <3>1. groups \in Seq(G)
      BY <1>3
    <3> HIDE DEF G
    <3>2. groups[n] \in G
      BY <3>1
    <3> QED BY <2>1, <3>2 DEF G
  <2>3. /\ g.authorizing_input < Len(tx.inputs)
        /\ \A i \in DOMAIN g.outputs :
             /\ g.outputs[i] < Len(tx.outputs)
             /\ tx.outputs[g.outputs[i] + 1].covenant_binding = None
    BY <2>1, Zenon DEF groups_valid
  <2>4. \A i \in DOMAIN g.outputs : g.outputs[i] \in Nat
    BY <2>2
  <2>5. g.authorizing_input + 1 \in DOMAIN tx.inputs
    BY <1>2, <2>2, <2>3
  <2>6. \A x \in Range(g.outputs) :
          x \in Nat /\ x < Len(tx.outputs) /\ tx.outputs[x + 1].covenant_binding = None
    BY <2>3, <2>4 DEF Range
  <2>7. \A x \in Nat : x < Len(tx.outputs) => x + 1 \in 1 .. Len(tx.outputs) /\ (x + 1) - 1 = x
    BY <1>2
  <2> QED BY <1>2, <2>5, <2>6, <2>7, Zenon
<1>5. ASSUME NEW g \in Range(groups), NEW h \in Range(groups),
             NEW x \in Range(g.outputs), x \in Range(h.outputs)
      PROVE  g = h
  <2>1. PICK m \in DOMAIN groups, n \in DOMAIN groups : g = groups[m] /\ h = groups[n]
    BY DEF Range
  <2>2. Range(groups[m].outputs) \cap Range(groups[n].outputs) # {}
    BY <1>5, <2>1
  <2>3. \A i, j \in DOMAIN groups :
          i # j => Range(groups[i].outputs) \cap Range(groups[j].outputs) = {}
    BY Zenon DEF groups_valid
  <2>4. m = n
    BY <2>2, <2>3, Zenon
  <2> QED BY <2>1, <2>4
<1>6. ASSUME NEW k \in DOMAIN tx.outputs, NEW g \in Of(k)
      PROVE  new.outputs[k].covenant_binding = group_binding(tx, g)
  <2>1. (CHOOSE h \in Of(k) : TRUE) \in Of(k)
    BY <1>6
  <2>2. (CHOOSE h \in Of(k) : TRUE) = g
    BY <1>5, <2>1, Zenon
  <2> QED BY <1>1, <2>2
<1>7. ASSUME NEW S, \A x \in S : x + 1 \in DOMAIN tx.outputs
      PROVE  authorized(new, S) = authorized(tx, S)
  BY <1>1, <1>7, Zenon DEF authorized
<1>8. \A g : /\ group_binding(tx, g).authorizing_input = g.authorizing_input
             /\ group_binding(tx, g).covenant_id =
                  id(tx, group_binding(tx, g), Range(g.outputs))
             /\ group_binding(tx, g).covenant_id.authorized_outputs =
                  authorized(tx, Range(g.outputs))
  BY Zenon DEF group_binding, CovenantBinding, compute_covenant_id
<1>9. ASSUME NEW k \in DOMAIN tx.outputs, tx.outputs[k].covenant_binding # None
      PROVE  LET b == tx.outputs[k].covenant_binding
             IN /\ b.authorizing_input + 1 \in DOMAIN tx.inputs
                /\ b.covenant_id = id(tx, b, indices(tx, b))
                /\ b.covenant_id.authorized_outputs = authorized(tx, indices(tx, b))
                /\ k - 1 \in indices(tx, b)
  <2> DEFINE b == tx.outputs[k].covenant_binding
  <2>1. b.authorizing_input + 1 \in DOMAIN tx.inputs /\ opens(tx, k)
    BY <1>9 DEF GenesisOK
  <2>2. b.covenant_id = id(tx, b, indices(tx, b))
    BY <2>1, Zenon DEF opens
  <2>3. b.covenant_id.authorized_outputs = authorized(tx, indices(tx, b))
    <3> HIDE DEF b, indices
    <3> QED BY <2>2 DEF compute_covenant_id
  <2>4. k - 1 \in indices(tx, b)
    <3>1. k \in Same(tx, b)
      BY Zenon
    <3> HIDE DEF Same
    <3> QED BY <3>1
  <2> HIDE DEF b
  <2> QED BY <2>1, <2>2, <2>3, <2>4, Zenon DEF b
<1>10. \A b : \A x \in indices(tx, b) : x + 1 \in DOMAIN tx.outputs
  BY <1>2
<1> SUFFICES ASSUME NEW k \in DOMAIN tx.outputs,
                    NEW b, b = new.outputs[k].covenant_binding, b # None
             PROVE  /\ b.authorizing_input + 1 \in DOMAIN tx.inputs
                    /\ b.covenant_id = id(new, b, indices(new, b))
  <2>1. \A k : LET b == new.outputs[k].covenant_binding
              IN b.covenant_id = id(new, b, indices(new, b)) => opens(new, k)
    BY Zenon DEF opens
  <2>2. \A i \in DOMAIN new.inputs : new.inputs[i].previous_outpoint[1] = 0
    BY <1>1, Zenon DEF GenesisOK
  <2> HIDE DEF id, indices, Of
  <2>3. ASSUME NEW k \in DOMAIN new.outputs, new.outputs[k].covenant_binding # None
        PROVE  /\ new.outputs[k].covenant_binding.authorizing_input + 1
                    \in DOMAIN new.inputs
               /\ opens(new, k)
    <3>1. k \in DOMAIN tx.outputs /\ DOMAIN new.inputs = DOMAIN tx.inputs
      BY <1>1, Zenon
    <3>2. QED BY <2>1, <2>3, <3>1, Zenon
  <2>4. QED BY <2>2, <2>3, Zenon DEF GenesisOK
<1>11. CASE Of(k) # {}
  <2>1. PICK g \in Of(k) : b = group_binding(tx, g)
    BY <1>6, <1>11, Zenon
  <2>2. indices(new, b) \subseteq Range(g.outputs)
    <3> SUFFICES ASSUME NEW j \in DOMAIN tx.outputs,
                        new.outputs[j].covenant_binding = b
                 PROVE  j - 1 \in Range(g.outputs)
      BY <1>1
    <3>1. CASE Of(j) # {}
      <4>1. PICK h \in Of(j) : b = group_binding(tx, h)
        BY <1>6, <3>1, Zenon
      <4>2. authorized(tx, Range(h.outputs)) = authorized(tx, Range(g.outputs))
        BY <1>8, <2>1, <4>1, Zenon
      <4> QED BY <4>1, <4>2, AuthorizedIndices, Zenon
    <3>2. CASE Of(j) = {}
      <4>1. tx.outputs[j].covenant_binding = b
        <5> HIDE DEF indices, id
        <5> QED BY <1>1, <3>2, Zenon
      <4>2. /\ authorized(tx, indices(tx, b)) = authorized(tx, Range(g.outputs))
            /\ j - 1 \in indices(tx, b)
        <5> HIDE DEF indices, id
        <5> QED BY <1>8, <1>9, <2>1, <4>1, Zenon
      <4> HIDE DEF indices
      <4> QED BY <4>2, AuthorizedIndices
    <3> QED BY <3>1, <3>2, Zenon
  <2>3. Range(g.outputs) \subseteq indices(new, b)
    <3> SUFFICES ASSUME NEW x \in Range(g.outputs)
                 PROVE  x \in indices(new, b)
      OBVIOUS
    <3>1. x + 1 \in DOMAIN tx.outputs /\ (x + 1) - 1 = x
      BY <1>4
    <3>2. g \in Of(x + 1)
      BY <3>1
    <3>3. new.outputs[x + 1].covenant_binding = b
      BY <1>6, <2>1, <3>1, <3>2
    <3> QED BY <1>1, <3>1, <3>3
  <2>4. indices(new, b) = Range(g.outputs)
    BY <2>2, <2>3, Zenon
  <2>5. authorized(new, Range(g.outputs)) = authorized(tx, Range(g.outputs))
    BY <1>4, <1>7, Zenon
  <2>6. b.authorizing_input + 1 \in DOMAIN tx.inputs
    BY <1>4, <1>8, <2>1, Zenon
  <2> HIDE DEF indices
  <2> QED BY <1>1, <1>8, <2>1, <2>4, <2>5, <2>6, Zenon
<1>12. CASE Of(k) = {}
  <2>1. tx.outputs[k].covenant_binding = b
    BY <1>1, <1>12, Zenon
  <2>2. /\ b.authorizing_input + 1 \in DOMAIN tx.inputs
        /\ b.covenant_id = id(tx, b, indices(tx, b))
        /\ b.covenant_id.authorized_outputs = authorized(tx, indices(tx, b))
    BY <1>9, <2>1, Zenon
  <2>3. indices(tx, b) \subseteq indices(new, b)
    <3> SUFFICES ASSUME NEW j \in DOMAIN tx.outputs, tx.outputs[j].covenant_binding = b
                 PROVE  new.outputs[j].covenant_binding = b
      BY <1>1
    <3>1. Of(j) = {}
      <4> SUFFICES ASSUME NEW g \in Of(j)
                   PROVE  FALSE
        OBVIOUS
      <4>1. tx.outputs[(j - 1) + 1].covenant_binding = None
        BY <1>4
      <4>2. (j - 1) + 1 = j
        BY <1>2
      <4> QED BY <4>1, <4>2
    <3> QED BY <1>1, <3>1, Zenon
  <2>4. indices(new, b) \subseteq indices(tx, b)
    <3> SUFFICES ASSUME NEW j \in DOMAIN tx.outputs,
                        new.outputs[j].covenant_binding = b
                 PROVE  j - 1 \in indices(tx, b)
      BY <1>1
    <3>1. CASE Of(j) # {}
      <4>1. PICK h \in Of(j) : b = group_binding(tx, h)
        BY <1>6, <3>1, Zenon
      <4>2. authorized(tx, Range(h.outputs)) = authorized(tx, indices(tx, b))
        BY <1>8, <2>2, <4>1, Zenon
      <4> HIDE DEF indices
      <4> QED BY <4>1, <4>2, AuthorizedIndices, Zenon
    <3>2. CASE Of(j) = {}
      BY <1>1, <3>2, Zenon
    <3> QED BY <3>1, <3>2, Zenon
  <2>5. indices(new, b) = indices(tx, b)
    BY <2>3, <2>4, Zenon
  <2>6. authorized(new, indices(tx, b)) = authorized(tx, indices(tx, b))
    <3> HIDE DEF indices
    <3> QED BY <1>7, <1>10
  <2> HIDE DEF indices
  <2> QED BY <1>1, <2>2, <2>5, <2>6, Zenon
<1> QED BY <1>11, <1>12, Zenon

\* A genesis after its groups are bound.
LEMMA PopulatedBuilt ==
  ASSUME DraftOK, DraftBuilt, NEW groups \in Groups, PopulateGenesis(groups)
  PROVE  DraftBuilt'
<1> DEFINE tx == draft.tx
           new == populate_genesis_covenants(tx, groups)
<1>1. draft # NoDraft /\ draft.purpose = "genesis"
  BY DEF PopulateGenesis, NoDraft
<1>2. /\ draft' = Drafted("genesis", new) /\ UNCHANGED <<utxo, accepted>>
      /\ groups_valid(tx, groups)
  BY DEF PopulateGenesis
<1>3. /\ TxOK(tx) /\ InputsOK(tx.inputs) /\ SignaturesOK(tx.inputs)
      /\ PayloadFits(tx.outputs, tx.payload) /\ GenesisOK(tx)
  BY <1>1, Zenon DEF DraftOK, DraftBuilt
<1>4. /\ new = [inputs |-> tx.inputs, outputs |-> new.outputs, payload |-> tx.payload]
      /\ DOMAIN new.outputs = DOMAIN tx.outputs
      /\ \A k \in DOMAIN tx.outputs :
           new.outputs[k].script_public_key = tx.outputs[k].script_public_key
  BY Zenon DEF populate_genesis_covenants, TxOutput
<1>5. GenesisOK(new)
  BY <1>2, <1>3, PopulateOpens, Zenon DEF InputsOK
<1> HIDE DEF new, tx
<1>6. PayloadFits(new.outputs, tx.payload)
  BY <1>3, <1>4 DEF PayloadFits
<1> QED BY <1>2, <1>3, <1>4, <1>5, <1>6, DraftMade

\* The outputs of build_transition_outputs.
LEMMA TransitionOutputs ==
  ASSUME NEW spk, NEW id, NEW change \in BOOLEAN,
         NEW outputs, outputs = build_transition_outputs(spk, id, change)
  PROVE  /\ DOMAIN outputs = IF change THEN {1, 2} ELSE {1}
         /\ Len(outputs) = IF change THEN 2 ELSE 1
         /\ outputs[1].script_public_key = spk
         /\ outputs[1].covenant_binding = CovenantBinding(0, id)
         /\ change => outputs[2].script_public_key = Wallet
                      /\ outputs[2].covenant_binding = None
<1>1. CASE change
  BY <1>1 DEF build_transition_outputs, TxOutput
<1>2. CASE ~ change
  BY <1>2 DEF build_transition_outputs, TxOutput
<1> QED BY <1>1, <1>2

\* Advancing the state that a script admitted gives a payload it admits.
LEMMA AdvancedFits ==
  ASSUME NEW script \in Scripts, NEW payload,
         payload_admitted(script.template, payload), NEW digest, NEW marker
  PROVE  payload_admitted(script.template,
           encode_payload(advance(decode_payload(payload), digest, marker)))
<1>1. PICK spec \in CovenantSpec :
        script.template = encode_payload(state_of(spec, Zero, Zero))
  BY DEF Scripts, build_script
<1> DEFINE template == script.template
           state == decode_payload(payload)
           next == advance(state, digest, marker)
           new == encode_payload(next)
<1>2. /\ template.prefix = <<PayloadTag, EncodingVersion, spec.chain_id>>
      /\ template.policy_mode = <<spec.receipt_policy, spec.genesis_proof_mode>>
  <2>1. LET of == encode_payload(state_of(spec, Zero, Zero))
        IN /\ of.prefix = <<PayloadTag, EncodingVersion, spec.chain_id>>
           /\ of.policy_mode = <<spec.receipt_policy, spec.genesis_proof_mode>>
    BY Zenon DEF encode_payload, state_of
  <2>2. QED BY <1>1, <2>1, Zenon
<1>3. /\ next.version = payload.prefix[2] /\ next.chain_id = payload.prefix[3]
      /\ next.lineage_id = payload.lineage /\ next.asset_id = payload.contract
      /\ next.receipt_policy = payload.policy_mode[1]
      /\ next.genesis_proof_mode = payload.policy_mode[2]
  BY Zenon DEF advance, decode_payload
<1> HIDE DEF next
<1>4. /\ new.len = ExpectedPayloadLen
      /\ new.prefix = <<PayloadTag, next.version, next.chain_id>>
      /\ new.lineage = next.lineage_id /\ new.contract = next.asset_id
      /\ new.policy_mode = <<next.receipt_policy, next.genesis_proof_mode>>
  BY Zenon DEF encode_payload
<1> HIDE DEF new, template
<1>5. /\ payload.prefix = template.prefix /\ payload.policy_mode = template.policy_mode
      /\ payload.lineage = template.lineage /\ payload.contract = template.contract
  BY Zenon DEF payload_admitted, template
<1>6. new.prefix = template.prefix /\ new.policy_mode = template.policy_mode
  BY <1>2, <1>3, <1>4, <1>5
<1> QED BY <1>3, <1>4, <1>5, <1>6, Zenon DEF payload_admitted, new, next, template

\* A transition as it is built.
LEMMA TransitionBuilt ==
  ASSUME Inv, ChainBuilt, NEW open \in LockedInputs, NEW digest, NEW marker,
         NEW change \in BOOLEAN, BuildTransition(open, digest, marker, change)
  PROVE  DraftBuilt'
<1> DEFINE entry == utxo[open[1]]
           spk == entry.script_public_key
           old == payload_at(open[1])
           m == Len(open)
           inputs == [i \in DOMAIN open |-> TxInput(open[i])]
           outputs == build_transition_outputs(spk, entry.covenant_id, change)
           payload == encode_payload(advance(decode_payload(old), digest, marker))
           tx == [inputs |-> inputs, outputs |-> outputs, payload |-> payload]
<1>1. /\ draft' = Drafted("transition", tx) /\ UNCHANGED <<utxo, accepted>>
      /\ \A i, j \in DOMAIN open : open[i] = open[j] => i = j
      /\ \A i \in DOMAIN open : utxo[open[i]] = entry
      /\ entry.covenant_id # None /\ spk # Wallet
      /\ builder_fits(spk.policy, m, change)
  BY Zenon DEF BuildTransition, build_transition_spend
<1>2. /\ m \in {1, 2} /\ DOMAIN open = 1 .. m
      /\ \A i \in DOMAIN open : open[i] \in DOMAIN utxo
  <2>1. CASE \E o \in Locked : open = <<o>>
    BY <2>1 DEF Locked
  <2>2. CASE open \in Locked \X Locked
    <3>1. PICK o \in Locked, q \in Locked : open = <<o, q>>
      BY <2>2
    <3> QED BY <3>1 DEF Locked
  <2> QED BY <2>1, <2>2 DEF LockedInputs
<1>3. /\ entry \in Entry /\ spk \in Scripts
      /\ payload_admitted(spk.template, old)
  <2>1. open[1] \in DOMAIN utxo
    BY <1>2
  <2>2. entry \in Entry
    BY <2>1 DEF Inv, ChainOK
  <2> QED BY <1>1, <2>1, <2>2, Zenon DEF Entry, ScriptPublicKey, ChainBuilt
<1>4. /\ inputs \in Seq(Range(inputs)) /\ DOMAIN inputs = 1 .. m /\ Len(inputs) = m
      /\ \A i \in DOMAIN inputs : inputs[i] = TxInput(open[i])
  <2>1. m \in Nat /\ inputs = [i \in 1 .. m |-> inputs[i]]
    BY <1>2
  <2>2. \A i \in DOMAIN inputs : inputs[i] = TxInput(open[i])
    BY Zenon
  <2> HIDE DEF inputs, m
  <2> QED BY <2>1, <2>2, FunctionIsSequence, Zenon
<1> HIDE DEF inputs, outputs, payload, spk, entry, m, old
<1>5. InputsOK(inputs) /\ SignaturesOK(inputs)
  <2>1. \A i \in DOMAIN inputs :
          /\ inputs[i].previous_outpoint = open[i]
          /\ inputs[i].signature_script = None
          /\ inputs[i] = [previous_outpoint |-> inputs[i].previous_outpoint,
                          signature_script |-> inputs[i].signature_script,
                          compute_budget |-> inputs[i].compute_budget]
          /\ open[i] \in (0 .. Len(accepted)) \X Nat
    <3>1. \A o \in DOMAIN utxo : o \in (0 .. Len(accepted)) \X Nat
      BY DEF Inv, ChainOK
    <3>2. \A i \in DOMAIN inputs : i \in DOMAIN open /\ inputs[i] = TxInput(open[i])
      BY <1>2, <1>4, Zenon
    <3>3. \A x : /\ TxInput(x).previous_outpoint = x
                 /\ TxInput(x).signature_script = None
                 /\ TxInput(x) = [previous_outpoint |-> TxInput(x).previous_outpoint,
                                  signature_script |-> TxInput(x).signature_script,
                                  compute_budget |-> TxInput(x).compute_budget]
      BY Zenon DEF TxInput
    <3> TAKE i \in DOMAIN inputs
    <3>4. inputs[i] = TxInput(open[i]) /\ open[i] \in (0 .. Len(accepted)) \X Nat
      BY <1>2, <3>1, <3>2, Zenon
    <3> QED BY <3>3, <3>4, Zenon
  <2>2. inputs # <<>>
    BY <1>2, <1>4
  <2>3. \A i, j \in DOMAIN inputs :
          inputs[i].previous_outpoint = inputs[j].previous_outpoint => i = j
    <3>1. \A i, j \in DOMAIN open : open[i] = open[j] => i = j
      BY <1>1, Zenon
    <3>2. DOMAIN inputs = DOMAIN open
      BY <1>2, <1>4, Zenon
    <3>3. \A i \in DOMAIN open : inputs[i].previous_outpoint = open[i]
      BY <2>1, <3>2, Zenon
    <3> HIDE DEF inputs
    <3>4. QED BY <3>1, <3>2, <3>3
  <2>4. InputsOK(inputs)
    BY <1>4, <2>1, <2>2, <2>3, Zenon DEF InputsOK
  <2>5. SignaturesOK(inputs)
    BY <2>1, Zenon DEF SignaturesOK
  <2> QED BY <2>4, <2>5
<1>6. PayloadFits(outputs, payload)
  <2>1. payload_admitted(spk.template, payload)
    BY <1>3, AdvancedFits DEF payload
  <2>2. \A k \in DOMAIN outputs : outputs[k].script_public_key \in {spk, Wallet}
    BY TransitionOutputs DEF outputs
  <2> QED BY <2>1, <2>2 DEF PayloadFits
<1>7. TransitionOK(tx)
  <2>1. \A i \in DOMAIN inputs : i <= m /\ utxo[inputs[i].previous_outpoint] = entry
    <3>1. \A x : TxInput(x).previous_outpoint = x
      BY Zenon DEF TxInput
    <3> TAKE i \in DOMAIN inputs
    <3>2. inputs[i].previous_outpoint = open[i]
      BY <1>4, <3>1, Zenon
    <3>3. i \in 1 .. m
      BY <1>4, Zenon
    <3>4. utxo[open[i]] = entry
      BY <1>1, <1>2, <1>4, <3>3, Zenon
    <3> QED BY <1>2, <3>2, <3>3, <3>4
  <2>2. m <= Len(tx.inputs) /\ tx.inputs = inputs /\ tx.outputs = outputs
    BY <1>2, <1>4
  <2>3. TransitionOf(tx, entry, m, change)
    BY <1>1, <1>3, <2>1, <2>2, Zenon DEF TransitionOf, outputs, spk
  <2> QED BY <1>2, <1>3, <2>3, Zenon DEF TransitionOK
<1> QED BY <1>1, <1>5, <1>6, <1>7, DraftMade, Zenon

\* A draft that keeps its outputs and payload and the outpoints it spends.
LEMMA DraftRefit ==
  ASSUME DraftBuilt, draft # NoDraft, UNCHANGED <<utxo, accepted>>, NEW inputs,
         draft' = Drafted(draft.purpose, with_inputs(draft.tx, inputs)),
         InputsOK(inputs), SignaturesOK(inputs),
         Len(draft.tx.inputs) <= Len(inputs),
         \A i \in DOMAIN draft.tx.inputs :
           inputs[i].previous_outpoint = draft.tx.inputs[i].previous_outpoint,
         \A i \in DOMAIN inputs \ DOMAIN draft.tx.inputs :
           inputs[i].previous_outpoint[1] = 0
  PROVE  DraftBuilt'
<1> DEFINE tx == draft.tx
           new == with_inputs(tx, inputs)
<1>1. new = [inputs |-> inputs, outputs |-> tx.outputs, payload |-> tx.payload]
  BY DEF with_inputs
<1>2. /\ InputsOK(tx.inputs) /\ PayloadFits(tx.outputs, tx.payload)
      /\ draft.purpose = "genesis" => GenesisOK(tx)
      /\ draft.purpose # "genesis" => TransitionOK(tx)
  BY Zenon DEF DraftBuilt
<1>3. /\ GenesisOK(tx) => GenesisOK(new)
      /\ TransitionOK(tx) => TransitionOK(new)
  BY <1>2, MoreInputs, Zenon DEF InputsOK
<1> HIDE DEF tx, new
<1>4. draft' = Drafted(draft.purpose, new)
  BY Zenon DEF new, tx
<1> QED BY <1>1, <1>2, <1>3, <1>4, DraftMade, Zenon

\* Funding is appended that is not spent yet.
LEMMA FeeBuilt ==
  ASSUME Inv, DraftBuilt, NEW f, AddFeeInput(f)
  PROVE  DraftBuilt'
<1> DEFINE old == draft.tx.inputs
           o == Outpoint(0, f)
           e == TxInput(o)
           inputs == Append(old, e)
           n == Len(old)
<1>1. /\ draft # NoDraft /\ UNCHANGED <<utxo, accepted>>
      /\ draft' = Drafted(draft.purpose, with_inputs(draft.tx, inputs))
      /\ o \in DOMAIN utxo /\ \A i \in DOMAIN old : old[i].previous_outpoint # o
  BY Zenon DEF AddFeeInput, Spent
<1>2. InputsOK(old) /\ SignaturesOK(old)
  BY <1>1, Zenon DEF DraftBuilt
<1>3. o \in (0 .. Len(accepted)) \X Nat /\ o[1] = 0
  BY <1>1 DEF Inv, ChainOK, Outpoint
<1>4. /\ e = [previous_outpoint |-> e.previous_outpoint,
              signature_script |-> e.signature_script,
              compute_budget |-> e.compute_budget]
      /\ e.previous_outpoint = o /\ e.signature_script = None
  BY DEF TxInput
<1> HIDE DEF e, o
<1>5. /\ inputs \in Seq(Range(inputs)) /\ Len(inputs) = n + 1 /\ inputs[n + 1] = e
      /\ \A i \in 1 .. n : inputs[i] = old[i]
      /\ n \in Nat
  <2>1. old \in Seq(Range(old))
    BY <1>2, Zenon DEF InputsOK
  <2>2. QED BY <2>1, AppendIsSequence
<1>6. DOMAIN inputs = 1 .. n + 1 /\ DOMAIN old = 1 .. n
  <2>1. old \in Seq(Range(old))
    BY <1>2, Zenon DEF InputsOK
  <2>2. QED BY <1>5, <2>1
<1> HIDE DEF n, inputs
<1>7. \A i \in DOMAIN inputs :
        \/ i \in DOMAIN old /\ inputs[i] = old[i]
        \/ i = n + 1 /\ inputs[i] = e
  <2> TAKE i \in DOMAIN inputs
  <2>1. i \in 1 .. n \/ i = n + 1
    <3>1. i \in 1 .. n + 1
      BY <1>6, Zenon
    <3>2. n \in Nat
      BY <1>5
    <3> QED BY <3>1, <3>2
  <2>2. CASE i \in 1 .. n
    <3>1. i \in DOMAIN old
      BY <1>6, <2>2
    <3>2. inputs[i] = old[i]
      BY <1>5, <2>2
    <3> QED BY <3>1, <3>2, Zenon
  <2>3. CASE i = n + 1
    <3>1. inputs[n + 1] = e
      BY <1>5
    <3> QED BY <2>3, <3>1
  <2> QED BY <2>1, <2>2, <2>3
<1>8. inputs # <<>>
  BY <1>5, <1>6
<1>9. InputsOK(inputs)
  <2>1. ASSUME NEW i \in DOMAIN inputs
        PROVE  /\ inputs[i] = [previous_outpoint |-> inputs[i].previous_outpoint,
                               signature_script |-> inputs[i].signature_script,
                               compute_budget |-> inputs[i].compute_budget]
               /\ inputs[i].previous_outpoint \in (0 .. Len(accepted)) \X Nat
    BY <1>2, <1>3, <1>4, <1>7, Zenon DEF InputsOK
  <2>2. ASSUME NEW i \in DOMAIN inputs, NEW j \in DOMAIN inputs,
               inputs[i].previous_outpoint = inputs[j].previous_outpoint
        PROVE  i = j
    <3> DEFINE OldAt(k) == k \in DOMAIN old /\ inputs[k] = old[k]
               NewAt(k) == k = n + 1 /\ inputs[k] = e
    <3>1. CASE OldAt(i) /\ OldAt(j)
      BY <1>2, <2>2, <3>1 DEF InputsOK
    <3>2. CASE OldAt(i) /\ NewAt(j)
      BY <1>1, <1>4, <2>2, <3>2, Zenon
    <3>3. CASE NewAt(i) /\ OldAt(j)
      BY <1>1, <1>4, <2>2, <3>3, Zenon
    <3>4. CASE NewAt(i) /\ NewAt(j)
      BY <3>4, Zenon
    <3>5. (OldAt(i) \/ NewAt(i)) /\ (OldAt(j) \/ NewAt(j))
      BY <1>7, Zenon
    <3> HIDE DEF OldAt, NewAt
    <3> QED BY <3>1, <3>2, <3>3, <3>4, <3>5, Zenon
  <2> QED BY <1>5, <1>8, <2>1, <2>2, Zenon DEF InputsOK
<1>10. SignaturesOK(inputs)
  BY <1>2, <1>4, <1>7 DEF SignaturesOK
<1>11. /\ n <= Len(inputs)
       /\ \A i \in DOMAIN old : inputs[i].previous_outpoint = old[i].previous_outpoint
       /\ \A i \in DOMAIN inputs \ DOMAIN old : inputs[i].previous_outpoint[1] = 0
  BY <1>3, <1>4, <1>5, <1>6, <1>7
<1> QED BY <1>1, <1>9, <1>10, <1>11, DraftRefit, Zenon DEF n

\* Filling in signature scripts and budgets.
LEMMA FinishBuilt ==
  ASSUME DraftBuilt, draft # NoDraft, UNCHANGED <<utxo, accepted>>, NEW inputs,
         Finish(inputs),
         inputs = [i \in DOMAIN draft.tx.inputs |-> inputs[i]],
         \A i \in DOMAIN draft.tx.inputs :
           /\ inputs[i].previous_outpoint = draft.tx.inputs[i].previous_outpoint
           /\ inputs[i] = [previous_outpoint |-> inputs[i].previous_outpoint,
                           signature_script |-> inputs[i].signature_script,
                           compute_budget |-> inputs[i].compute_budget],
         SignaturesOK(inputs)
  PROVE  DraftBuilt'
<1> DEFINE old == draft.tx.inputs
           n == Len(old)
<1>1. InputsOK(old)
  BY DEF DraftBuilt
<1>2. n \in Nat /\ DOMAIN old = 1 .. n /\ DOMAIN inputs = DOMAIN old
  BY <1>1 DEF InputsOK
<1>3. inputs \in Seq(Range(inputs)) /\ Len(inputs) = n
  <2>1. inputs = [i \in 1 .. n |-> inputs[i]]
    BY <1>2
  <2> HIDE DEF n
  <2> QED BY <1>2, <2>1, FunctionIsSequence
<1>4. inputs # <<>>
  <2>1. n # 0
    BY <1>1 DEF InputsOK
  <2> QED BY <1>2, <1>3, <2>1, Zenon
<1>5. InputsOK(inputs)
  <2>1. /\ \A i \in DOMAIN old : old[i].previous_outpoint \in (0 .. Len(accepted)) \X Nat
        /\ \A i, j \in DOMAIN old :
             old[i].previous_outpoint = old[j].previous_outpoint => i = j
    BY <1>1, Zenon DEF InputsOK
  <2>2. \A i \in DOMAIN inputs :
          /\ inputs[i].previous_outpoint = old[i].previous_outpoint
          /\ inputs[i] = [previous_outpoint |-> inputs[i].previous_outpoint,
                          signature_script |-> inputs[i].signature_script,
                          compute_budget |-> inputs[i].compute_budget]
    BY <1>2, Zenon
  <2>3. \A i, j \in DOMAIN inputs :
          inputs[i].previous_outpoint = inputs[j].previous_outpoint => i = j
    BY <1>2, <2>1, <2>2, Zenon
  <2>4. \A i \in DOMAIN inputs :
          inputs[i].previous_outpoint \in (0 .. Len(accepted)) \X Nat
    <3> TAKE i \in DOMAIN inputs
    <3> QED BY <1>2, <2>1, <2>2, Zenon
  <2> QED BY <1>3, <1>4, <2>2, <2>3, <2>4, Zenon DEF InputsOK
<1>6. draft' = Drafted(draft.purpose, with_inputs(draft.tx, inputs))
  BY DEF Finish
<1>7. n <= Len(inputs)
  BY <1>2, <1>3
<1> QED BY <1>2, <1>5, <1>6, <1>7, DraftRefit, Zenon

\* A signature is made over the draft as it is.
LEMMA SignedBuilt ==
  ASSUME DraftBuilt, NEW i, NEW t \in HashType, Sign(i, t)
  PROVE  DraftBuilt'
<1> DEFINE tx == draft.tx
           entry == spent_by(tx)[i]
           signature == [hash_type |-> t, consent |-> txid(tx),
                         hash |-> schnorr_signature_hash(tx, i, entry, t)]
           new == [tx.inputs EXCEPT ![i].signature_script = signature]
<1>1. /\ draft # NoDraft /\ UNCHANGED <<utxo, accepted>> /\ Finish(new)
      /\ i \in DOMAIN tx.inputs /\ entry.script_public_key = Wallet
  BY DEF Sign
<1>2. InputsOK(tx.inputs) /\ SignaturesOK(tx.inputs)
  BY <1>1, Zenon DEF DraftBuilt
<1>3. utxo[tx.inputs[i].previous_outpoint].script_public_key = Wallet
  BY <1>1, Zenon DEF spent_by
<1>4. HashOfConsent(signature, i)
  <2> DEFINE consent == txid(tx)
             hash == schnorr_signature_hash(tx, i, entry, t)
  <2>1. t \in SigHashType
    BY ChainAssumption
  <2>2. /\ consent.payload = tx.payload /\ consent.outputs = tx.outputs
        /\ consent.inputs = outpoints(tx)
    BY Zenon DEF txid
  <2>3. /\ hash.payload = tx.payload
        /\ hash.previous_outputs = IF t.anyone_can_pay THEN <<>> ELSE outpoints(tx)
        /\ hash.outputs = sighash_outputs(tx, i, t)
    BY Zenon DEF schnorr_signature_hash
  <2>4. /\ t.outputs = "all" => sighash_outputs(tx, i, t) = tx.outputs
        /\ t.outputs = "single" =>
             sighash_outputs(tx, i, t) =
               IF i \in DOMAIN tx.outputs THEN <<tx.outputs[i]>> ELSE <<>>
    BY DEF sighash_outputs
  <2> HIDE DEF consent, hash
  <2>5. /\ signature.consent = consent /\ signature.hash = hash
        /\ signature.hash_type = t
    BY DEF consent, hash
  <2> HIDE DEF signature
  <2> QED BY <2>1, <2>2, <2>3, <2>4, <2>5 DEF HashOfConsent
<1> HIDE DEF signature
<1>5. /\ new = [j \in DOMAIN tx.inputs |-> new[j]]
      /\ \A j \in DOMAIN tx.inputs : j # i => new[j] = tx.inputs[j]
      /\ new[i] = [tx.inputs[i] EXCEPT !.signature_script = signature]
  BY <1>1
<1>6. \A j \in DOMAIN tx.inputs :
        /\ new[j].previous_outpoint = tx.inputs[j].previous_outpoint
        /\ new[j] = [previous_outpoint |-> new[j].previous_outpoint,
                     signature_script |-> new[j].signature_script,
                     compute_budget |-> new[j].compute_budget]
  <2> HIDE DEF new
  <2>1. \A j \in DOMAIN tx.inputs :
          tx.inputs[j] = [previous_outpoint |-> tx.inputs[j].previous_outpoint,
                          signature_script |-> tx.inputs[j].signature_script,
                          compute_budget |-> tx.inputs[j].compute_budget]
    BY <1>2 DEF InputsOK
  <2>2. new[i] = [previous_outpoint |-> tx.inputs[i].previous_outpoint,
                  signature_script |-> signature,
                  compute_budget |-> tx.inputs[i].compute_budget]
    BY <1>1, <1>5, <2>1, Zenon
  <2> QED BY <1>5, <2>1, <2>2, Zenon
<1>7. SignaturesOK(new)
  <2>1. new[i].signature_script = signature
    <3> HIDE DEF new
    <3>1. tx.inputs[i] = [previous_outpoint |-> tx.inputs[i].previous_outpoint,
                          signature_script |-> tx.inputs[i].signature_script,
                          compute_budget |-> tx.inputs[i].compute_budget]
      BY <1>1, <1>2 DEF InputsOK
    <3> QED BY <1>5, <3>1
  <2>2. DOMAIN new = DOMAIN tx.inputs
    BY Zenon
  <2> HIDE DEF new
  <2>3. ASSUME NEW j \in DOMAIN new, new[j].signature_script # None
        PROVE  /\ HashOfConsent(new[j].signature_script, j)
               /\ new[j].previous_outpoint \in DOMAIN utxo =>
                    utxo[new[j].previous_outpoint].script_public_key = Wallet
    <3>1. CASE j = i
      BY <1>1, <1>3, <1>4, <1>6, <2>1, <3>1, Zenon
    <3>2. CASE j # i
      BY <1>2, <1>5, <2>2, <2>3, <3>2, Zenon DEF SignaturesOK
    <3> QED BY <3>1, <3>2, Zenon
  <2> QED BY <2>3 DEF SignaturesOK
<1> HIDE DEF new
<1> QED BY <1>1, <1>5, <1>6, <1>7, FinishBuilt

\* Budgets are no part of what is signed.
LEMMA BudgetBuilt ==
  ASSUME DraftBuilt, SetComputeBudget
  PROVE  DraftBuilt'
<1> DEFINE old == draft.tx.inputs
           new == [i \in DOMAIN old |-> [old[i] EXCEPT !.compute_budget = 1]]
<1>1. draft # NoDraft /\ UNCHANGED <<utxo, accepted>> /\ Finish(new)
  BY DEF SetComputeBudget
<1>2. InputsOK(old) /\ SignaturesOK(old)
  BY <1>1, Zenon DEF DraftBuilt
<1>3. \A i \in DOMAIN old :
        new[i] = [previous_outpoint |-> old[i].previous_outpoint,
                  signature_script |-> old[i].signature_script,
                  compute_budget |-> 1]
  <2> TAKE i \in DOMAIN old
  <2>1. old[i] = [previous_outpoint |-> old[i].previous_outpoint,
                  signature_script |-> old[i].signature_script,
                  compute_budget |-> old[i].compute_budget]
    BY <1>2 DEF InputsOK
  <2>2. new[i] = [old[i] EXCEPT !.compute_budget = 1]
    OBVIOUS
  <2> DEFINE x == old[i]
             y == new[i]
  <2> HIDE DEF new, x, y
  <2>3. /\ y = [x EXCEPT !.compute_budget = 1]
        /\ x = [previous_outpoint |-> x.previous_outpoint,
                signature_script |-> x.signature_script,
                compute_budget |-> x.compute_budget]
    BY <2>1, <2>2 DEF x, y
  <2>4. y = [previous_outpoint |-> x.previous_outpoint,
             signature_script |-> x.signature_script, compute_budget |-> 1]
    BY <2>3
  <2> QED BY <2>4 DEF x, y
<1>4. new = [i \in DOMAIN old |-> new[i]] /\ DOMAIN new = DOMAIN old
  BY Zenon
<1> HIDE DEF new
<1>5. \A i \in DOMAIN old :
        /\ new[i].previous_outpoint = old[i].previous_outpoint
        /\ new[i].signature_script = old[i].signature_script
        /\ new[i] = [previous_outpoint |-> new[i].previous_outpoint,
                     signature_script |-> new[i].signature_script,
                     compute_budget |-> new[i].compute_budget]
  <2> TAKE i \in DOMAIN old
  <2> DEFINE y == new[i]
  <2>1. y = [previous_outpoint |-> old[i].previous_outpoint,
             signature_script |-> old[i].signature_script, compute_budget |-> 1]
    BY <1>3
  <2> HIDE DEF y
  <2>2. /\ y.previous_outpoint = old[i].previous_outpoint
        /\ y.signature_script = old[i].signature_script
        /\ y.compute_budget = 1
    BY <2>1, Zenon
  <2> QED BY <2>1, <2>2, Zenon DEF y
<1>6. SignaturesOK(new)
  BY <1>2, <1>4, <1>5, Zenon DEF SignaturesOK
<1> QED BY <1>1, <1>4, <1>5, <1>6, FinishBuilt

\* What others lock an output with is the wallet or a script they spend.
LEMMA OtherOutputLocks ==
  ASSUME NEW inputs, NEW k, NEW c \in OtherOutput(inputs, k)
  PROVE  c.script_public_key \in OtherSpk(inputs)
<1>1. \E spk \in OtherSpk(inputs) : \E binding : c = TxOutput(spk, binding)
  BY DEF OtherOutput
<1> QED BY <1>1 DEF TxOutput

\* An accepted transaction of others.
LEMMA OthersBuilt ==
  ASSUME Inv, BuildInv, NEW inputs \in LockedInputs, NEW outputs, NEW payload,
         \A k \in DOMAIN outputs : outputs[k].script_public_key \in OtherSpk(inputs),
         TxOK(OtherTx(inputs, outputs, payload)),
         OtherSpends(inputs, outputs, payload)
  PROVE  BuildInv'
<1> DEFINE tx == OtherTx(inputs, outputs, payload)
<1>1. Accept(tx) /\ UNCHANGED draft
  BY DEF OtherSpends
<1>2. admitted(tx)
  BY <1>1, Zenon DEF Accept
<1>3. PayloadFits(outputs, payload)
  BY <1>2, OthersFit
<1>4. tx.outputs = outputs /\ tx.payload = payload
  BY DEF OtherTx
<1> HIDE DEF tx
<1>5. TxOK(tx)
  BY DEF tx
<1>6. PayloadFits(tx.outputs, tx.payload)
  BY <1>3, <1>4
<1>7. ChainBuilt'
  BY <1>1, <1>5, <1>6, AcceptBuilt DEF BuildInv
<1>8. DraftBuilt'
  BY <1>1, <1>5, DraftStays DEF BuildInv
<1> QED BY <1>7, <1>8 DEF BuildInv

\* A step of the client on its draft.
LEMMA DraftOnly ==
  ASSUME BuildInv, UNCHANGED <<utxo, accepted>>, DraftBuilt'
  PROVE  BuildInv'
<1>1. ChainBuilt'
  BY DEF BuildInv, ChainBuilt, payload_at
<1> QED BY <1>1 DEF BuildInv

\* Every step keeps the drafts as the builders build them.
LEMMA BuildStep ==
  ASSUME Inv, BuildInv, [Next]_vars
  PROVE  BuildInv'
<1>1. ASSUME NEW f \in Funding, NEW s \in CovenantSpec, NEW policies \in Locking,
             BuildGenesis(f, s, policies)
      PROVE  BuildInv'
  <2>1. DraftBuilt'
    BY <1>1, GenesisBuilt DEF Inv
  <2> QED BY <1>1, <2>1, DraftOnly DEF BuildGenesis
<1>2. ASSUME NEW groups \in Groups, PopulateGenesis(groups)
      PROVE  BuildInv'
  <2>1. DraftBuilt'
    BY <1>2, PopulatedBuilt, Zenon DEF Inv, BuildInv
  <2> QED BY <1>2, <2>1, DraftOnly DEF PopulateGenesis
<1>3. ASSUME NEW open \in LockedInputs, NEW d \in Digest, NEW m \in Marker,
             NEW change \in BOOLEAN, BuildTransition(open, d, m, change)
      PROVE  BuildInv'
  <2>1. DraftBuilt'
    BY <1>3, TransitionBuilt DEF BuildInv
  <2> QED BY <1>3, <2>1, DraftOnly, Zenon DEF BuildTransition
<1>4. ASSUME NEW f \in Funding, AddFeeInput(f)
      PROVE  BuildInv'
  <2>1. DraftBuilt'
    BY <1>4, FeeBuilt DEF BuildInv
  <2> QED BY <1>4, <2>1, DraftOnly DEF AddFeeInput
<1>5. ASSUME NEW i, NEW t \in HashType, Sign(i, t)
      PROVE  BuildInv'
  <2>1. DraftBuilt'
    BY <1>5, SignedBuilt DEF BuildInv
  <2> QED BY <1>5, <2>1, DraftOnly DEF Sign
<1>6. CASE SetComputeBudget
  <2>1. DraftBuilt'
    BY <1>6, BudgetBuilt DEF BuildInv
  <2> QED BY <1>6, <2>1, DraftOnly DEF SetComputeBudget
<1>7. CASE Submit
  <2>1. /\ TxOK(draft.tx) /\ Accept(draft.tx)
        /\ PayloadFits(draft.tx.outputs, draft.tx.payload)
    BY <1>7 DEF Submit, Inv, DraftOK, BuildInv, DraftBuilt
  <2>2. ChainBuilt'
    BY <2>1, AcceptBuilt DEF BuildInv
  <2>3. DraftBuilt'
    BY <1>7 DEF Submit, DraftBuilt, NoDraft
  <2> QED BY <2>2, <2>3 DEF BuildInv
<1>8. CASE Abandon
  <2>1. DraftBuilt'
    BY <1>8 DEF Abandon, DraftBuilt, NoDraft
  <2> QED BY <1>8, <2>1, DraftOnly, Zenon DEF Abandon
<1>9. ASSUME NEW inputs \in LockedInputs, NEW payload \in OtherPayload,
             NEW a \in OtherOutput(inputs, 1), OtherSpends(inputs, <<a>>, payload)
      PROVE  BuildInv'
  <2>1. TxOK(OtherTx(inputs, <<a>>, payload))
    BY OtherOneTyped DEF Inv
  <2>2. \A k \in DOMAIN <<a>> : <<a>>[k].script_public_key \in OtherSpk(inputs)
    BY OtherOutputLocks
  <2> QED BY <1>9, <2>1, <2>2, OthersBuilt
<1>10. ASSUME NEW inputs \in LockedInputs, NEW payload \in OtherPayload,
              NEW a \in OtherOutput(inputs, 1), NEW b \in OtherOutput(inputs, 2),
              OtherSpends(inputs, <<a, b>>, payload)
       PROVE  BuildInv'
  <2>1. TxOK(OtherTx(inputs, <<a, b>>, payload))
    BY OtherTwoTyped DEF Inv
  <2>2. \A k \in DOMAIN <<a, b>> : <<a, b>>[k].script_public_key \in OtherSpk(inputs)
    BY OtherOutputLocks
  <2> QED BY <1>10, <2>1, <2>2, OthersBuilt
<1>11. CASE UNCHANGED vars
  <2>1. DraftBuilt'
    <3>1. utxo' = utxo /\ accepted' = accepted /\ draft' = draft
      BY <1>11 DEF vars
    <3>2. DraftBuilt
      BY Zenon DEF BuildInv
    <3>3. InputsOK(draft.tx.inputs) => InputsOK(draft.tx.inputs)'
      BY <3>1, Zenon DEF InputsOK
    <3>4. SignaturesOK(draft.tx.inputs) => SignaturesOK(draft.tx.inputs)'
      BY <3>1 DEF SignaturesOK
    <3>5. PayloadFits(draft.tx.outputs, draft.tx.payload)
            => PayloadFits(draft.tx.outputs, draft.tx.payload)'
      BY <3>1 DEF PayloadFits
    <3>6. GenesisOK(draft.tx) => GenesisOK(draft.tx)'
      BY <3>1, GenesisKept, Zenon
    <3>7. TransitionOK(draft.tx) => TransitionOK(draft.tx)'
      BY <3>1, TransitionKept, Zenon
    <3> QED BY <3>1, <3>2, <3>3, <3>4, <3>5, <3>6, <3>7, Zenon DEF DraftBuilt
  <2> QED BY <1>11, <2>1, DraftOnly, Zenon DEF vars
<1> QED
  BY <1>1, <1>2, <1>3, <1>4, <1>5, <1>6, <1>7, <1>8, <1>9, <1>10, <1>11, Zenon DEF Next

\* At the start there is no draft, and only wallet outputs.
LEMMA BuildAlways == Spec => [](Inv /\ BuildInv)
<1>1. Init => BuildInv
  <2> SUFFICES ASSUME Init
               PROVE  BuildInv
    OBVIOUS
  <2>1. \A o \in DOMAIN utxo : utxo[o].script_public_key = Wallet
    BY DEF Init
  <2>2. draft = NoDraft
    BY DEF Init
  <2> QED BY <2>1, <2>2 DEF BuildInv, DraftBuilt, ChainBuilt
<1>2. Inv /\ BuildInv /\ [Next]_vars => BuildInv'
  BY BuildStep, Zenon
<1> QED BY <1>1, <1>2, Inductive, PTL DEF Spec

-----------------------------------------------------------------------------
\* What a signature of input i covers is what was signed.
ConsentHolds(tx, signature, i) ==
  /\ tx.payload = signature.consent.payload
  /\ \/ signature.hash_type.anyone_can_pay
     \/ outpoints(tx) = signature.consent.inputs
  /\ signature.hash_type.outputs = "all" => tx.outputs = signature.consent.outputs
  /\ signature.hash_type.outputs = "single" /\ i \in DOMAIN tx.outputs =>
       tx.outputs[i] = signature.consent.outputs[i]

\* The hash of the transaction as it is equals the hash that was signed, field
\* by field.
LEMMA ConsentCovered ==
  ASSUME NEW tx, NEW i, NEW entry, NEW signature, HashOfConsent(signature, i),
         signature.hash = schnorr_signature_hash(tx, i, entry, signature.hash_type)
  PROVE  ConsentHolds(tx, signature, i)
<1> DEFINE t == signature.hash_type
           consent == signature.consent
           hash == signature.hash
<1>1. /\ hash.payload = tx.payload
      /\ hash.previous_outputs = IF t.anyone_can_pay THEN <<>> ELSE outpoints(tx)
      /\ hash.outputs = sighash_outputs(tx, i, t)
  <2>1. \A u : LET h == schnorr_signature_hash(tx, i, entry, u)
               IN  /\ h.payload = tx.payload
                   /\ h.previous_outputs =
                        IF u.anyone_can_pay THEN <<>> ELSE outpoints(tx)
                   /\ h.outputs = sighash_outputs(tx, i, u)
    BY Zenon DEF schnorr_signature_hash
  <2>2. hash = schnorr_signature_hash(tx, i, entry, t)
    OBVIOUS
  <2> HIDE DEF hash, t
  <2> QED BY <2>1, <2>2, Zenon
<1>2. /\ t.outputs = "all" => sighash_outputs(tx, i, t) = tx.outputs
      /\ t.outputs = "single" /\ i \in DOMAIN tx.outputs =>
           sighash_outputs(tx, i, t) = <<tx.outputs[i]>>
  BY Zenon DEF sighash_outputs
<1>3. /\ t \in SigHashType
      /\ hash.payload = consent.payload
      /\ ~ t.anyone_can_pay => hash.previous_outputs = consent.inputs
      /\ t.outputs = "all" => hash.outputs = consent.outputs
      /\ t.outputs = "single" =>
           hash.outputs = IF i \in DOMAIN consent.outputs
                            THEN <<consent.outputs[i]>> ELSE <<>>
  BY Zenon DEF HashOfConsent
<1> HIDE DEF t, consent, hash
<1>4. /\ tx.payload = consent.payload
      /\ t.anyone_can_pay \/ outpoints(tx) = consent.inputs
      /\ t.outputs = "all" => tx.outputs = consent.outputs
  BY <1>1, <1>2, <1>3, Zenon
<1>5. ASSUME t.outputs = "single", i \in DOMAIN tx.outputs
      PROVE  tx.outputs[i] = consent.outputs[i]
  <2>1. hash.outputs = <<tx.outputs[i]>>
    BY <1>1, <1>2, <1>5, Zenon
  <2>2. i \in DOMAIN consent.outputs /\ hash.outputs = <<consent.outputs[i]>>
    BY <1>3, <1>5, <2>1
  <2> QED BY <2>1, <2>2
<1> QED BY <1>4, <1>5, Zenon DEF t, consent, hash, ConsentHolds

\* Whatever is done to a draft after an input of it was signed, populating the
\* covenants of a genesis included: while the signature holds, what it covers
\* is what was signed.
THEOREM ConsentKept == Spec => []SignatureCoversConsent
<1>1. Inv /\ BuildInv => SignatureCoversConsent
  <2> SUFFICES ASSUME BuildInv, draft # NoDraft, live(draft.tx),
                      NEW i \in DOMAIN draft.tx.inputs,
                      NEW signature, signature = draft.tx.inputs[i].signature_script,
                      signature # None,
                      unlocked(draft.tx, spent_by(draft.tx), i)
               PROVE  ConsentHolds(draft.tx, signature, i)
    BY Zenon DEF SignatureCoversConsent, ConsentHolds
  <2> DEFINE tx == draft.tx
             o == tx.inputs[i].previous_outpoint
  <2>1. o \in DOMAIN utxo /\ spent_by(tx)[i] = utxo[o]
    BY Zenon DEF live, spent_by
  <2>2. HashOfConsent(signature, i) /\ utxo[o].script_public_key = Wallet
    BY <2>1, Zenon DEF BuildInv, DraftBuilt, SignaturesOK
  <2>3. signature.hash
          = schnorr_signature_hash(tx, i, spent_by(tx)[i], signature.hash_type)
    BY <2>1, <2>2, Zenon DEF unlocked
  <2> QED BY <2>2, <2>3, ConsentCovered, Zenon
<1> QED BY <1>1, BuildAlways, PTL

-----------------------------------------------------------------------------
\* Funding is locked by the wallet and carries no covenant.
LEMMA FundingPlain ==
  ASSUME Inv, ChainBuilt, NEW o \in DOMAIN utxo, o[1] = 0
  PROVE  utxo[o].script_public_key = Wallet /\ utxo[o].covenant_id = None
BY Zenon DEF Inv, CarriedOpened, ChainBuilt

\* A genesis whose inputs are signed is admitted.
LEMMA GenesisAdmitted ==
  ASSUME Inv, ChainBuilt, NEW tx, InputsOK(tx.inputs), GenesisOK(tx), live(tx),
         \A i \in DOMAIN tx.inputs :
           spent_by(tx)[i].script_public_key = Wallet => unlocked(tx, spent_by(tx), i)
  PROVE  admitted(tx)
<1>1. \A i \in DOMAIN tx.inputs : unlocked(tx, spent_by(tx), i)
  <2> TAKE i \in DOMAIN tx.inputs
  <2>1. /\ tx.inputs[i].previous_outpoint \in DOMAIN utxo
        /\ tx.inputs[i].previous_outpoint[1] = 0
    BY Zenon DEF live, GenesisOK
  <2>2. spent_by(tx)[i].script_public_key = Wallet
    BY <2>1, FundingPlain, Zenon DEF spent_by
  <2> QED BY <2>2
<1>2. bindings_admitted(tx)
  BY Zenon DEF bindings_admitted, GenesisOK
<1> QED BY <1>1, <1>2, Zenon DEF admitted, InputsOK

\* g counts the elements of the sets in D, as Cardinality is defined.
Counts(g, D) ==
  g = [s \in D |-> IF s = {} THEN 0 ELSE 1 + g[s \ {CHOOSE x : x \in s}]]

\* Cardinality is what such a function says of the set itself.
LEMMA CountIs ==
  ASSUME NEW S, \E g : Counts(g, SUBSET S)
  PROVE  \E g : Counts(g, SUBSET S) /\ Cardinality(S) = g[S]
<1> DEFINE f == CHOOSE g : Counts(g, SUBSET S)
<1>1. Counts(f, SUBSET S)
  BY Zenon
<1>2. Cardinality(S) = f[S]
  BY Zenon DEF Cardinality, Counts
<1> HIDE DEF f
<1> QED BY <1>1, <1>2, Zenon

\* One output, or one input.
LEMMA CountOne == \A x : Cardinality({x}) = 1
<1> SUFFICES ASSUME NEW x
             PROVE  Cardinality({x}) = 1
  OBVIOUS
<1> DEFINE f == [s \in SUBSET {x} |-> IF s = {} THEN 0 ELSE 1]
<1>1. \A s \in SUBSET {x} : s # {} => s \ {CHOOSE y : y \in s} = {}
  <2> SUFFICES ASSUME NEW s \in SUBSET {x}, s # {}
               PROVE  s \ {CHOOSE y : y \in s} = {}
    OBVIOUS
  <2>1. (CHOOSE y : y \in s) \in s
    BY Zenon
  <2> QED BY <2>1
<1>2. Counts(f, SUBSET {x})
  <2>1. f[{}] = 0
    OBVIOUS
  <2>2. \A s \in SUBSET {x} :
          f[s] = IF s = {} THEN 0 ELSE 1 + f[s \ {CHOOSE y : y \in s}]
    BY <1>1, <2>1
  <2>3. f = [s \in SUBSET {x} |-> f[s]]
    OBVIOUS
  <2> HIDE DEF f
  <2> QED BY <2>2, <2>3, Zenon DEF Counts
<1> HIDE DEF f
<1>3. PICK g : Counts(g, SUBSET {x}) /\ Cardinality({x}) = g[{x}]
  BY <1>2, CountIs, Zenon
<1>4. \A s \in SUBSET {x} :
        g[s] = IF s = {} THEN 0 ELSE 1 + g[s \ {CHOOSE y : y \in s}]
  BY <1>3, Zenon DEF Counts
<1>5. g[{}] = 0 /\ g[{x}] = 1 + g[{}]
  BY <1>1, <1>4, Zenon
<1> QED BY <1>3, <1>5

\* Two inputs.
LEMMA CountTwo == Cardinality({1, 2}) = 2
<1> DEFINE S == {1, 2}
           f == [s \in SUBSET S |-> IF s = {} THEN 0 ELSE IF s = S THEN 2 ELSE 1]
           Less(s) == s \ {CHOOSE y : y \in s}
<1>1. \A s \in SUBSET S : s = {} \/ s = {1} \/ s = {2} \/ s = S
  BY Zenon
<1>2. {} \in SUBSET S /\ {1} \in SUBSET S /\ {2} \in SUBSET S /\ S \in SUBSET S
  BY Zenon
<1>3. /\ {1} # {} /\ {2} # {} /\ S # {}
      /\ {1} # S /\ {2} # S
  OBVIOUS
<1>4. /\ Less({1}) = {} /\ Less({2}) = {}
      /\ Less(S) = {1} \/ Less(S) = {2}
  <2>1. \A x : (CHOOSE y : y \in {x}) \in {x}
    BY Zenon
  <2>2. \A x : Less({x}) = {}
    BY <2>1, Zenon
  <2>3. (CHOOSE y : y \in S) \in S
    BY Zenon
  <2>4. \A c \in S : S \ {c} = {1} \/ S \ {c} = {2}
    <3>1. S \ {1} = {2} /\ S \ {2} = {1}
      OBVIOUS
    <3> QED BY <3>1, Zenon
  <2> QED BY <2>2, <2>3, <2>4, Zenon
<1>5. Counts(f, SUBSET S)
  <2> HIDE DEF Less
  <2>1. f[{}] = 0 /\ f[{1}] = 1 /\ f[{2}] = 1 /\ f[S] = 2
    BY <1>2, <1>3, Zenon
  <2>2. f = [s \in SUBSET S |-> f[s]]
    BY Zenon
  <2> HIDE DEF f
  <2>3. 1 + 0 = 1 /\ 1 + 1 = 2
    OBVIOUS
  <2>4. \A s \in SUBSET S : f[s] = IF s = {} THEN 0 ELSE 1 + f[Less(s)]
    <3> HIDE DEF S
    <3> TAKE s \in SUBSET S
    <3>1. CASE s = {}
      BY <2>1, <3>1, Zenon
    <3>2. CASE s = {1} \/ s = {2}
      BY <1>3, <1>4, <2>1, <2>3, <3>2, Zenon
    <3>3. CASE s = S
      BY <1>3, <1>4, <2>1, <2>3, <3>3, Zenon
    <3> QED BY <1>1, <3>1, <3>2, <3>3, Zenon
  <2> QED BY <2>2, <2>4, Zenon DEF Counts, Less
<1> HIDE DEF f, Less
<1>6. PICK g : Counts(g, SUBSET S) /\ Cardinality(S) = g[S]
  BY <1>5, CountIs, Zenon
<1>7. \A s \in SUBSET S : g[s] = IF s = {} THEN 0 ELSE 1 + g[Less(s)]
  BY <1>6, Zenon DEF Counts, Less
<1>8. g[S] = 2
  <2> HIDE DEF S
  <2>1. g[{}] = 0
    BY <1>2, <1>7, Zenon
  <2>2. g[{1}] = 1 + 0 /\ g[{2}] = 1 + 0
    BY <1>2, <1>3, <1>4, <1>7, <2>1, Zenon
  <2>3. g[S] = 1 + (1 + 0)
    BY <1>2, <1>3, <1>4, <1>7, <2>2, Zenon
  <2> QED BY <2>3
<1> QED BY <1>6, <1>8, Zenon

\* A transition keeps its covenant by the rules of the policy it spends: one
\* output continues it, and as many inputs carry it as the policy counts.
LEMMA ContinuationAccepted ==
  ASSUME NEW tx, NEW spent, NEW entry \in Entry, NEW m \in {1, 2},
         NEW change \in BOOLEAN, NEW n \in Nat, m <= n,
         entry.covenant_id # None, entry.script_public_key # Wallet,
         builder_fits(entry.script_public_key.policy, m, change),
         tx.outputs = build_transition_outputs(entry.script_public_key,
                                               entry.covenant_id, change),
         DOMAIN spent = 1 .. n,
         \A j \in 1 .. n :
           IF j <= m THEN spent[j] = entry ELSE spent[j].covenant_id = None,
         payload_admitted(entry.script_public_key.template, tx.payload),
         NEW i \in 1 .. m
  PROVE  script_accepts(entry.script_public_key, tx, spent, i)
<1> DEFINE script == entry.script_public_key
           policy == script.policy
           id == entry.covenant_id
           outputs == tx.outputs
<1>1. policy.kind \in {"policy", "shared"}
  <2>1. script \in Scripts
    BY Zenon DEF Entry, ScriptPublicKey
  <2> QED BY <2>1, ChainAssumption DEF Scripts, build_script
<1>2. /\ DOMAIN outputs = IF change THEN {1, 2} ELSE {1}
      /\ Len(outputs) = IF change THEN 2 ELSE 1
      /\ outputs[1].script_public_key = script
      /\ outputs[1].covenant_binding = CovenantBinding(0, id)
      /\ change => outputs[2].covenant_binding = None
  <2> HIDE DEF outputs
  <2>1. outputs = build_transition_outputs(script, id, change)
    BY Zenon DEF outputs
  <2> HIDE DEF script, id
  <2>4. \A x, b : /\ TxOutput(x, b).script_public_key = x
                 /\ TxOutput(x, b).covenant_binding = b
    BY Zenon DEF TxOutput
  <2>2. CASE change
    <3>1. outputs = <<TxOutput(script, CovenantBinding(0, id)), TxOutput(Wallet, None)>>
      BY <2>1, <2>2, Zenon DEF build_transition_outputs
    <3>2. /\ DOMAIN outputs = {1, 2} /\ Len(outputs) = 2
          /\ outputs[1] = TxOutput(script, CovenantBinding(0, id))
          /\ outputs[2] = TxOutput(Wallet, None)
      BY <3>1
    <3>3. /\ outputs[1].script_public_key = script
          /\ outputs[1].covenant_binding = CovenantBinding(0, id)
          /\ outputs[2].covenant_binding = None
      BY <2>4, <3>2
    <3> QED BY <2>2, <3>2, <3>3
  <2>3. CASE ~ change
    <3>1. outputs = <<TxOutput(script, CovenantBinding(0, id))>>
      BY <2>1, <2>3, Zenon DEF build_transition_outputs
    <3>2. /\ DOMAIN outputs = {1} /\ Len(outputs) = 1
          /\ outputs[1] = TxOutput(script, CovenantBinding(0, id))
      BY <3>1
    <3>3. /\ outputs[1].script_public_key = script
          /\ outputs[1].covenant_binding = CovenantBinding(0, id)
      BY <2>4, <3>2
    <3> QED BY <2>3, <3>2, <3>3
  <2> QED BY <2>2, <2>3, Zenon
<1>3. CovenantBinding(0, id) # None
  <2>1. CovenantBinding(0, id) \in [authorizing_input : Nat, covenant_id : CovenantId]
    BY Zenon DEF Entry, CovenantBinding
  <2> QED BY <2>1, ChainAssumption, Zenon
<1>4. Len(outputs) = policy.exact_output_count
  BY <1>2, Zenon DEF builder_fits
<1>5. i \in 1 .. n /\ spent[i] = entry
  OBVIOUS
<1>6. /\ bound_to(outputs[1], id)
      /\ outputs[1].covenant_binding.authorizing_input = 0
      /\ change => ~ bound_to(outputs[2], id)
  BY <1>2, <1>3 DEF bound_to, CovenantBinding
<1>7. keeps_covenant(outputs[1], spent[i])
  BY <1>2, <1>5, <1>6, Zenon DEF keeps_covenant
<1> HIDE DEF outputs, policy, id
<1>8. ASSUME policy.kind = "policy"
      PROVE  input_admitted(policy, i) /\ policy_script(policy, tx, spent, i)
  <2>1. /\ m = 1 /\ policy.authorizing_input = 0
        /\ policy.covenant_output_indices = <<0>>
    BY <1>8, Zenon DEF builder_fits, policy
  <2>2. i = policy.authorizing_input + 1
    BY <2>1
  <2>3. \A k \in Range(policy.covenant_output_indices) : k = 0
    BY <2>1 DEF Range
  <2>4. \A k \in Range(policy.covenant_output_indices) :
          /\ keeps_covenant(outputs[k + 1], spent[i])
          /\ outputs[k + 1].covenant_binding.authorizing_input
               = policy.authorizing_input
    <3> TAKE k \in Range(policy.covenant_output_indices)
    <3>1. k + 1 = 1
      BY <2>3
    <3> QED BY <1>6, <1>7, <2>1, <3>1, Zenon
  <2> QED BY <1>4, <2>2, <2>4, Zenon DEF input_admitted, policy_script, outputs
<1>9. ASSUME policy.kind = "shared"
      PROVE  input_admitted(policy, i) /\ shared_script(policy, tx, spent, i)
  <2> DEFINE Spending == {j \in DOMAIN spent : spent[j].covenant_id = id}
             Bound == {k \in DOMAIN outputs : bound_to(outputs[k], id)}
  <2>1. policy.covenant_input_count = m /\ policy.covenant_output_count = 1
    BY <1>9 DEF builder_fits, policy
  <2>2. Spending = 1 .. m
    <3>1. id # None /\ \A j \in 1 .. n : spent[j].covenant_id = id <=> j <= m
      BY DEF id
    <3>2. \A j : j \in 1 .. n /\ j <= m <=> j \in 1 .. m
      OBVIOUS
    <3> QED BY <3>1, <3>2
  <2>3. Cardinality(Spending) = m
    <3>1. 1 .. 1 = {1} /\ 1 .. 2 = {1, 2}
      OBVIOUS
    <3>2. Cardinality(1 .. m) = m
      BY <3>1, CountOne, CountTwo, Zenon
    <3> HIDE DEF Spending
    <3> QED BY <2>2, <3>2
  <2>4. Bound = {1}
    BY <1>2, <1>6, Zenon
  <2>5. Cardinality(Bound) = 1
    BY <2>4, CountOne, Zenon
  <2>6. spent[i].covenant_id = id /\ id # None
    BY <1>5 DEF id
  <2>7. \A k \in Bound : keeps_covenant(outputs[k], spent[i])
    BY <1>7, <2>4
  <2>8. input_admitted(policy, i)
    BY <1>9 DEF input_admitted
  <2> QED BY <1>4, <2>1, <2>3, <2>5, <2>6, <2>7, <2>8, Zenon
             DEF shared_script, outputs
<1> QED BY <1>1, <1>8, <1>9, Zenon DEF script_accepts, policy

OutputsFit(outputs, spk, id, change) ==
  /\ DOMAIN outputs = IF change THEN {1, 2} ELSE {1}
  /\ outputs[1].script_public_key = spk
  /\ outputs[1].covenant_binding = CovenantBinding(0, id)
  /\ change => outputs[2].covenant_binding = None

\* The outputs of a transition, as one fact.
LEMMA OutputsFitted ==
  ASSUME NEW spk, NEW id, NEW change \in BOOLEAN
  PROVE  OutputsFit(build_transition_outputs(spk, id, change), spk, id, change)
BY TransitionOutputs DEF OutputsFit

\* Where an output is bound by input 0, which carries its id, it continues.
LEMMA FirstContinues ==
  ASSUME NEW tx, NEW k, NEW entry, 1 \in DOMAIN tx.inputs, entry.covenant_id # None,
         tx.outputs[k].covenant_binding = CovenantBinding(0, entry.covenant_id),
         spent_by(tx)[1] = entry
  PROVE  /\ tx.outputs[k].covenant_binding.authorizing_input + 1 \in DOMAIN tx.inputs
         /\ continues(tx, k)
<1>1. \A i, c : /\ CovenantBinding(i, c).authorizing_input = i
               /\ CovenantBinding(i, c).covenant_id = c
  BY Zenon DEF CovenantBinding
<1>2. /\ tx.outputs[k].covenant_binding.authorizing_input = 0
      /\ tx.outputs[k].covenant_binding.covenant_id = entry.covenant_id
  BY <1>1
<1>3. 0 + 1 = 1
  OBVIOUS
<1>4. QED BY <1>2, <1>3, Zenon DEF continues, carries

\* A transition whose fee inputs are signed is admitted.
LEMMA TransitionAdmitted ==
  ASSUME Inv, ChainBuilt, NEW tx, InputsOK(tx.inputs), TransitionOK(tx), live(tx),
         PayloadFits(tx.outputs, tx.payload),
         \A i \in DOMAIN tx.inputs :
           spent_by(tx)[i].script_public_key = Wallet => unlocked(tx, spent_by(tx), i)
  PROVE  admitted(tx)
<1> DEFINE spent == spent_by(tx)
           n == Len(tx.inputs)
<1>1. PICK entry \in Entry, m \in {1, 2}, change \in BOOLEAN :
        TransitionOf(tx, entry, m, change)
  BY DEF TransitionOK
<1>2. /\ entry.covenant_id # None /\ entry.script_public_key # Wallet /\ m <= n
      /\ builder_fits(entry.script_public_key.policy, m, change)
      /\ tx.outputs = build_transition_outputs(entry.script_public_key,
                                               entry.covenant_id, change)
  BY <1>1, Zenon DEF TransitionOf
<1>3. n \in Nat /\ DOMAIN tx.inputs = 1 .. n /\ DOMAIN spent = 1 .. n
  <2>1. tx.inputs \in Seq(Range(tx.inputs))
    BY Zenon DEF InputsOK
  <2>2. DOMAIN spent = DOMAIN tx.inputs
    BY Zenon DEF spent_by
  <2>3. QED BY <2>1, <2>2
<1>4. \A j \in 1 .. n :
        IF j <= m THEN spent[j] = entry
        ELSE spent[j].covenant_id = None /\ spent[j].script_public_key = Wallet
  <2> TAKE j \in 1 .. n
  <2> DEFINE o == tx.inputs[j].previous_outpoint
  <2>1. o \in DOMAIN utxo /\ spent[j] = utxo[o]
    BY <1>3, Zenon DEF live, spent_by
  <2>2. IF j <= m THEN utxo[o] = entry ELSE o[1] = 0
    BY <1>1, <1>3, <2>1, Zenon DEF TransitionOf
  <2> HIDE DEF spent, o
  <2> QED BY <2>1, <2>2, FundingPlain
<1>5. /\ DOMAIN tx.outputs = IF change THEN {1, 2} ELSE {1}
      /\ tx.outputs[1].script_public_key = entry.script_public_key
      /\ tx.outputs[1].covenant_binding = CovenantBinding(0, entry.covenant_id)
      /\ change => tx.outputs[2].covenant_binding = None
  <2>1. OutputsFit(tx.outputs, entry.script_public_key, entry.covenant_id, change)
    BY <1>2, OutputsFitted, Zenon
  <2>2. QED BY <2>1, Zenon DEF OutputsFit
<1>6. payload_admitted(entry.script_public_key.template, tx.payload)
  BY <1>2, <1>5, Zenon DEF PayloadFits
<1> HIDE DEF spent, n
<1>7. \A i \in DOMAIN tx.inputs : unlocked(tx, spent, i)
  <2> TAKE i \in DOMAIN tx.inputs
  <2>1. CASE i <= m
    <3>1. i \in 1 .. m /\ spent[i] = entry
      <4>1. i \in 1 .. n /\ i \in 1 .. m
        BY <1>3, <2>1
      <4>2. QED BY <1>4, <2>1, <4>1, Zenon
    <3>2. script_accepts(entry.script_public_key, tx, spent, i)
      <4>1. \A j \in 1 .. n :
              IF j <= m THEN spent[j] = entry ELSE spent[j].covenant_id = None
        BY <1>4, Zenon
      <4> QED BY <1>2, <1>3, <1>6, <3>1, <4>1, ContinuationAccepted, Zenon
    <3> QED BY <1>2, <3>1, <3>2, Zenon DEF unlocked
  <2>2. CASE ~ (i <= m)
    <3>1. spent[i].script_public_key = Wallet
      BY <1>3, <1>4, <2>2, Zenon
    <3> QED BY <3>1, Zenon DEF spent
  <2> QED BY <2>1, <2>2, Zenon
<1>8. bindings_admitted(tx)
  <2>1. ASSUME NEW k \in DOMAIN tx.outputs, tx.outputs[k].covenant_binding # None
        PROVE  /\ tx.outputs[k].covenant_binding.authorizing_input + 1 \in DOMAIN tx.inputs
               /\ continues(tx, k)
    <3>1. k = 1
      BY <1>5, <2>1, Zenon
    <3>2. 1 \in DOMAIN tx.inputs /\ spent[1] = entry
      <4>1. m <= n
        BY <1>2, Zenon
      <4>2. 1 <= m /\ 1 \in 1 .. n
        BY <1>3, <4>1
      <4>3. QED BY <1>3, <1>4, <4>2, Zenon
    <3>3. tx.outputs[k].covenant_binding = CovenantBinding(0, entry.covenant_id)
      BY <1>5, <3>1, Zenon
    <3>4. entry.covenant_id # None
      BY <1>2, Zenon
    <3>5. QED BY <3>2, <3>3, <3>4, FirstContinues, Zenon DEF spent
  <2> QED BY <2>1, Zenon DEF bindings_admitted
<1> QED BY <1>7, <1>8, Zenon DEF admitted, InputsOK, spent

\* Whatever the order in which the client populates, funds and signs, and
\* whatever others spend meanwhile: a draft whose inputs are unspent and whose
\* wallet inputs are signed is admitted by the scripts and by consensus.
THEOREM BuiltAdmitted == Spec => []BuiltIsAdmitted
<1>1. Inv /\ BuildInv => BuiltIsAdmitted
  <2> SUFFICES ASSUME Inv, BuildInv, draft # NoDraft, live(draft.tx),
                      \A i \in DOMAIN draft.tx.inputs :
                        spent_by(draft.tx)[i].script_public_key = Wallet =>
                          unlocked(draft.tx, spent_by(draft.tx), i)
               PROVE  admitted(draft.tx)
    BY Zenon DEF BuiltIsAdmitted
  <2>1. /\ ChainBuilt /\ InputsOK(draft.tx.inputs)
        /\ PayloadFits(draft.tx.outputs, draft.tx.payload)
        /\ GenesisOK(draft.tx) \/ TransitionOK(draft.tx)
    BY DEF BuildInv, DraftBuilt
  <2> QED BY <2>1, GenesisAdmitted, TransitionAdmitted, Zenon
<1> QED BY <1>1, BuildAlways, PTL
=============================================================================
