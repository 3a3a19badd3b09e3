----------------------------- MODULE KaspaNode ------------------------------
(***************************************************************************)
(* The Kaspa nodes the scanner talks to, one per network, as far as         *)
(* rgk-sync and rgk-kaspa/src/wrpc.rs use them (external code).  A block    *)
(* carries the set of its selected-chain ancestors, itself included, the    *)
(* inputs its transactions spend and its DAA score.  A block mined on a     *)
(* side branch becomes the tip when its branch is longer, which removes the *)
(* blocks the two branches do not share: a reorg.                           *)
(***************************************************************************)
EXTENDS Naturals, FiniteSets

CONSTANTS
  Chain,              \* KaspaChainId: the networks
  Block,              \* block hashes
  Genesis,            \* the first block of each network
  Outpoint,           \* outputs transactions spend
  Txid,               \* transaction ids
  MaxSpends,          \* bound: inputs in one block
  MaxReorg            \* bound: blocks one reorg removes

ASSUME NodeAssumption ==
  /\ Genesis \in [Chain -> Block]
  /\ \A k, l \in Chain : Genesis[k] = Genesis[l] => k = l
  /\ MaxSpends \in Nat
  /\ MaxReorg \in Nat

Input == [spent : Outpoint, txid : Txid]

BlockData ==
  [chain_id : Chain, ancestors : SUBSET Block, spends : SUBSET Input,
   daa_score : Nat]

VARIABLES
  block,              \* every block ever mined: block hash -> BlockData
  tip                 \* the selected tip (sink) of each network

node == <<block, tip>>

NodeInit ==
  /\ block = [b \in {Genesis[k] : k \in Chain} |->
                [chain_id |-> CHOOSE k \in Chain : Genesis[k] = b,
                 ancestors |-> {b}, spends |-> {}, daa_score |-> 0]]
  /\ tip = Genesis

\* No output is spent twice along one branch.
Spendable(parent, spends) ==
  /\ \A s, t \in spends : s.spent = t.spent => s = t
  /\ \A a \in block[parent].ancestors : \A s \in spends, t \in block[a].spends :
       s.spent # t.spent

Mine(b, parent, spends) ==
  LET data == block[parent]
      mined == [chain_id |-> data.chain_id,
                ancestors |-> data.ancestors \cup {b}, spends |-> spends,
                daa_score |-> data.daa_score + 1]
      old == block[tip[data.chain_id]]
      longer == mined.daa_score > old.daa_score
  IN /\ b \in Block \ DOMAIN block
     /\ b \notin {Genesis[k] : k \in Chain}
     /\ parent \in DOMAIN block
     /\ Spendable(parent, spends)
     /\ longer => Cardinality(old.ancestors \ mined.ancestors) <= MaxReorg
     /\ block' = [c \in DOMAIN block \cup {b} |->
                    IF c = b THEN mined ELSE block[c]]
     /\ tip' = [tip EXCEPT ![data.chain_id] = IF longer THEN b ELSE @]

MineBlock ==
  \E b \in Block, parent \in DOMAIN block, spends \in SUBSET Input :
    /\ Cardinality(spends) <= MaxSpends
    /\ Mine(b, parent, spends)

-----------------------------------------------------------------------------
(* The answers the node gives.                                              *)

SelectedChain(k) == block[tip[k]].ancestors

\* getVirtualChainFromBlock(start): the blocks below start that left the
\* selected chain, and the selected blocks above start that have at least
\* confirmations blocks on top of them.
RemovedFrom(k, start) == block[start].ancestors \ SelectedChain(k)

AddedFrom(k, start, confirmations) ==
  {b \in SelectedChain(k) \ block[start].ancestors :
     block[b].daa_score + confirmations <= block[tip[k]].daa_score}

\* The block of the set with the highest DAA score.
Highest(blocks) ==
  CHOOSE b \in blocks : \A c \in blocks : block[c].daa_score <= block[b].daa_score
=============================================================================
