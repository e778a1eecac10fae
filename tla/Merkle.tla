------------------------------- MODULE Merkle -------------------------------
(***************************************************************************)
(* The Merkle tree of a batch (internal/merkle/tree.go): BuildTree makes   *)
(* one level from the one below, GenerateProof walks up from a leaf and    *)
(* collects siblings, VerifyProof folds a proof into a hash and compares   *)
(* it with the root.  Each round of these loops is a step.                 *)
(*                                                                         *)
(* SHA-256 is modelled as a free constructor: two hashes are equal exactly *)
(* if they were made in the same way from equal parts, and the prefixes    *)
(* 0x00 and 0x01 keep leaves and interior nodes apart.                     *)
(*                                                                         *)
(* Leaf indices count from 0 as in the code, positions in a level from 1.  *)
(***************************************************************************)
EXTENDS Naturals, Sequences

CONSTANTS
    Content,        \* what a record may hold when its batch is signed
    Altered,        \* what a record may hold when it is verified
    Foreign,        \* hashes a proof may hold that are not of this tree
    MaxLeaves,      \* bound: records of a batch
    MaxProof        \* bound: length of a proof from elsewhere

ASSUME MerkleAssumption == MaxLeaves \in Nat /\ MaxProof \in Nat

VARIABLES
    leaves,         \* the contents of the batch's records
    levels,         \* Tree.levels
    phase,          \* the function being executed, or the last one that was
    leafIndex,      \* GenerateProof's argument
    idx, level,     \* GenerateProof's loop: the node's index and its level
    proof,          \* the proof generated so far
    path,           \* history: the hashes of the nodes the proof passes
    record,         \* the record under verification
    own,            \* it is verified with the generated proof
    checked,        \* VerifyProof's loop: proof nodes folded
    current,        \* VerifyProof's current
    verdict         \* VerifyProof's result

tree     == <<leaves, levels>>
proving  == <<leafIndex, idx, level, proof, path>>
checking == <<record, own, checked, current, verdict>>
mvars    == <<tree, phase, proving, checking>>

(***************************************************************************)
(* Hashes.                                                                 *)
(***************************************************************************)
HashLeaf(data) == <<"leaf", data>>
HashInterior(left, right) == <<"interior", left, right>>
EmptyRoot == <<"empty">>

\* The canonical payload of a record includes its leaf index.
Payload(content, i) == [content |-> content, index |-> i]

LeafHashes == [i \in 1..Len(leaves) |-> HashLeaf(Payload(leaves[i], i - 1))]

\* Mutant: a lone node is paired with itself.
MutantDuplicateLast(nodes) ==
    [i \in 1..((Len(nodes) + 1) \div 2) |->
        IF 2 * i <= Len(nodes) THEN HashInterior(nodes[2 * i - 1], nodes[2 * i])
        ELSE HashInterior(nodes[2 * i - 1], nodes[2 * i - 1])]

\* BuildTree's inner loop: pairs are hashed, a lone last node is promoted.
NextLevel(nodes) ==
    [i \in 1..((Len(nodes) + 1) \div 2) |->
        IF 2 * i <= Len(nodes) THEN HashInterior(nodes[2 * i - 1], nodes[2 * i])
        ELSE nodes[2 * i - 1]]

Top == levels[Len(levels)]

Root == Top[1]

(***************************************************************************)
(* BuildTree.                                                              *)
(***************************************************************************)
MInit ==
    /\ leaves \in UNION {[1..n -> Content] : n \in 0..MaxLeaves}
    /\ levels = IF leaves = <<>> THEN <<<<EmptyRoot>>>> ELSE <<LeafHashes>>
    /\ phase = "building"
    /\ leafIndex = 0 /\ idx = 0 /\ level = 1 /\ proof = <<>> /\ path = <<>>
    /\ record = 0 /\ own = FALSE /\ checked = 0 /\ current = EmptyRoot
    /\ verdict = "none"

BuildLevel ==
    /\ phase = "building" /\ Len(Top) > 1
    /\ levels' = Append(levels, NextLevel(Top))
    /\ UNCHANGED <<leaves, phase, proving, checking>>

BuildDone ==
    /\ phase = "building" /\ Len(Top) = 1
    /\ phase' = "built"
    /\ UNCHANGED <<tree, proving, checking>>

(***************************************************************************)
(* GenerateProof.                                                          *)
(***************************************************************************)
GenerateProof(i) ==
    /\ phase = "built"
    /\ i < Len(leaves)
    /\ phase' = "proving"
    /\ leafIndex' = i /\ idx' = i /\ level' = 1
    /\ proof' = <<>> /\ path' = <<levels[1][i + 1]>>
    /\ UNCHANGED <<tree, checking>>

Sibling == IF idx % 2 = 0 THEN idx + 1 ELSE idx - 1

HasSibling == Sibling < Len(levels[level])

Combine(hash, node) ==
    IF node.isLeft THEN HashInterior(node.hash, hash) ELSE HashInterior(hash, node.hash)

\* Mutant: a lone node ends the walk.
MutantLoneEndsProof ==
    /\ phase = "proving" /\ level < Len(levels)
    /\ LET node == [hash |-> levels[level][Sibling + 1], isLeft |-> idx % 2 # 0]
       IN  IF HasSibling
           THEN /\ proof' = Append(proof, node)
                /\ path' = Append(path, Combine(path[Len(path)], node))
                /\ level' = level + 1
           ELSE /\ UNCHANGED <<proof, path>>
                /\ level' = Len(levels)
    /\ idx' = idx \div 2
    /\ UNCHANGED <<tree, phase, leafIndex, checking>>

\* A level without a sibling adds nothing to the proof.
ProofLevel ==
    /\ phase = "proving" /\ level < Len(levels)
    /\ LET node == [hash |-> levels[level][Sibling + 1], isLeft |-> idx % 2 # 0]
       IN  IF HasSibling
           THEN /\ proof' = Append(proof, node)
                /\ path' = Append(path, Combine(path[Len(path)], node))
           ELSE UNCHANGED <<proof, path>>
    /\ idx' = idx \div 2
    /\ level' = level + 1
    /\ UNCHANGED <<tree, phase, leafIndex, checking>>

ProofDone ==
    /\ phase = "proving" /\ level = Len(levels)
    /\ phase' = "proved"
    /\ UNCHANGED <<tree, proving, checking>>

(***************************************************************************)
(* VerifyProof: of a record that may be altered, with the generated proof  *)
(* or with one from elsewhere (cmd/verify -proof-file).                    *)
(***************************************************************************)
Nodes == UNION {{levels[l][i] : i \in 1..Len(levels[l])} : l \in 1..Len(levels)}

VerifyProof(rec) ==
    /\ phase \in {"built", "proved"}
    /\ record' = rec
    /\ own' = (phase = "proved")
    /\ checked' = 0
    /\ current' = HashLeaf(rec)
    /\ verdict' = "none"
    /\ phase' = "checking"
    /\ UNCHANGED <<tree, proving>>

FoldNode(node) ==
    /\ phase = "checking"
    /\ IF own THEN checked < Len(proof) /\ node = proof[checked + 1]
       ELSE checked < MaxProof
    /\ current' = Combine(current, node)
    /\ checked' = checked + 1
    /\ UNCHANGED <<tree, phase, proving, record, own, verdict>>

\* Mutant: an empty proof leaves nothing to check.
MutantEmptyProofPasses ==
    /\ phase = "checking"
    /\ own => checked = Len(proof)
    /\ verdict' = IF checked = 0 \/ current = Root THEN "valid" ELSE "invalid"
    /\ phase' = "done"
    /\ UNCHANGED <<tree, proving, record, own, checked, current>>

Compare ==
    /\ phase = "checking"
    /\ own => checked = Len(proof)
    /\ verdict' = IF current = Root THEN "valid" ELSE "invalid"
    /\ phase' = "done"
    /\ UNCHANGED <<tree, proving, record, own, checked, current>>

ProofNode == [hash : Nodes \cup Foreign, isLeft : BOOLEAN]

MNext ==
    \/ BuildLevel \/ BuildDone
    \/ \E i \in 0..(MaxLeaves - 1) : GenerateProof(i)
    \/ ProofLevel \/ ProofDone
    \/ \E content \in Content \cup Altered, i \in 0..MaxLeaves : VerifyProof(Payload(content, i))
    \/ \E node \in ProofNode : FoldNode(node)
    \/ Compare

MSpec == MInit /\ [][MNext]_mvars

(***************************************************************************)
(* Properties.                                                             *)
(***************************************************************************)
Signed(rec) == \E i \in 1..Len(leaves) : rec = Payload(leaves[i], i - 1)

\* A genuine record, at whatever place of a tree of whatever size, verifies
\* with the proof GenerateProof makes for it, the levels without a sibling
\* included, and no other record does with that proof.
GenuineIsValid ==
    verdict # "none" /\ own =>
        (verdict = "valid" <=> record = Payload(leaves[leafIndex + 1], leafIndex))

\* A record that verifies, by whatever proof, is one of the records the root
\* was signed for, with its contents and at its index: no sequence of proof
\* nodes leads from anything else to the root.
ValidIsSigned == verdict = "valid" => Signed(record)

\* Every divisor of p but 1 is even.
PowerOfTwo(p) == \A d, e \in 1..p : d * e = p /\ d # 1 => d % 2 = 0

\* The largest power of two smaller than n.
SplitPoint(n) ==
    CHOOSE k \in 1..(n - 1) :
        PowerOfTwo(k) /\ \A p \in 1..(n - 1) : PowerOfTwo(p) => p <= k

\* RFC 6962, section 2.1: the Merkle tree hash of the leaves from r[1] to r[2].
MTH[r \in (1..Len(leaves)) \X (1..Len(leaves))] ==
    IF r[1] >= r[2] THEN LeafHashes[r[1]]
    ELSE LET k == SplitPoint(r[2] + 1 - r[1])
         IN  HashInterior(MTH[<<r[1], r[1] + k - 1>>], MTH[<<r[1] + k, r[2]>>])

\* The root BuildTree computes level by level, lone nodes promoted, is the
\* Merkle tree hash of RFC 6962 over the batch's leaves, which halves the
\* list from the top at the largest power of two that fits.
RootIsMTH ==
    phase # "building" =>
        Root = IF leaves = <<>> THEN EmptyRoot ELSE MTH[<<1, Len(leaves)>>]

(***************************************************************************)
(* The inductive invariant: the loop invariants of the three functions.    *)
(***************************************************************************)
IsList(s) == Len(s) \in Nat /\ s = [i \in 1..Len(s) |-> s[i]]

LevelsBuilt ==
    /\ IsList(leaves) /\ IsList(levels) /\ Len(levels) >= 1
    /\ \A l \in 1..Len(levels) : IsList(levels[l]) /\ Len(levels[l]) >= 1
    /\ \A l \in 1..(Len(levels) - 1) : levels[l + 1] = NextLevel(levels[l])
    /\ levels[1] = IF leaves = <<>> THEN <<EmptyRoot>> ELSE LeafHashes
    /\ phase \in {"building", "built", "proving", "proved", "checking", "done"}
    /\ phase # "building" => Len(Top) = 1

\* Every node is the empty root, a leaf, or made of two nodes of the tree.
NodesAreMade ==
    \A h \in Nodes :
        \/ h = EmptyRoot
        \/ \E i \in 1..Len(leaves) : h = HashLeaf(Payload(leaves[i], i - 1))
        \/ \E left, right \in Nodes : h = HashInterior(left, right)

\* The proof so far leads from the leaf to the node the walk is at.
ProofLeadsUp ==
    phase \in {"proving", "proved"} \/ (phase \in {"checking", "done"} /\ own) =>
        /\ leafIndex \in Nat /\ leafIndex < Len(leaves)
        /\ level \in 1..Len(levels)
        /\ idx \in Nat /\ idx < Len(levels[level])
        /\ IsList(proof) /\ IsList(path) /\ Len(path) = Len(proof) + 1
        /\ path[1] = levels[1][leafIndex + 1]
        /\ path[Len(path)] = levels[level][idx + 1]
        /\ \A k \in 1..Len(proof) : path[k + 1] = Combine(path[k], proof[k])
        /\ phase # "proving" => level = Len(levels)

\* Verification is on the path exactly if it started with the leaf, and
\* among the tree's nodes only if it started with one.
CheckFollowsPath ==
    /\ verdict # "none" => phase = "done" /\ (verdict = "valid" <=> current = Root)
    /\ phase \in {"checking", "done"} =>
        /\ current \in Nodes => HashLeaf(record) \in Nodes
        /\ own => /\ checked \in 0..Len(proof)
                  /\ current = path[checked + 1] <=> HashLeaf(record) = path[1]
                  /\ phase = "done" => checked = Len(proof)

MIndInv == LevelsBuilt /\ NodesAreMade /\ ProofLeadsUp /\ CheckFollowsPath
=============================================================================
