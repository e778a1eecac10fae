---------------------------- MODULE MerkleProofs ----------------------------
(***************************************************************************)
(* For trees of every size and proofs of every length: genuine records     *)
(* verify with the generated proof, nothing else verifies, and the root is *)
(* the Merkle tree hash of RFC 6962.                                       *)
(***************************************************************************)
EXTENDS Merkle, TLAPS

(***************************************************************************)
(* Lists of hashes: a hash has no type, so a list is what equals itself    *)
(* written out.                                                            *)
(***************************************************************************)

\* Sequences are lists.
LEMMA SeqIsList ==
    ASSUME NEW S, NEW s \in Seq(S)
    PROVE  IsList(s)
  <1>1. Len(s) \in Nat /\ s \in [1..Len(s) -> S]
    OBVIOUS
  <1> QED
    BY <1>1 DEF IsList

\* Appending to a list of hashes, as the three loops do with append.
LEMMA AppendList ==
    ASSUME NEW s, IsList(s), NEW x
    PROVE  /\ IsList(Append(s, x))
           /\ Len(Append(s, x)) = Len(s) + 1
           /\ Append(s, x)[Len(s) + 1] = x
           /\ \A i \in 1..Len(s) : Append(s, x)[i] = s[i]
  <1> DEFINE S == {s[i] : i \in 1..Len(s)} \cup {x}
             t == Append(s, x)
  <1>1. s \in Seq(S)
    BY DEF IsList
  <1>2. t \in Seq(S)
    BY <1>1, x \in S
  <1> HIDE DEF S
  <1>3. Len(t) = Len(s) + 1 /\ t[Len(s) + 1] = x /\ \A i \in 1..Len(s) : t[i] = s[i]
    BY <1>1, <1>2
  <1>4. IsList(t)
    BY <1>2, SeqIsList
  <1> QED
    BY <1>3, <1>4

LEMMA SingletonList ==
    ASSUME NEW x
    PROVE  IsList(<<x>>) /\ Len(<<x>>) = 1 /\ <<x>>[1] = x
  <1>1. <<x>> \in Seq({x})
    OBVIOUS
  <1> QED
    BY <1>1, SeqIsList

\* A list made by a function of its positions.
LEMMA ListOf ==
    ASSUME NEW n \in Nat, NEW s, DOMAIN s = 1..n, s = [i \in 1..n |-> s[i]]
    PROVE  IsList(s) /\ Len(s) = n
  BY DEF IsList

LEMMA HalfBound ==
    ASSUME NEW m \in Nat, NEW i \in 1..((m + 1) \div 2)
    PROVE  2 * i - 1 \in 1..m
  OBVIOUS

\* The level above: its length, and the parent of each node.
LEMMA NextLevelParent ==
    ASSUME NEW s, IsList(s), Len(s) >= 1
    PROVE  LET t == NextLevel(s)
           IN  /\ IsList(t) /\ Len(t) = (Len(s) + 1) \div 2 /\ Len(t) >= 1
               /\ \A i \in 1..Len(t) : t[i] = IF 2 * i <= Len(s)
                                              THEN HashInterior(s[2 * i - 1], s[2 * i])
                                              ELSE s[2 * i - 1]
  <1> DEFINE t == NextLevel(s)
             n == (Len(s) + 1) \div 2
  <1>1. n \in Nat /\ n >= 1
    BY DEF IsList
  <1>2. DOMAIN t = 1..n /\ t = [i \in 1..n |-> t[i]]
    BY DEF NextLevel
  <1>3. IsList(t) /\ Len(t) = n
    BY <1>1, <1>2, ListOf
  <1>4. \A i \in 1..n : t[i] = IF 2 * i <= Len(s) THEN HashInterior(s[2 * i - 1], s[2 * i])
                               ELSE s[2 * i - 1]
    BY DEF NextLevel
  <1> QED
    BY <1>1, <1>3, <1>4

\* Hashes are equal only if they were made of equal parts.
LEMMA HashesFree ==
    ASSUME NEW u, NEW v, NEW x, NEW y
    PROVE  /\ HashInterior(u, v) = HashInterior(x, y) <=> u = x /\ v = y
           /\ HashLeaf(u) = HashLeaf(x) <=> u = x
           /\ HashInterior(u, v) # HashLeaf(x)
           /\ HashInterior(u, v) # EmptyRoot
           /\ HashLeaf(u) # EmptyRoot
  BY DEF HashInterior, HashLeaf, EmptyRoot

LEMMA CombineInjective ==
    ASSUME NEW u, NEW v, NEW node, node.isLeft \in BOOLEAN
    PROVE  Combine(u, node) = Combine(v, node) <=> u = v
  BY HashesFree DEF Combine

\* A node of the tree, by its level and its place.
LEMMA NodeAt ==
    ASSUME NEW l \in 1..Len(levels), NEW i \in 1..Len(levels[l])
    PROVE  levels[l][i] \in Nodes
  BY DEF Nodes

(***************************************************************************)
(* The initial states.                                                     *)
(***************************************************************************)

LEMMA MIndInvInit == MInit => MIndInv
  <1> SUFFICES ASSUME MInit PROVE MIndInv
    OBVIOUS
  <1>1. PICK n \in 0..MaxLeaves : leaves \in [1..n -> Content]
    BY DEF MInit
  <1>2. IsList(leaves) /\ Len(leaves) = n
    BY <1>1, ListOf, MerkleAssumption
  <1>3. IsList(LeafHashes) /\ Len(LeafHashes) = n
    BY <1>2, ListOf, MerkleAssumption DEF LeafHashes
  <1>4. leaves # <<>> => n >= 1
    BY <1>1, <1>2
  <1> DEFINE bottom == IF leaves = <<>> THEN <<EmptyRoot>> ELSE LeafHashes
  <1>5. IsList(bottom) /\ Len(bottom) >= 1
    <2>1. IsList(<<EmptyRoot>>) /\ Len(<<EmptyRoot>>) = 1
      BY SingletonList
    <2> QED
      BY <2>1, <1>3, <1>4
  <1>6. levels = <<bottom>>
    BY DEF MInit
  <1> HIDE DEF bottom
  <1>7. IsList(levels) /\ Len(levels) = 1 /\ levels[1] = bottom
    BY <1>6, SingletonList
  <1>8. LevelsBuilt
    BY <1>2, <1>5, <1>7 DEF LevelsBuilt, MInit, bottom
  <1>9. NodesAreMade
    <2> SUFFICES ASSUME NEW h \in Nodes
                 PROVE  h = EmptyRoot \/ \E i \in 1..Len(leaves) : h = HashLeaf(Payload(leaves[i], i - 1))
      BY DEF NodesAreMade
    <2>1. PICK i \in 1..Len(bottom) : h = bottom[i]
      BY <1>7 DEF Nodes
    <2>2. CASE leaves = <<>>
      BY <2>1, <2>2 DEF bottom
    <2>3. CASE leaves # <<>>
      <3>1. bottom = LeafHashes
        BY <2>3 DEF bottom
      <3> QED
        BY <2>1, <3>1, <1>2, <1>3 DEF LeafHashes
    <2> QED
      BY <2>2, <2>3
  <1>10. ProofLeadsUp /\ CheckFollowsPath
    BY DEF MInit, ProofLeadsUp, CheckFollowsPath
  <1> QED
    BY <1>8, <1>9, <1>10 DEF MIndInv

(***************************************************************************)
(* BuildTree.                                                              *)
(***************************************************************************)

LEMMA BuildLevelStep == MIndInv /\ BuildLevel => MIndInv'
  <1> SUFFICES ASSUME MIndInv, BuildLevel PROVE MIndInv'
    OBVIOUS
  <1> DEFINE n == Len(levels)
             top == levels[n]
             new == NextLevel(top)
  <1>1. IsList(levels) /\ n \in Nat /\ n >= 1 /\ IsList(top) /\ Len(top) > 1
    BY DEF MIndInv, LevelsBuilt, BuildLevel, Top, IsList
  <1>2. levels' = Append(levels, new) /\ leaves' = leaves /\ phase' = "building"
        /\ phase = "building"
    BY DEF BuildLevel, Top
  <1>3. /\ IsList(levels') /\ Len(levels') = n + 1
        /\ levels'[n + 1] = new /\ \A l \in 1..n : levels'[l] = levels[l]
    BY <1>1, <1>2, AppendList
  <1>4. IsList(new) /\ Len(new) >= 1
    BY <1>1, NextLevelParent
  <1>5. LevelsBuilt'
    <2>1. IsList(leaves)' /\ IsList(levels)' /\ Len(levels') >= 1
      BY <1>1, <1>2, <1>3 DEF MIndInv, LevelsBuilt
    <2>2. \A l \in 1..Len(levels') : IsList(levels'[l]) /\ Len(levels'[l]) >= 1
      BY <1>1, <1>3, <1>4 DEF MIndInv, LevelsBuilt
    <2>3. \A l \in 1..(Len(levels') - 1) : levels'[l + 1] = NextLevel(levels'[l])
      <3> SUFFICES ASSUME NEW l \in 1..n PROVE levels'[l + 1] = NextLevel(levels'[l])
        BY <1>1, <1>3
      <3>1. CASE l = n
        BY <1>1, <1>3, <3>1
      <3>2. CASE l # n
        <4>1. l \in 1..(n - 1) /\ l + 1 \in 1..n
          BY <1>1, <3>2
        <4> QED
          BY <4>1, <1>3 DEF MIndInv, LevelsBuilt
      <3> QED
        BY <3>1, <3>2
    <2>4. levels'[1] = IF leaves' = <<>> THEN <<EmptyRoot>> ELSE LeafHashes'
      BY <1>1, <1>2, <1>3 DEF MIndInv, LevelsBuilt, LeafHashes
    <2> QED
      BY <2>1, <2>2, <2>3, <2>4, <1>2 DEF LevelsBuilt, LeafHashes
  <1>6. Nodes \subseteq Nodes'
    <2> SUFFICES ASSUME NEW h \in Nodes PROVE h \in Nodes'
      OBVIOUS
    <2>0. PICK l \in 1..n : \E i \in 1..Len(levels[l]) : h = levels[l][i]
      BY DEF Nodes
    <2>1. PICK i \in 1..Len(levels[l]) : h = levels[l][i]
      BY <2>0
    <2>2. l \in 1..Len(levels') /\ levels'[l] = levels[l]
      BY <1>1, <1>3
    <2> QED
      BY <2>1, <2>2 DEF Nodes
  <1>7. NodesAreMade'
    <2> SUFFICES ASSUME NEW h \in Nodes'
                 PROVE  \/ h = EmptyRoot
                        \/ \E i \in 1..Len(leaves) : h = HashLeaf(Payload(leaves[i], i - 1))
                        \/ \E left, right \in Nodes' : h = HashInterior(left, right)
      BY <1>2 DEF NodesAreMade
    <2>0. PICK l \in 1..(n + 1) : \E i \in 1..Len(levels'[l]) : h = levels'[l][i]
      BY <1>3 DEF Nodes
    <2>1. PICK i \in 1..Len(levels'[l]) : h = levels'[l][i]
      BY <2>0
    <2>2. CASE h \in Nodes
      BY <2>2, <1>6 DEF MIndInv, NodesAreMade
    <2>3. CASE h \notin Nodes
      <3>1. l = n + 1 /\ i \in 1..Len(new) /\ h = new[i]
        <4>1. l \notin 1..n
          BY <2>1, <2>3, <1>3, NodeAt
        <4> QED
          BY <2>1, <4>1, <1>1, <1>3
      <3>2. h = IF 2 * i <= Len(top) THEN HashInterior(top[2 * i - 1], top[2 * i])
                ELSE top[2 * i - 1]
        BY <3>1, <1>1, NextLevelParent
      <3>3. 2 * i - 1 \in 1..Len(top)
        <4>1. Len(top) \in Nat /\ Len(top) >= 1
          BY <1>1 DEF IsList
        <4>2. Len(new) = (Len(top) + 1) \div 2
          BY <1>1, <4>1, NextLevelParent
        <4> QED
          BY <3>1, <4>1, <4>2, HalfBound
      <3>4. top[2 * i - 1] \in Nodes
        BY <3>3, <1>1, NodeAt
      <3>5. 2 * i <= Len(top)
        BY <3>2, <3>4, <2>3
      <3>6. top[2 * i] \in Nodes
        <4>1. 2 * i \in 1..Len(top)
          BY <3>1, <3>5, <1>1 DEF IsList
        <4> QED
          BY <4>1, <1>1, NodeAt
      <3> QED
        BY <3>2, <3>4, <3>5, <3>6, <1>6
    <2> QED
      BY <2>2, <2>3
  <1>8. ProofLeadsUp' /\ CheckFollowsPath'
    BY <1>2 DEF MIndInv, ProofLeadsUp, CheckFollowsPath, BuildLevel, checking
  <1> QED
    BY <1>5, <1>7, <1>8 DEF MIndInv

\* Once built, the tree stays as it is.
LEMMA TreeUnchanged ==
    ASSUME MIndInv, UNCHANGED tree, phase # "building" \/ Len(Top) = 1,
           phase' \in {"built", "proving", "proved", "checking", "done"}
    PROVE  LevelsBuilt' /\ NodesAreMade' /\ Nodes' = Nodes /\ Root' = Root
  <1>1. leaves' = leaves /\ levels' = levels
    BY DEF tree
  <1>2. LevelsBuilt'
    BY <1>1 DEF MIndInv, LevelsBuilt, LeafHashes, Top
  <1>3. Nodes' = Nodes /\ Root' = Root
    BY <1>1 DEF Nodes, Root, Top
  <1>4. NodesAreMade'
    BY <1>1, <1>3 DEF MIndInv, NodesAreMade
  <1> QED
    BY <1>2, <1>3, <1>4

LEMMA BuildDoneStep == MIndInv /\ BuildDone => MIndInv'
  <1> SUFFICES ASSUME MIndInv, BuildDone PROVE MIndInv'
    OBVIOUS
  <1>1. LevelsBuilt' /\ NodesAreMade'
    BY TreeUnchanged DEF BuildDone
  <1>2. ProofLeadsUp' /\ CheckFollowsPath'
    BY DEF MIndInv, ProofLeadsUp, CheckFollowsPath, BuildDone, checking
  <1> QED
    BY <1>1, <1>2 DEF MIndInv

(***************************************************************************)
(* GenerateProof.                                                          *)
(***************************************************************************)

LEMMA GenerateProofStep ==
    ASSUME MIndInv, NEW i \in Nat, GenerateProof(i)
    PROVE  MIndInv'
  <1>1. LevelsBuilt' /\ NodesAreMade'
    BY TreeUnchanged DEF GenerateProof
  <1>2. /\ leaves' = leaves /\ levels' = levels
        /\ phase' = "proving" /\ leafIndex' = i /\ idx' = i /\ level' = 1
        /\ proof' = <<>> /\ path' = <<levels[1][i + 1]>> /\ verdict' = verdict
        /\ i < Len(leaves) /\ verdict = "none"
    BY DEF GenerateProof, tree, checking, MIndInv, CheckFollowsPath
  <1>3. IsList(proof') /\ Len(proof') = 0
    <2>1. <<>> \in Seq({})
      OBVIOUS
    <2> QED
      BY <2>1, <1>2, SeqIsList
  <1>4. IsList(path') /\ Len(path') = 1 /\ path'[1] = levels[1][i + 1]
    BY <1>2, SingletonList
  <1>5. Len(levels) >= 1 /\ Len(levels) \in Nat /\ i < Len(levels[1])
    <2>1. Len(levels) >= 1 /\ Len(levels) \in Nat /\ IsList(leaves)
      BY DEF MIndInv, LevelsBuilt, IsList
    <2>2. leaves # <<>>
      BY <1>2
    <2>3. levels[1] = LeafHashes
      BY <2>2 DEF MIndInv, LevelsBuilt
    <2>4. Len(LeafHashes) = Len(leaves)
      BY <2>1, ListOf DEF LeafHashes, IsList
    <2> QED
      BY <2>1, <2>3, <2>4, <1>2
  <1>6. ProofLeadsUp'
    BY <1>2, <1>3, <1>4, <1>5 DEF ProofLeadsUp
  <1>7. CheckFollowsPath'
    BY <1>2 DEF CheckFollowsPath
  <1> QED
    BY <1>1, <1>6, <1>7 DEF MIndInv

\* The parent of the node at idx is the node itself combined with its
\* sibling, or the node promoted where there is none.
LEMMA ParentOfNode ==
    ASSUME NEW s, IsList(s), NEW k \in Nat, k < Len(s)
    PROVE  LET sib == IF k % 2 = 0 THEN k + 1 ELSE k - 1
               node == [hash |-> s[sib + 1], isLeft |-> k % 2 # 0]
               up == NextLevel(s)[(k \div 2) + 1]
           IN  /\ k \div 2 \in Nat /\ k \div 2 < Len(NextLevel(s))
               /\ up = IF sib < Len(s) THEN Combine(s[k + 1], node) ELSE s[k + 1]
  <1> DEFINE n == Len(s)
             i == (k \div 2) + 1
  <1>1. n \in Nat /\ n >= 1
    BY DEF IsList
  <1>2. i \in 1..((n + 1) \div 2)
    BY <1>1
  <1>3. /\ Len(NextLevel(s)) = (n + 1) \div 2
        /\ NextLevel(s)[i] = IF 2 * i <= n THEN HashInterior(s[2 * i - 1], s[2 * i])
                             ELSE s[2 * i - 1]
    BY <1>1, <1>2, NextLevelParent
  <1> DEFINE sib == IF k % 2 = 0 THEN k + 1 ELSE k - 1
             node == [hash |-> s[sib + 1], isLeft |-> k % 2 # 0]
  <1>0. k \div 2 \in Nat /\ k \div 2 < Len(NextLevel(s))
    BY <1>1, <1>2, <1>3
  <1>4. CASE k % 2 = 0
    <2>1. /\ sib = k + 1 /\ sib + 1 = k + 2
          /\ 2 * i - 1 = k + 1 /\ 2 * i = k + 2 /\ (2 * i <= n <=> k + 1 < n)
      BY <1>1, <1>4
    <2>2. Combine(s[k + 1], node) = HashInterior(s[k + 1], s[k + 2])
      <3>1. node.isLeft = FALSE /\ node.hash = s[k + 2]
        BY <1>4, <2>1
      <3> HIDE DEF node
      <3> QED
        BY <3>1 DEF Combine
    <2> HIDE DEF node, sib, i
    <2>3. NextLevel(s)[i] = IF sib < n THEN Combine(s[k + 1], node) ELSE s[k + 1]
      BY <2>1, <2>2, <1>3
    <2> QED
      BY <2>3, <1>0 DEF node, sib, i
  <1>5. CASE k % 2 # 0
    <2>1. /\ sib = k - 1 /\ sib + 1 = k /\ k - 1 < n
          /\ 2 * i - 1 = k /\ 2 * i = k + 1 /\ 2 * i <= n
      BY <1>1, <1>5
    <2>2. Combine(s[k + 1], node) = HashInterior(s[k], s[k + 1])
      <3>1. node.isLeft = TRUE /\ node.hash = s[k]
        BY <1>5, <2>1
      <3> HIDE DEF node
      <3> QED
        BY <3>1 DEF Combine
    <2> HIDE DEF node, sib, i
    <2>3. NextLevel(s)[i] = IF sib < n THEN Combine(s[k + 1], node) ELSE s[k + 1]
      BY <2>1, <2>2, <1>3
    <2> QED
      BY <2>3, <1>0 DEF node, sib, i
  <1> QED
    BY <1>4, <1>5

LEMMA ProofLevelStep == MIndInv /\ ProofLevel => MIndInv'
  <1> SUFFICES ASSUME MIndInv, ProofLevel PROVE MIndInv'
    OBVIOUS
  <1>1. LevelsBuilt' /\ NodesAreMade'
    BY TreeUnchanged DEF ProofLevel
  <1> DEFINE nodes == levels[level]
             node == [hash |-> nodes[Sibling + 1], isLeft |-> idx % 2 # 0]
             m == Len(proof)
  <1>2. /\ leaves' = leaves /\ levels' = levels
        /\ phase = "proving" /\ phase' = "proving" /\ leafIndex' = leafIndex
        /\ idx' = idx \div 2 /\ level' = level + 1 /\ level < Len(levels)
        /\ verdict' = verdict /\ verdict = "none"
    BY DEF ProofLevel, tree, checking, MIndInv, CheckFollowsPath
  <1>3. /\ leafIndex \in Nat /\ leafIndex < Len(leaves)
        /\ level \in 1..Len(levels) /\ idx \in Nat /\ idx < Len(nodes)
        /\ IsList(proof) /\ IsList(path) /\ Len(path) = m + 1 /\ m \in Nat
        /\ path[1] = levels[1][leafIndex + 1]
        /\ path[Len(path)] = nodes[idx + 1]
        /\ \A k \in 1..m : path[k + 1] = Combine(path[k], proof[k])
    BY <1>2 DEF MIndInv, ProofLeadsUp, IsList
  <1>4. Len(levels) \in Nat /\ IsList(nodes) /\ levels[level + 1] = NextLevel(nodes)
    <2>1. Len(levels) \in Nat
      BY DEF MIndInv, LevelsBuilt, IsList
    <2>2. level \in 1..(Len(levels) - 1)
      BY <2>1, <1>2, <1>3
    <2> QED
      BY <2>1, <2>2, <1>3 DEF MIndInv, LevelsBuilt
  <1>5. /\ level' \in 1..Len(levels') /\ idx' \in Nat /\ idx' < Len(levels'[level'])
        /\ levels'[level'][idx' + 1] =
                IF HasSibling THEN Combine(nodes[idx + 1], node) ELSE nodes[idx + 1]
    <2>1. /\ idx \div 2 \in Nat /\ idx \div 2 < Len(NextLevel(nodes))
          /\ NextLevel(nodes)[(idx \div 2) + 1] =
                IF Sibling < Len(nodes) THEN Combine(nodes[idx + 1], node) ELSE nodes[idx + 1]
      BY <1>3, <1>4, ParentOfNode DEF Sibling
    <2>2. level' \in 1..Len(levels') /\ levels'[level'] = NextLevel(nodes)
      BY <1>2, <1>3, <1>4
    <2> QED
      BY <2>1, <2>2, <1>2 DEF HasSibling
  <1> HIDE DEF node
  <1>6. CASE HasSibling
    <2>1. proof' = Append(proof, node) /\ path' = Append(path, Combine(path[Len(path)], node))
      BY <1>6 DEF ProofLevel, node
    <2>2. /\ IsList(proof') /\ Len(proof') = m + 1 /\ proof'[m + 1] = node
          /\ \A k \in 1..m : proof'[k] = proof[k]
      BY <2>1, <1>3, AppendList
    <2>3. /\ IsList(path') /\ Len(path') = m + 2
          /\ path'[m + 2] = Combine(path[m + 1], node)
          /\ \A k \in 1..(m + 1) : path'[k] = path[k]
      BY <2>1, <1>3, AppendList
    <2>4. path'[1] = levels'[1][leafIndex' + 1]
      BY <2>3, <1>2, <1>3
    <2>5. path'[Len(path')] = levels'[level'][idx' + 1]
      BY <2>3, <1>3, <1>5, <1>6
    <2>6. \A k \in 1..Len(proof') : path'[k + 1] = Combine(path'[k], proof'[k])
      <3> SUFFICES ASSUME NEW k \in 1..(m + 1)
                   PROVE  path'[k + 1] = Combine(path'[k], proof'[k])
        BY <2>2
      <3>1. CASE k = m + 1
        BY <3>1, <2>2, <2>3, <1>3
      <3>2. CASE k # m + 1
        <4>1. k \in 1..m /\ k + 1 \in 1..(m + 1) /\ k \in 1..(m + 1)
          BY <3>2, <1>3
        <4> QED
          BY <4>1, <2>2, <2>3, <1>3
      <3> QED
        BY <3>1, <3>2
    <2> QED
      BY <2>2, <2>3, <2>4, <2>5, <2>6, <1>2, <1>3, <1>5, <1>1 DEF ProofLeadsUp, CheckFollowsPath, MIndInv
  <1>7. CASE ~ HasSibling
    <2>1. proof' = proof /\ path' = path
      BY <1>7 DEF ProofLevel
    <2>2. path'[Len(path')] = levels'[level'][idx' + 1]
      BY <2>1, <1>3, <1>5, <1>7
    <2> QED
      BY <2>1, <2>2, <1>1, <1>2, <1>3, <1>5 DEF ProofLeadsUp, CheckFollowsPath, MIndInv
  <1> QED
    BY <1>6, <1>7

LEMMA ProofDoneStep == MIndInv /\ ProofDone => MIndInv'
  <1> SUFFICES ASSUME MIndInv, ProofDone PROVE MIndInv'
    OBVIOUS
  <1>1. LevelsBuilt' /\ NodesAreMade'
    BY TreeUnchanged DEF ProofDone
  <1>2. ProofLeadsUp'
    BY DEF MIndInv, ProofLeadsUp, ProofDone, proving, tree, Combine
  <1>3. CheckFollowsPath'
    BY DEF MIndInv, CheckFollowsPath, ProofDone, checking
  <1> QED
    BY <1>1, <1>2, <1>3 DEF MIndInv


(***************************************************************************)
(* VerifyProof.                                                            *)
(***************************************************************************)

LEMMA VerifyProofStep ==
    ASSUME MIndInv, NEW rec, VerifyProof(rec)
    PROVE  MIndInv'
  <1>1. LevelsBuilt' /\ NodesAreMade' /\ Nodes' = Nodes
    BY TreeUnchanged DEF VerifyProof
  <1>2. /\ record' = rec /\ own' = (phase = "proved") /\ checked' = 0
        /\ current' = HashLeaf(rec) /\ verdict' = "none"
        /\ phase \in {"built", "proved"} /\ phase' = "checking"
    BY DEF VerifyProof
  <1>3. /\ leaves' = leaves /\ levels' = levels
        /\ leafIndex' = leafIndex /\ idx' = idx /\ level' = level
        /\ proof' = proof /\ path' = path
    BY DEF VerifyProof, tree, proving
  <1>4. own' => phase = "proved"
    BY <1>2
  <1>5. ProofLeadsUp'
    BY <1>2, <1>3, <1>4 DEF MIndInv, ProofLeadsUp
  <1>6. own' => checked' \in 0..Len(proof')
    BY <1>2, <1>3, <1>4 DEF MIndInv, ProofLeadsUp, IsList
  <1>7. CheckFollowsPath'
    BY <1>1, <1>2, <1>6 DEF CheckFollowsPath
  <1> QED
    BY <1>1, <1>5, <1>7 DEF MIndInv

LEMMA FoldNodeStep ==
    ASSUME MIndInv, NEW node \in ProofNode, FoldNode(node)
    PROVE  MIndInv'
  <1>1. LevelsBuilt' /\ NodesAreMade' /\ Nodes' = Nodes
    BY TreeUnchanged DEF FoldNode
  <1>2. /\ phase = "checking" /\ phase' = "checking"
        /\ current' = Combine(current, node) /\ checked' = checked + 1
        /\ record' = record /\ own' = own /\ verdict' = verdict
        /\ own => checked < Len(proof) /\ node = proof[checked + 1]
    BY DEF FoldNode
  <1>3. /\ leaves' = leaves /\ levels' = levels
        /\ leafIndex' = leafIndex /\ idx' = idx /\ level' = level
        /\ proof' = proof /\ path' = path
    BY DEF FoldNode, tree, proving
  <1>4. ProofLeadsUp'
    BY <1>2, <1>3 DEF MIndInv, ProofLeadsUp
  <1>5. node.isLeft \in BOOLEAN
    BY DEF ProofNode
  <1>6. verdict = "none"
    BY <1>2 DEF MIndInv, CheckFollowsPath
  <1>7. current' \in Nodes => HashLeaf(record) \in Nodes
    <2> SUFFICES ASSUME current' \in Nodes PROVE current \in Nodes
      BY <1>2 DEF MIndInv, CheckFollowsPath
    <2>1. PICK u, v : current' = HashInterior(u, v) /\ current \in {u, v}
      BY <1>2 DEF Combine
    <2>2. PICK left, right \in Nodes : HashInterior(u, v) = HashInterior(left, right)
      <3>1. \/ current' = EmptyRoot
            \/ \E i \in 1..Len(leaves) : current' = HashLeaf(Payload(leaves[i], i - 1))
            \/ \E left, right \in Nodes : current' = HashInterior(left, right)
        BY DEF MIndInv, NodesAreMade
      <3>2. current' # EmptyRoot /\ \A data : current' # HashLeaf(data)
        BY <2>1, HashesFree
      <3> QED
        BY <3>1, <3>2, <2>1
    <2>3. u = left /\ v = right
      BY <2>2, HashesFree
    <2> QED
      BY <2>1, <2>3
  <1>8. own => /\ checked' \in 0..Len(proof)
               /\ current' = path[checked' + 1] <=> HashLeaf(record) = path[1]
    <2> SUFFICES ASSUME own
                 PROVE  /\ checked' \in 0..Len(proof)
                        /\ current' = path[checked' + 1] <=> HashLeaf(record) = path[1]
      OBVIOUS
    <2>1. Len(proof) \in Nat /\ checked \in 0..Len(proof)
      BY <1>2 DEF MIndInv, ProofLeadsUp, CheckFollowsPath, IsList
    <2>2. checked + 1 \in 1..Len(proof)
      BY <2>1, <1>2
    <2>3. path[(checked + 1) + 1] = Combine(path[checked + 1], node)
      BY <2>2, <1>2 DEF MIndInv, ProofLeadsUp
    <2>4. current = path[checked + 1] <=> HashLeaf(record) = path[1]
      BY <1>2 DEF MIndInv, CheckFollowsPath
    <2>5. Combine(current, node) = Combine(path[checked + 1], node)
             <=> current = path[checked + 1]
      BY <1>5, CombineInjective
    <2> QED
      BY <2>1, <2>2, <2>3, <2>4, <2>5, <1>2
  <1>9. CheckFollowsPath'
    BY <1>1, <1>2, <1>3, <1>6, <1>7, <1>8 DEF CheckFollowsPath
  <1> QED
    BY <1>1, <1>4, <1>9 DEF MIndInv

LEMMA CompareStep == MIndInv /\ Compare => MIndInv'
  <1> SUFFICES ASSUME MIndInv, Compare PROVE MIndInv'
    OBVIOUS
  <1>1. LevelsBuilt' /\ NodesAreMade' /\ Nodes' = Nodes /\ Root' = Root
    BY TreeUnchanged DEF Compare
  <1>2. /\ phase = "checking" /\ phase' = "done"
        /\ verdict' = (IF current = Root THEN "valid" ELSE "invalid")
        /\ record' = record /\ own' = own /\ checked' = checked /\ current' = current
        /\ own => checked = Len(proof)
    BY DEF Compare
  <1>3. /\ leaves' = leaves /\ levels' = levels
        /\ leafIndex' = leafIndex /\ idx' = idx /\ level' = level
        /\ proof' = proof /\ path' = path
    BY DEF Compare, tree, proving
  <1>4. ProofLeadsUp'
    BY <1>2, <1>3 DEF MIndInv, ProofLeadsUp
  <1>5. CheckFollowsPath'
    BY <1>1, <1>2, <1>3 DEF MIndInv, CheckFollowsPath
  <1> QED
    BY <1>1, <1>4, <1>5 DEF MIndInv

\* Every step of the three functions keeps the invariant.
LEMMA MIndInvInductive == MIndInv /\ [MNext]_mvars => MIndInv'
  <1> SUFFICES ASSUME MIndInv, [MNext]_mvars PROVE MIndInv'
    OBVIOUS
  <1>1. CASE BuildLevel
    BY <1>1, BuildLevelStep
  <1>2. CASE BuildDone
    BY <1>2, BuildDoneStep
  <1>3. ASSUME NEW i \in 0..(MaxLeaves - 1), GenerateProof(i) PROVE MIndInv'
    BY <1>3, GenerateProofStep, MerkleAssumption
  <1>4. CASE ProofLevel
    BY <1>4, ProofLevelStep
  <1>5. CASE ProofDone
    BY <1>5, ProofDoneStep
  <1>6. ASSUME NEW rec, VerifyProof(rec) PROVE MIndInv'
    BY <1>6, VerifyProofStep
  <1>7. ASSUME NEW node \in ProofNode, FoldNode(node) PROVE MIndInv'
    BY <1>7, FoldNodeStep
  <1>8. CASE Compare
    BY <1>8, CompareStep
  <1>9. CASE UNCHANGED mvars
    <2>1. /\ leaves' = leaves /\ levels' = levels /\ phase' = phase
          /\ leafIndex' = leafIndex /\ idx' = idx /\ level' = level
          /\ proof' = proof /\ path' = path /\ record' = record /\ own' = own
          /\ checked' = checked /\ current' = current /\ verdict' = verdict
      BY <1>9 DEF mvars, tree, proving, checking
    <2>2. Nodes' = Nodes /\ Top' = Top /\ Root' = Root /\ LeafHashes' = LeafHashes
      BY <2>1 DEF Nodes, Root, Top, LeafHashes
    <2>3. LevelsBuilt'
      BY <2>1, <2>2 DEF MIndInv, LevelsBuilt
    <2>4. NodesAreMade'
      BY <2>1, <2>2 DEF MIndInv, NodesAreMade
    <2>5. ProofLeadsUp'
      BY <2>1 DEF MIndInv, ProofLeadsUp
    <2>6. CheckFollowsPath'
      BY <2>1, <2>2 DEF MIndInv, CheckFollowsPath
    <2> QED
      BY <2>3, <2>4, <2>5, <2>6 DEF MIndInv
  <1> QED
    BY <1>1, <1>2, <1>3, <1>4, <1>5, <1>6, <1>7, <1>8, <1>9 DEF MNext

(***************************************************************************)
(* The root is the Merkle tree hash of RFC 6962.  Each round of BuildTree  *)
(* doubles the number w of leaves below a node, and with it the length up  *)
(* to which the recursion of RFC 6962 is known to have a solution.         *)
(***************************************************************************)

\* w is reached by doubling 1: a power of two, the next one is 2 * w, and
\* lists of up to w leaves can be split.
Doubled(w) ==
    /\ w \in Nat \ {0} /\ PowerOfTwo(w)
    /\ \A p \in (w + 1)..(2 * w - 1) : ~ PowerOfTwo(p)
    /\ \A m \in 2..w : SplitPoint(m) \in 1..(m - 1)

LEMMA OneIsDoubled == Doubled(1)
  BY DEF Doubled, PowerOfTwo

\* The product of odd numbers is odd.
LEMMA OddProduct ==
    ASSUME NEW d \in Nat, NEW e \in Nat, d % 2 # 0, (d * e) % 2 = 0
    PROVE  e % 2 = 0
  <1> SUFFICES ASSUME e % 2 # 0 PROVE FALSE
    OBVIOUS
  <1>1. PICK x \in Nat : d = 2 * x + 1
    <2>1. d \div 2 \in Nat /\ d = 2 * (d \div 2) + 1
      OBVIOUS
    <2> QED
      BY <2>1
  <1>2. PICK y \in Nat : e = 2 * y + 1
    <2>1. e \div 2 \in Nat /\ e = 2 * (e \div 2) + 1
      OBVIOUS
    <2> QED
      BY <2>1
  <1>3. PICK z \in Nat : z = x * y
    BY <1>1, <1>2
  <1>4. d * e = 2 * (2 * z + x + y) + 1
    BY <1>1, <1>2, <1>3
  <1>5. PICK q \in Nat : q = 2 * z + x + y
    BY <1>1, <1>2, <1>3
  <1>6. d * e = 2 * q + 1
    BY <1>4, <1>5
  <1>7. (2 * q + 1) % 2 = 1
    BY <1>5
  <1> QED
    BY <1>6, <1>7

\* Twice a power of two is one, and half of one, if it is even, is one.
LEMMA TwiceIsPower ==
    ASSUME NEW w \in Nat \ {0}, PowerOfTwo(w)
    PROVE  PowerOfTwo(2 * w)
  <1> SUFFICES ASSUME NEW d \in 1..(2 * w), NEW e \in 1..(2 * w), d * e = 2 * w, d # 1, d % 2 # 0
               PROVE  FALSE
    BY DEF PowerOfTwo
  <1>1. (d * e) % 2 = 0
    <2>1. (2 * w) % 2 = 0
      OBVIOUS
    <2> QED
      BY <2>1
  <1>2. e % 2 = 0
    BY <1>1, OddProduct
  <1>3. PICK f \in Nat : e = 2 * f
    <2>1. e \div 2 \in Nat /\ e = 2 * (e \div 2)
      BY <1>2
    <2> QED
      BY <2>1
  <1>4. d * f = w
    <2>1. d * (2 * f) = 2 * (d * f)
      BY <1>3
    <2>2. d * f \in Nat
      BY <1>3
    <2> QED
      BY <1>3, <2>1, <2>2
  <1>5. d \in 1..w /\ f \in 1..w
    BY <1>3, <1>4
  <1> QED
    BY <1>4, <1>5 DEF PowerOfTwo

LEMMA HalfIsPower ==
    ASSUME NEW w \in Nat \ {0}, PowerOfTwo(2 * w)
    PROVE  PowerOfTwo(w)
  <1> SUFFICES ASSUME NEW d \in 1..w, NEW e \in 1..w, d * e = w, d # 1
               PROVE  d % 2 = 0
    BY DEF PowerOfTwo
  <1>1. PICK f : f = 2 * e
    OBVIOUS
  <1>2. d * f = 2 * w /\ d \in 1..(2 * w) /\ f \in 1..(2 * w)
    BY <1>1
  <1> QED
    BY <1>2 DEF PowerOfTwo

LEMMA SplitsInHalf ==
    ASSUME NEW w, Doubled(w), NEW m \in (w + 1)..(2 * w)
    PROVE  SplitPoint(m) = w /\ w \in 1..(m - 1)
  <1>1. w \in Nat /\ w >= 1 /\ m \in Nat /\ w \in 1..(m - 1)
    BY DEF Doubled
  <1>2. \A p \in 1..(m - 1) : PowerOfTwo(p) => p <= w
    <2> SUFFICES ASSUME NEW p \in 1..(m - 1), PowerOfTwo(p), p > w PROVE FALSE
      BY <1>1
    <2>1. p \in (w + 1)..(2 * w - 1)
      BY <1>1
    <2> QED
      BY <2>1 DEF Doubled
  <1> DEFINE Q(k) == PowerOfTwo(k) /\ \A p \in 1..(m - 1) : PowerOfTwo(p) => p <= k
  <1>3. Q(w)
    BY <1>2 DEF Doubled
  <1>4. ASSUME NEW k \in 1..(m - 1), Q(k) PROVE k = w
    <2>1. k <= w /\ w <= k
      BY <1>1, <1>2, <1>3, <1>4
    <2> QED
      BY <1>1, <2>1
  <1>5. SplitPoint(m) = CHOOSE k \in 1..(m - 1) : Q(k)
    BY DEF SplitPoint
  <1> HIDE DEF Q
  <1> QED
    BY <1>1, <1>3, <1>4, <1>5

LEMMA DoublesAgain ==
    ASSUME NEW w, Doubled(w)
    PROVE  Doubled(2 * w)
  <1>1. w \in Nat \ {0} /\ PowerOfTwo(w)
    BY DEF Doubled
  <1>2. 2 * w \in Nat \ {0} /\ PowerOfTwo(2 * w)
    BY <1>1, TwiceIsPower
  <1>3. ASSUME NEW p \in (2 * w + 1)..(2 * (2 * w) - 1), PowerOfTwo(p) PROVE FALSE
    <2>1. p \in Nat /\ p > 1 /\ p * 1 = p /\ p \in 1..p /\ 1 \in 1..p
      BY <1>1
    <2>2. p % 2 = 0
      BY <1>3, <2>1 DEF PowerOfTwo
    <2>3. PICK q \in Nat : p = 2 * q
      <3>1. p \div 2 \in Nat /\ p = 2 * (p \div 2)
        BY <2>1, <2>2
      <3> QED
        BY <3>1
    <2>4. q \in (w + 1)..(2 * w - 1) /\ q \in Nat \ {0}
      BY <1>1, <2>3
    <2>5. PowerOfTwo(q)
      BY <1>3, <2>3, <2>4, HalfIsPower
    <2> QED
      BY <2>4, <2>5 DEF Doubled
  <1>4. ASSUME NEW m \in 2..(2 * w) PROVE SplitPoint(m) \in 1..(m - 1)
    <2>1. CASE m \in 2..w
      BY <2>1 DEF Doubled
    <2>2. CASE m \notin 2..w
      <3>1. m \in (w + 1)..(2 * w)
        BY <1>1, <2>2
      <3> QED
        BY <3>1, SplitsInHalf
    <2> QED
      BY <2>1, <2>2
  <1> QED
    BY <1>2, <1>3, <1>4 DEF Doubled

\* What RFC 6962 makes of the leaves hs from lo to hi, given the hashes T of
\* the shorter lists.
SubtreeHash(T, hs, lo, hi) ==
    IF lo >= hi THEN hs[lo]
    ELSE LET k == SplitPoint(hi + 1 - lo)
         IN  HashInterior(T[<<lo, lo + k - 1>>], T[<<lo + k, hi>>])

\* T holds the Merkle tree hashes of all lists of up to w of n leaves.
Solves(T, hs, n, w) ==
    /\ T = [r \in (1..n) \X (1..n) |-> T[r]]
    /\ \A lo, hi \in 1..n : hi < lo + w => T[<<lo, hi>>] = SubtreeHash(T, hs, lo, hi)

\* The hashes of shorter lists are all that counts.
LEMMA ShorterCounts ==
    ASSUME NEW w, Doubled(w), NEW n \in Nat, NEW hs, NEW lo \in 1..n, NEW hi \in 1..n,
           hi < lo + 2 * w, NEW T, NEW U,
           \A x, y \in 1..n : y < x + w => U[<<x, y>>] = T[<<x, y>>]
    PROVE  SubtreeHash(U, hs, lo, hi) = SubtreeHash(T, hs, lo, hi)
  <1>1. CASE lo >= hi
    BY <1>1 DEF SubtreeHash
  <1>2. CASE lo < hi
    <2>1. PICK m \in Nat : m = hi + 1 - lo /\ m >= 2 /\ m <= 2 * w
      <3>1. w \in Nat
        BY DEF Doubled
      <3> QED
        BY <1>2, <3>1
    <2>2. PICK k : k = SplitPoint(m)
      OBVIOUS
    <2>3. k \in 1..(m - 1) /\ k <= w /\ m - k <= w /\ w \in Nat
      <3>1. w \in Nat \ {0}
        BY DEF Doubled
      <3>2. CASE m <= w
        <4>1. m \in 2..w
          BY <2>1, <3>1, <3>2
        <4>2. k \in 1..(m - 1)
          BY <2>2, <4>1 DEF Doubled
        <4> QED
          BY <2>1, <3>1, <3>2, <4>2
      <3>3. CASE m > w
        <4>1. m \in (w + 1)..(2 * w)
          BY <2>1, <3>1, <3>3
        <4>2. k = w
          BY <2>2, <4>1, SplitsInHalf
        <4> QED
          BY <2>1, <3>1, <3>3, <4>2
      <3> QED
        BY <2>1, <3>1, <3>2, <3>3
    <2>4. /\ lo + k - 1 \in 1..n /\ lo + k \in 1..n
          /\ lo + k - 1 < lo + w /\ hi < (lo + k) + w
      BY <2>1, <2>3
    <2>5. U[<<lo, lo + k - 1>>] = T[<<lo, lo + k - 1>>] /\ U[<<lo + k, hi>>] = T[<<lo + k, hi>>]
      BY <2>4
    <2>6. ~ (lo >= hi) /\ SplitPoint(hi + 1 - lo) = k
      BY <1>2, <2>1, <2>2
    <2> QED
      BY <2>5, <2>6 DEF SubtreeHash
  <1> QED
    BY <1>1, <1>2

\* The recursion of RFC 6962 has a solution for lists of every length.
LEMMA OneIsSolved ==
    ASSUME NEW n \in Nat, NEW hs
    PROVE  \E T : Solves(T, hs, n, 1)
  <1> DEFINE T == [r \in (1..n) \X (1..n) |-> hs[r[1]]]
  <1>1. T = [r \in (1..n) \X (1..n) |-> T[r]]
    OBVIOUS
  <1>2. ASSUME NEW lo \in 1..n, NEW hi \in 1..n, hi < lo + 1
        PROVE  T[<<lo, hi>>] = SubtreeHash(T, hs, lo, hi)
    <2>1. lo >= hi /\ T[<<lo, hi>>] = hs[lo]
      BY <1>2
    <2> HIDE DEF T
    <2> QED
      BY <2>1 DEF SubtreeHash
  <1> HIDE DEF T
  <1>3. Solves(T, hs, n, 1)
    BY <1>1, <1>2 DEF Solves
  <1> QED
    BY <1>3

LEMMA TwiceIsSolved ==
    ASSUME NEW w, Doubled(w), NEW n \in Nat, NEW hs, NEW T, Solves(T, hs, n, w)
    PROVE  \E U : Solves(U, hs, n, 2 * w)
  <1> DEFINE U == [r \in (1..n) \X (1..n) |->
                      IF r[2] < r[1] + w THEN T[r] ELSE SubtreeHash(T, hs, r[1], r[2])]
  <1>1. U = [r \in (1..n) \X (1..n) |-> U[r]]
    OBVIOUS
  <1>2. ASSUME NEW lo \in 1..n, NEW hi \in 1..n
        PROVE  U[<<lo, hi>>] = IF hi < lo + w THEN T[<<lo, hi>>] ELSE SubtreeHash(T, hs, lo, hi)
    <2>1. <<lo, hi>> \in (1..n) \X (1..n) /\ <<lo, hi>>[1] = lo /\ <<lo, hi>>[2] = hi
      OBVIOUS
    <2> QED
      BY <2>1
  <1> HIDE DEF U
  <1>3. \A x, y \in 1..n : y < x + w => U[<<x, y>>] = T[<<x, y>>]
    BY <1>2
  <1>4. ASSUME NEW lo \in 1..n, NEW hi \in 1..n, hi < lo + 2 * w
        PROVE  U[<<lo, hi>>] = SubtreeHash(U, hs, lo, hi)
    <2>1. SubtreeHash(U, hs, lo, hi) = SubtreeHash(T, hs, lo, hi)
      BY <1>3, <1>4, ShorterCounts
    <2>2. hi < lo + w => T[<<lo, hi>>] = SubtreeHash(T, hs, lo, hi)
      BY DEF Solves
    <2> QED
      BY <1>2, <2>1, <2>2
  <1>5. Solves(U, hs, n, 2 * w)
    BY <1>1, <1>4 DEF Solves
  <1> QED
    BY <1>5

\* The nodes of a level are the hashes of w leaves each, the last of what is left.
Upper(x, n) == IF x <= n THEN x ELSE n

LevelHashes(nodes, hs, n, w) ==
    /\ (Len(nodes) - 1) * w < n /\ n <= Len(nodes) * w
    /\ \A T : Solves(T, hs, n, w) =>
          \A j \in 1..Len(nodes) : nodes[j] = T[<<(j - 1) * w + 1, Upper(j * w, n)>>]

LEMMA BottomHashes ==
    ASSUME NEW hs, IsList(hs), Len(hs) >= 1
    PROVE  LevelHashes(hs, hs, Len(hs), 1)
  <1>1. PICK n \in Nat : n = Len(hs)
    BY DEF IsList
  <1>2. (n - 1) * 1 < n /\ n <= n * 1
    BY <1>1
  <1>3. ASSUME NEW T, Solves(T, hs, n, 1), NEW j \in 1..n
        PROVE  hs[j] = T[<<(j - 1) * 1 + 1, Upper(j * 1, n)>>]
    <2>1. (j - 1) * 1 + 1 = j /\ Upper(j * 1, n) = j /\ j < j + 1 /\ j >= j
      BY <1>1 DEF Upper
    <2>2. T[<<j, j>>] = SubtreeHash(T, hs, j, j)
      BY <1>3, <2>1 DEF Solves
    <2>3. SubtreeHash(T, hs, j, j) = hs[j]
      BY <2>1 DEF SubtreeHash
    <2> QED
      BY <2>1, <2>2, <2>3
  <1> QED
    BY <1>1, <1>2, <1>3 DEF LevelHashes

\* The place of node i of the level above among the leaves, with its two
\* children, or with the lone one.
LEMMA PairBounds ==
    ASSUME NEW w \in Nat \ {0}, NEW n \in Nat, NEW c \in Nat, (c - 1) * w < n, n <= c * w,
           NEW i \in Nat, i >= 1, 2 * i <= c
    PROVE  /\ (2 * i - 1) * w < n
           /\ (2 * i - 1 - 1) * w = (i - 1) * (2 * w)
           /\ (2 * i - 1) * w = (i - 1) * (2 * w) + w
           /\ (2 * i) * w = i * (2 * w) /\ i * (2 * w) = (i - 1) * (2 * w) + 2 * w
           /\ (i - 1) * (2 * w) \in Nat
  <1>1. PICK x \in Nat : x = i * w
    OBVIOUS
  <1>2. /\ (2 * i - 1 - 1) * w = 2 * x - 2 * w /\ (i - 1) * (2 * w) = 2 * x - 2 * w
        /\ (2 * i - 1) * w = 2 * x - w /\ (2 * i) * w = 2 * x /\ i * (2 * w) = 2 * x
    BY <1>1
  <1>3. (2 * i - 1) * w <= (c - 1) * w
    <2>1. PICK d \in Nat : c = 2 * i + d
      <3>1. c - 2 * i \in Nat
        OBVIOUS
      <3> QED
        BY <3>1
    <2>2. (c - 1) * w = (2 * i - 1) * w + d * w /\ d * w \in Nat
      BY <2>1
    <2> QED
      BY <1>2, <2>2
  <1>4. x >= w
    <2>1. PICK d \in Nat : i = 1 + d
      <3>1. i - 1 \in Nat
        OBVIOUS
      <3> QED
        BY <3>1
    <2>2. i * w = w + d * w /\ d * w \in Nat
      BY <2>1
    <2> QED
      BY <1>1, <2>2
  <1>5. c - 1 \in Nat /\ (c - 1) * w \in Nat
    OBVIOUS
  <1> QED
    BY <1>1, <1>2, <1>3, <1>4, <1>5

LonePlace(w, n, c, i) ==
    /\ (c - 1) * w = (i - 1) * (2 * w)
    /\ Upper(c * w, n) = n /\ Upper(i * (2 * w), n) = n

LEMMA LoneBounds ==
    ASSUME NEW w \in Nat \ {0}, NEW n \in Nat, NEW c \in Nat, n <= c * w,
           NEW i \in Nat, i >= 1, 2 * i = c + 1
    PROVE  LonePlace(w, n, c, i)
  <1>1. PICK x \in Nat : x = i * w
    OBVIOUS
  <1>2. /\ (c - 1) * w = 2 * x - 2 * w /\ (i - 1) * (2 * w) = 2 * x - 2 * w
        /\ c * w = 2 * x - w /\ i * (2 * w) = 2 * x
    BY <1>1
  <1>3. n <= i * (2 * w)
    BY <1>1, <1>2
  <1>4. c * w \in Nat /\ i * (2 * w) \in Nat
    OBVIOUS
  <1> QED
    BY <1>2, <1>3, <1>4 DEF Upper, LonePlace

LEMMA LengthBounds ==
    ASSUME NEW w \in Nat \ {0}, NEW n \in Nat, NEW c \in Nat, c >= 1, (c - 1) * w < n, n <= c * w
    PROVE  LET h == (c + 1) \div 2 IN (h - 1) * (2 * w) < n /\ n <= h * (2 * w)
  <1>1. PICK h \in Nat : h = (c + 1) \div 2 /\ (c = 2 * h \/ c = 2 * h - 1)
    OBVIOUS
  <1>2. PICK x \in Nat : x = h * w
    BY <1>1
  <1>3. h * (2 * w) = 2 * x /\ (h - 1) * (2 * w) = 2 * x - 2 * w
    BY <1>1, <1>2
  <1>4. CASE c = 2 * h
    <2>1. c * w = 2 * x /\ (c - 1) * w = 2 * x - w
      BY <1>1, <1>2, <1>4
    <2> QED
      BY <1>1, <1>2, <1>3, <2>1
  <1>5. CASE c = 2 * h - 1
    <2>1. c * w = 2 * x - w /\ (c - 1) * w = 2 * x - 2 * w
      BY <1>1, <1>2, <1>5
    <2> QED
      BY <1>1, <1>2, <1>3, <2>1
  <1> QED
    BY <1>1, <1>4, <1>5

LEMMA NextLevelHashes ==
    ASSUME NEW w, Doubled(w), NEW nodes, IsList(nodes), Len(nodes) >= 1,
           NEW n \in Nat, NEW hs, LevelHashes(nodes, hs, n, w)
    PROVE  LevelHashes(NextLevel(nodes), hs, n, 2 * w)
  <1>1. w \in Nat \ {0}
    BY DEF Doubled
  <1>2. PICK c \in Nat : c = Len(nodes)
    BY DEF IsList
  <1>3. c >= 1 /\ (c - 1) * w < n /\ n <= c * w
    BY <1>2 DEF LevelHashes
  <1>4. PICK up : up = NextLevel(nodes)
    OBVIOUS
  <1>5. /\ IsList(up) /\ Len(up) = (c + 1) \div 2
        /\ \A i \in 1..Len(up) :
              up[i] = IF 2 * i <= c THEN HashInterior(nodes[2 * i - 1], nodes[2 * i])
                      ELSE nodes[2 * i - 1]
    BY <1>2, <1>4, NextLevelParent
  <1>6. (Len(up) - 1) * (2 * w) < n /\ n <= Len(up) * (2 * w)
    BY <1>1, <1>3, <1>5, LengthBounds
  <1>7. ASSUME NEW T, Solves(T, hs, n, 2 * w), NEW i \in 1..Len(up)
        PROVE  up[i] = T[<<(i - 1) * (2 * w) + 1, Upper(i * (2 * w), n)>>]
    <2>1. Solves(T, hs, n, w)
      <3>1. \A lo, hi \in 1..n : hi < lo + w => hi < lo + 2 * w
        BY <1>1
      <3> QED
        BY <1>7, <3>1 DEF Solves
    <2>2. \A j \in 1..c : nodes[j] = T[<<(j - 1) * w + 1, Upper(j * w, n)>>]
      BY <1>2, <2>1 DEF LevelHashes
    <2>3. i \in Nat /\ i >= 1 /\ (2 * i <= c \/ c = 2 * i - 1)
      <3>1. i \in 1..((c + 1) \div 2)
        BY <1>5
      <3>2. 2 * i - 1 \in 1..c
        BY <3>1, HalfBound
      <3> QED
        BY <3>1, <3>2
    <2>4. CASE 2 * i <= c
      <3>1. PICK a \in Nat : a = (i - 1) * (2 * w)
        BY <1>1, <2>3
      <3>2. /\ (2 * i - 1) * w < n /\ (2 * i - 1 - 1) * w = a
            /\ (2 * i - 1) * w = a + w /\ (2 * i) * w = a + 2 * w /\ i * (2 * w) = a + 2 * w
        BY <1>1, <1>3, <2>3, <2>4, <3>1, PairBounds
      <3>3. PICK z \in Nat : z = Upper(a + 2 * w, n)
        BY <1>1, <3>1 DEF Upper
      <3>4. /\ a + 1 \in 1..n /\ a + w \in 1..n /\ a + 1 + w \in 1..n /\ z \in 1..n
            /\ z < (a + 1) + 2 * w /\ z + 1 - (a + 1) \in (w + 1)..(2 * w)
            /\ Upper(a + w, n) = a + w /\ ~ (a + 1 >= z)
            /\ (a + 1) + w - 1 = a + w
        BY <1>1, <3>1, <3>2, <3>3 DEF Upper
      <3>5. 2 * i - 1 \in 1..c /\ 2 * i \in 1..c
        BY <1>2, <2>3, <2>4
      <3>6. nodes[2 * i - 1] = T[<<a + 1, a + w>>]
        BY <2>2, <3>2, <3>4, <3>5
      <3>7. nodes[2 * i] = T[<<a + 1 + w, z>>]
        <4>1. (2 * i - 1) * w + 1 = a + 1 + w
          BY <1>1, <3>1, <3>2
        <4> QED
          BY <2>2, <3>2, <3>3, <3>5, <4>1
      <3>8. SplitPoint(z + 1 - (a + 1)) = w
        BY <3>4, SplitsInHalf
      <3>9. T[<<a + 1, z>>] = SubtreeHash(T, hs, a + 1, z)
        BY <1>7, <3>4 DEF Solves
      <3>10. T[<<a + 1, z>>] = HashInterior(T[<<a + 1, a + w>>], T[<<a + 1 + w, z>>])
        BY <3>4, <3>8, <3>9 DEF SubtreeHash
      <3>11. up[i] = HashInterior(nodes[2 * i - 1], nodes[2 * i])
        BY <1>5, <2>4
      <3> QED
        BY <3>1, <3>2, <3>3, <3>6, <3>7, <3>10, <3>11
    <2>5. CASE c = 2 * i - 1
      <3>1. /\ (c - 1) * w = (i - 1) * (2 * w)
            /\ Upper(c * w, n) = n /\ Upper(i * (2 * w), n) = n
        <4>1. 2 * i = c + 1
          BY <2>3, <2>5
        <4>2. LonePlace(w, n, c, i)
          BY <1>1, <1>3, <2>3, <4>1, LoneBounds
        <4> QED
          BY <4>2 DEF LonePlace
      <3>2. up[i] = nodes[c]
        BY <1>2, <1>5, <2>3, <2>5
      <3>3. nodes[c] = T[<<(c - 1) * w + 1, Upper(c * w, n)>>]
        BY <1>2, <1>3, <2>2
      <3> QED
        BY <3>1, <3>2, <3>3
    <2> QED
      BY <2>3, <2>4, <2>5
  <1> QED
    BY <1>4, <1>6, <1>7 DEF LevelHashes

\* The loop invariant of BuildTree for the hashes themselves.
TopIsHashed ==
    /\ leaves = <<>> => Len(levels) = 1
    /\ leaves # <<>> =>
          \E w : /\ Doubled(w)
                 /\ \E T : Solves(T, LeafHashes, Len(leaves), w)
                 /\ LevelHashes(Top, LeafHashes, Len(leaves), w)

LEMMA LeavesCounted ==
    ASSUME LevelsBuilt, leaves # <<>>
    PROVE  /\ Len(leaves) \in Nat /\ Len(leaves) >= 1
           /\ IsList(LeafHashes) /\ Len(LeafHashes) = Len(leaves)
           /\ levels[1] = LeafHashes
  <1>1. Len(leaves) \in Nat /\ leaves = [i \in 1..Len(leaves) |-> leaves[i]]
    BY DEF LevelsBuilt, IsList
  <1>2. Len(leaves) >= 1
    <2>1. Len(leaves) = 0 => leaves = <<>>
      BY <1>1
    <2> QED
      BY <1>1, <2>1
  <1>3. DOMAIN LeafHashes = 1..Len(leaves) /\ LeafHashes = [i \in 1..Len(leaves) |-> LeafHashes[i]]
    BY DEF LeafHashes
  <1>4. IsList(LeafHashes) /\ Len(LeafHashes) = Len(leaves)
    BY <1>1, <1>3, ListOf
  <1> QED
    BY <1>1, <1>2, <1>4 DEF LevelsBuilt

LEMMA TopHashedInit == MInit => TopIsHashed
  <1> SUFFICES ASSUME MInit PROVE TopIsHashed
    OBVIOUS
  <1>1. LevelsBuilt
    BY MIndInvInit DEF MIndInv
  <1>2. Len(levels) = 1
    BY SingletonList DEF MInit
  <1>3. CASE leaves # <<>>
    <2>1. Top = LeafHashes
      BY <1>1, <1>2, <1>3, LeavesCounted DEF Top
    <2>2. LevelHashes(LeafHashes, LeafHashes, Len(leaves), 1)
      <3>1. LevelHashes(LeafHashes, LeafHashes, Len(LeafHashes), 1)
        BY <1>1, <1>3, LeavesCounted, BottomHashes
      <3> QED
        BY <1>1, <1>3, <3>1, LeavesCounted
    <2>3. \E T : Solves(T, LeafHashes, Len(leaves), 1)
      BY <1>1, <1>3, LeavesCounted, OneIsSolved
    <2> QED
      BY <1>2, <1>3, <2>1, <2>2, <2>3, OneIsDoubled DEF TopIsHashed
  <1> QED
    BY <1>2, <1>3 DEF TopIsHashed

LEMMA TopHashedBuild ==
    ASSUME MIndInv, TopIsHashed, BuildLevel
    PROVE  TopIsHashed'
  <1>1. LevelsBuilt /\ IsList(levels) /\ Len(levels) \in Nat /\ Len(levels) >= 1
    BY DEF MIndInv, LevelsBuilt, IsList
  <1>2. leaves' = leaves /\ LeafHashes' = LeafHashes /\ Len(Top) > 1
        /\ levels' = Append(levels, NextLevel(Top))
    BY DEF BuildLevel, LeafHashes
  <1>3. Top' = NextLevel(Top)
    BY <1>1, <1>2, AppendList DEF Top
  <1>4. leaves # <<>>
    <2> SUFFICES ASSUME leaves = <<>> PROVE FALSE
      OBVIOUS
    <2>1. Len(levels) = 1
      BY DEF TopIsHashed
    <2>2. Top = <<EmptyRoot>>
      BY <1>1, <2>1 DEF LevelsBuilt, Top
    <2> QED
      BY <1>2, <2>2, SingletonList
  <1>5. PICK w : /\ Doubled(w)
                 /\ \E T : Solves(T, LeafHashes, Len(leaves), w)
                 /\ LevelHashes(Top, LeafHashes, Len(leaves), w)
    BY <1>4 DEF TopIsHashed
  <1>6. Len(leaves) \in Nat
    BY <1>1, <1>4, LeavesCounted
  <1>7. IsList(Top) /\ Len(Top) >= 1
    BY <1>1 DEF LevelsBuilt, Top
  <1>8. LevelHashes(NextLevel(Top), LeafHashes, Len(leaves), 2 * w)
    BY <1>5, <1>6, <1>7, NextLevelHashes
  <1>9. \E T : Solves(T, LeafHashes, Len(leaves), 2 * w)
    BY <1>5, <1>6, TwiceIsSolved
  <1>10. Doubled(2 * w)
    BY <1>5, DoublesAgain
  <1>11. PICK v : v = 2 * w
    OBVIOUS
  <1>12. /\ Doubled(v)
         /\ \E T : Solves(T, LeafHashes', Len(leaves'), v)
         /\ LevelHashes(Top', LeafHashes', Len(leaves'), v)
    BY <1>2, <1>3, <1>8, <1>9, <1>10, <1>11
  <1>13. leaves' # <<>>
    BY <1>2, <1>4
  <1> QED
    BY <1>12, <1>13 DEF TopIsHashed

LEMMA TopHashedInductive == MIndInv /\ TopIsHashed /\ [MNext]_mvars => TopIsHashed'
  <1> SUFFICES ASSUME MIndInv, TopIsHashed, [MNext]_mvars PROVE TopIsHashed'
    OBVIOUS
  <1>1. CASE BuildLevel
    BY <1>1, TopHashedBuild
  <1>2. CASE UNCHANGED <<leaves, levels>>
    <2>1. LeafHashes' = LeafHashes /\ Top' = Top /\ leaves' = leaves /\ levels' = levels
      BY <1>2 DEF LeafHashes, Top
    <2> QED
      BY <2>1 DEF TopIsHashed
  <1>3. BuildLevel \/ UNCHANGED <<leaves, levels>>
    BY DEF MNext, mvars, tree, BuildDone, GenerateProof, ProofLevel, ProofDone, VerifyProof,
           FoldNode, Compare
  <1> QED
    BY <1>1, <1>2, <1>3

\* Once a solution of the recursion is known, the recursive function is one.
LEMMA MTHSolves ==
    ASSUME NEW T, NEW w, Solves(T, LeafHashes, Len(leaves), w), w \in Nat, Len(leaves) \in Nat,
           Len(leaves) <= w
    PROVE  Solves(MTH, LeafHashes, Len(leaves), w)
  <1> DEFINE n == Len(leaves)
             B(U) == [r \in (1..n) \X (1..n) |->
                        IF r[1] >= r[2] THEN LeafHashes[r[1]]
                        ELSE LET k == SplitPoint(r[2] + 1 - r[1])
                             IN  HashInterior(U[<<r[1], r[1] + k - 1>>], U[<<r[1] + k, r[2]>>])]
  <1>1. \A lo, hi \in 1..n : hi < lo + w
    OBVIOUS
  <1>2. T = B(T)
    <2>1. ASSUME NEW r \in (1..n) \X (1..n) PROVE T[r] = B(T)[r]
      <3>1. r[1] \in 1..n /\ r[2] \in 1..n /\ r = <<r[1], r[2]>>
        OBVIOUS
      <3>2. T[r] = SubtreeHash(T, LeafHashes, r[1], r[2])
        BY <1>1, <3>1 DEF Solves
      <3> QED
        BY <3>2 DEF SubtreeHash
    <2>2. T = [r \in (1..n) \X (1..n) |-> T[r]]
      BY DEF Solves
    <2>3. T = [r \in (1..n) \X (1..n) |-> B(T)[r]]
      BY <2>1, <2>2
    <2> QED
      BY <2>3
  <1>3. MTH = CHOOSE U : U = B(U)
    BY DEF MTH
  <1> HIDE DEF B
  <1>4. MTH = B(MTH)
    BY <1>2, <1>3
  <1>5. MTH = [r \in (1..n) \X (1..n) |-> MTH[r]]
    BY <1>4 DEF B
  <1>6. ASSUME NEW lo \in 1..n, NEW hi \in 1..n
        PROVE  MTH[<<lo, hi>>] = SubtreeHash(MTH, LeafHashes, lo, hi)
    <2>1. PICK U : U = MTH
      OBVIOUS
    <2>2. <<lo, hi>> \in (1..n) \X (1..n) /\ <<lo, hi>>[1] = lo /\ <<lo, hi>>[2] = hi
      OBVIOUS
    <2>3. B(U)[<<lo, hi>>] = SubtreeHash(U, LeafHashes, lo, hi)
      BY <2>2 DEF B, SubtreeHash
    <2> QED
      BY <1>4, <2>1, <2>3
  <1> QED
    BY <1>5, <1>6 DEF Solves

(***************************************************************************)
(* The theorems.                                                           *)
(***************************************************************************)

\* The loop invariants of BuildTree, GenerateProof and VerifyProof hold for
\* batches of every size and proofs of every length.
THEOREM MerkleLoops == MSpec => []MIndInv
  BY MIndInvInit, MIndInvInductive, PTL DEF MSpec

\* A genuine record verifies with the proof GenerateProof makes for its
\* index, and nothing else does with that proof.
THEOREM GenuineVerifies == MSpec => []GenuineIsValid
  <1>1. MIndInv => GenuineIsValid
    <2> SUFFICES ASSUME MIndInv, verdict # "none", own
                 PROVE  verdict = "valid" <=> record = Payload(leaves[leafIndex + 1], leafIndex)
      BY DEF GenuineIsValid
    <2>1. /\ phase = "done" /\ (verdict = "valid" <=> current = Root)
          /\ checked = Len(proof)
          /\ current = path[checked + 1] <=> HashLeaf(record) = path[1]
      BY DEF MIndInv, CheckFollowsPath
    <2>2. /\ leafIndex \in Nat /\ leafIndex < Len(leaves)
          /\ level = Len(levels) /\ idx \in Nat /\ idx < Len(levels[level])
          /\ Len(path) = Len(proof) + 1
          /\ path[1] = levels[1][leafIndex + 1]
          /\ path[Len(path)] = levels[level][idx + 1]
      BY <2>1 DEF MIndInv, ProofLeadsUp
    <2>3. path[checked + 1] = Root
      <3>1. Len(Top) = 1
        BY <2>1 DEF MIndInv, LevelsBuilt
      <3>2. idx = 0
        BY <2>2, <3>1 DEF Top
      <3> QED
        BY <2>1, <2>2, <3>2 DEF Root, Top
    <2>4. path[1] = HashLeaf(Payload(leaves[leafIndex + 1], leafIndex))
      <3>1. IsList(leaves) /\ Len(leaves) \in Nat
        BY DEF MIndInv, LevelsBuilt, IsList
      <3>2. leaves # <<>>
        BY <2>2
      <3>3. levels[1] = LeafHashes
        BY <3>2 DEF MIndInv, LevelsBuilt
      <3>4. leafIndex + 1 \in 1..Len(leaves) /\ (leafIndex + 1) - 1 = leafIndex
        BY <2>2, <3>1
      <3> QED
        BY <2>2, <3>3, <3>4 DEF LeafHashes
    <2> QED
      BY <2>1, <2>3, <2>4, HashesFree
  <1> QED
    BY <1>1, MerkleLoops, PTL

\* Whatever the proof, a record that verifies is one the root was signed
\* for, with its contents and at its index.
THEOREM ValidRecordsSigned == MSpec => []ValidIsSigned
  <1>1. MIndInv => ValidIsSigned
    <2> SUFFICES ASSUME MIndInv, verdict = "valid" PROVE Signed(record)
      BY DEF ValidIsSigned
    <2>1. phase = "done" /\ current = Root
      BY DEF MIndInv, CheckFollowsPath
    <2>2. Root \in Nodes
      <3>1. Len(levels) \in Nat /\ Len(levels) >= 1
        BY DEF MIndInv, LevelsBuilt, IsList
      <3>2. Len(levels[Len(levels)]) = 1
        BY <2>1 DEF MIndInv, LevelsBuilt, Top
      <3> QED
        BY <3>1, <3>2, NodeAt DEF Root, Top
    <2>3. HashLeaf(record) \in Nodes
      BY <2>1, <2>2 DEF MIndInv, CheckFollowsPath
    <2> QED
      <3> DEFINE h == HashLeaf(record)
      <3>1. \/ h = EmptyRoot
            \/ \E i \in 1..Len(leaves) : h = HashLeaf(Payload(leaves[i], i - 1))
            \/ \E left, right \in Nodes : h = HashInterior(left, right)
        BY <2>3 DEF MIndInv, NodesAreMade
      <3>2. h # EmptyRoot /\ \A left, right : h # HashInterior(left, right)
        BY HashesFree
      <3>3. PICK i \in 1..Len(leaves) : h = HashLeaf(Payload(leaves[i], i - 1))
        BY <3>1, <3>2
      <3>4. record = Payload(leaves[i], i - 1)
        BY <3>3, HashesFree
      <3> QED
        BY <3>4 DEF Signed
  <1> QED
    BY <1>1, MerkleLoops, PTL

\* Whatever the number of leaves, the root of BuildTree, which pairs nodes
\* from below and promotes a lone one, is the Merkle tree hash of RFC 6962,
\* which splits the list of leaves from above.
THEOREM RootsAreTreeHashes == MSpec => []RootIsMTH
  <1>1. MIndInv /\ TopIsHashed => RootIsMTH
    <2> SUFFICES ASSUME MIndInv, TopIsHashed, phase # "building"
                 PROVE  Root = IF leaves = <<>> THEN EmptyRoot ELSE MTH[<<1, Len(leaves)>>]
      BY DEF RootIsMTH
    <2>1. LevelsBuilt /\ Len(Top) = 1
      BY DEF MIndInv, LevelsBuilt
    <2>2. CASE leaves = <<>>
      <3>1. Top = <<EmptyRoot>>
        BY <2>1, <2>2 DEF TopIsHashed, LevelsBuilt, Top
      <3> QED
        BY <2>2, <3>1, SingletonList DEF Root
    <2>3. CASE leaves # <<>>
      <3>1. PICK n \in Nat : n = Len(leaves) /\ n >= 1
        BY <2>1, <2>3, LeavesCounted
      <3>2. PICK w : /\ Doubled(w)
                     /\ \E T : Solves(T, LeafHashes, n, w)
                     /\ LevelHashes(Top, LeafHashes, n, w)
        BY <2>3, <3>1 DEF TopIsHashed
      <3>3. w \in Nat /\ n <= w
        <4>1. w \in Nat /\ n <= 1 * w
          BY <2>1, <3>2 DEF Doubled, LevelHashes
        <4> QED
          BY <4>1
      <3>4. Solves(MTH, LeafHashes, n, w)
        BY <3>1, <3>2, <3>3, MTHSolves
      <3>5. Top[1] = MTH[<<(1 - 1) * w + 1, Upper(1 * w, n)>>]
        BY <2>1, <3>2, <3>4 DEF LevelHashes
      <3>6. (1 - 1) * w + 1 = 1 /\ Upper(1 * w, n) = n
        BY <3>1, <3>3 DEF Upper
      <3> QED
        BY <2>3, <3>1, <3>5, <3>6 DEF Root
    <2> QED
      BY <2>2, <2>3
  <1> QED
    BY <1>1, MerkleLoops, TopHashedInit, TopHashedInductive, PTL DEF MSpec
=============================================================================
