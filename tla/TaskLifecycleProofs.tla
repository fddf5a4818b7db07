-------------------------- MODULE TaskLifecycleProofs --------------------------
(***************************************************************************)
(* Proofs about TaskRules and TaskLifecycle, for any bounds.               *)
(*                                                                         *)
(* The graph of commits only grows, and what a commit descends from and    *)
(* the product it brings never change (GraphOk, Extends).  Rebase is a     *)
(* recursion over the graph: its steps are shown to be well defined and to *)
(* keep GraphOk by looking at the first one that is not.                   *)
(***************************************************************************)
EXTENDS TaskLifecycle, FiniteSetTheorems, SequenceTheorems, TLAPS

-----------------------------------------------------------------------------
(* The values.                                                              *)

Backlog == [status: Statuses, class: Classes, alloc: BOOLEAN, shared: BOOLEAN, merged: Nat]
Handover == [cand: Nat, complete: BOOLEAN]

Trees == [backlog: Backlog, PLAN: {"none", "draft", "approved", "v2"}, QA_PLAN: {"draft", "approved", "reviewed"},
          REVIEW_RESULT: {"pending", "pass", "other", "foreign"}, QA_RESULT: {"pending", "pass", "other"},
          HANDOVER: Handover, product: SUBSET Changes]

Commit == [parents: Seq(Nat), tree: Trees, ancestors: SUBSET Nat]

\* Ancestry is what Git keeps of it: every commit descends from the first one
\* and from itself, from nothing younger, and from all that its ancestors
\* descend from.  No commit on the way takes a product change back.
Descends(g, c) ==
    /\ {1, c} \subseteq Ancestors(g, c) /\ Ancestors(g, c) \subseteq 1..c
    /\ \A a \in Ancestors(g, c) : /\ Ancestors(g, a) \subseteq Ancestors(g, c)
                                  /\ Tree(g, a).product \subseteq Tree(g, c).product
    /\ \A i \in DOMAIN g[c].parents : g[c].parents[i] \in Ancestors(g, c) \ {c}

GraphOk(g) == g \in Seq(Commit) /\ Len(g) > 0 /\ \A c \in 1..Len(g) : Descends(g, c)

HeadsInv ==
    /\ {main, remote} \subseteq DOMAIN commits
    /\ {branch, request, told, candidate} \subseteq DOMAIN commits \cup {NoCommit}
    /\ work \in Trees
    /\ worktree \in {"none", "clean"} \cup DevChanges
    /\ worktree = "none" <=> branch = NoCommit

\* What a script that waits will go back to if it gives up.
Waiting == op.before \in DOMAIN commits /\ (told # NoCommit => told \in Ancestors(commits, op.before))

EvidenceOps ==
    [kind: {"evidence"}, planning: BOOLEAN, retry: 0..2, outage: BOOLEAN, commit: Nat, before: Nat,
     branch: Nat, next: {"end", "cleanup"}]

GateOps == [kind: {"merging", "publishing"}, cand: Nat, before: Nat, start: Trees, push: BOOLEAN, validate: BOOLEAN]

\* The planning gate has moved the branch along main and can move it back.
Evidence ==
    /\ op \in EvidenceOps /\ op.commit = main /\ work = Tree(commits, main) /\ Waiting
    /\ op.planning => /\ {op.branch, branch} \subseteq DOMAIN commits
                      /\ Tree(commits, branch).product \subseteq Tree(commits, op.before).product

\* The documents are those with which the gate began.
Started == \A f \in Documents : work[f] = op.start[f]

Merging ==
    /\ op \in GateOps /\ op.kind = "merging" /\ Waiting /\ Started
    /\ op.before = main /\ op.cand \in DOMAIN commits \ Ancestors(commits, main)
    /\ work.product \subseteq Changes
    /\ Tree(commits, main).product \cup Tree(commits, op.cand).product \subseteq work.product

Publishing ==
    /\ op \in GateOps /\ op.kind = "publishing" /\ Waiting /\ Started
    /\ op.before < main /\ work = Tree(commits, main)

OpInv ==
    \/ op = Idle
    \/ op = [kind |-> "cleanup"] /\ work = Tree(commits, main)
    \/ op.kind = "evidence" /\ Evidence
    \/ op.kind = "merging" /\ Merging
    \/ op.kind = "publishing" /\ Publishing

LifecycleInv == GraphOk(commits) /\ HeadsInv /\ OpInv /\ ToldIsPublished

-----------------------------------------------------------------------------
(* Numbers: a set of them has a least element, a bounded one a greatest.    *)

\* The intervals 0..n for n in the set are ordered by inclusion, which is
\* well-founded on the subsets of a finite set.
LEMMA Least ==
    ASSUME NEW S \in SUBSET Nat, S # {}
    PROVE  \E m \in S : \A n \in S : m <= n
<1>1. PICK top \in S : TRUE
  OBVIOUS
<1> DEFINE Below == 0..top
           T == {i \in SUBSET Below : \E n \in S : n <= top /\ i = 0..n}
<1>2. IsFiniteSet(Below)
  BY <1>1, FS_Interval
<1>3. IsWellFoundedOn(StrictSubsetOrdering(Below), SUBSET Below)
  BY <1>2, FS_StrictSubsetOrderingWellFounded, FS_FiniteSubsetsOfFinite
<1>4. T \subseteq SUBSET Below /\ T # {}
  <2>1. top <= top /\ Below \in SUBSET Below /\ Below = 0..top
    BY <1>1
  <2>2. Below \in T
    BY <1>1, <2>1
  <2>3. QED
    BY <2>2
<1>5. PICK i \in T : \A j \in T : <<j, i>> \notin StrictSubsetOrdering(Below)
  <2> HIDE DEF T, Below
  <2>1. QED
    BY <1>3, <1>4, WFMin
<1>6. PICK m \in S : m <= top /\ i = 0..m
  BY <1>5
<1>7. ASSUME NEW n \in S, n < m PROVE FALSE
  <2>1. 0..n \in T
    BY <1>1, <1>6, <1>7
  <2>2. 0..n \subseteq 0..m /\ m \in 0..m /\ m \notin 0..n
    BY <1>6, <1>7
  <2>3. <<0..n, i>> \in StrictSubsetOrdering(Below)
    BY <1>6, <2>1, <2>2 DEF StrictSubsetOrdering
  <2>4. QED
    BY <1>5, <2>1, <2>3
<1>8. QED
  BY <1>6, <1>7

LEMMA Greatest ==
    ASSUME NEW S \in SUBSET Nat, NEW top \in Nat, S # {}, \A n \in S : n <= top
    PROVE  \E m \in S : \A n \in S : n <= m
<1> DEFINE T == {k \in Nat : top - k \in S}
<1>1. T \in SUBSET Nat /\ T # {}
  <2>1. PICK n \in S : TRUE
    OBVIOUS
  <2>2. top - n \in Nat /\ top - (top - n) = n
    OBVIOUS
  <2>3. QED
    BY <2>1, <2>2
<1>2. PICK k \in T : \A n \in T : k <= n
  <2> HIDE DEF T
  <2>1. QED
    BY <1>1, Least
<1>3. ASSUME NEW n \in S PROVE n <= top - k
  <2>1. top - n \in Nat /\ top - (top - n) = n
    OBVIOUS
  <2>2. top - n \in T
    BY <2>1
  <2>3. k <= top - n
    BY <1>2, <2>2
  <2>4. QED
    BY <1>2, <2>3
<1>4. QED
  BY <1>2, <1>3

-----------------------------------------------------------------------------
(* The graph.                                                               *)

Extends(g, h) == Len(g) <= Len(h) /\ \A c \in 1..Len(g) : h[c] = g[c]

LEMMA GraphFacts ==
    ASSUME NEW g, GraphOk(g)
    PROVE  /\ g \in Seq(Commit) /\ Len(g) \in Nat \ {0} /\ DOMAIN g = 1..Len(g)
           /\ \A c \in 1..Len(g) :
                /\ Tree(g, c) \in Trees /\ Ancestors(g, c) \subseteq 1..c
                /\ c \in Ancestors(g, c) /\ 1 \in Ancestors(g, c)
                /\ \A a \in Ancestors(g, c) : /\ Ancestors(g, a) \subseteq Ancestors(g, c)
                                              /\ Tree(g, a).product \subseteq Tree(g, c).product
<1>1. g \in Seq(Commit) /\ Len(g) \in Nat \ {0} /\ DOMAIN g = 1..Len(g)
  BY LenProperties DEF GraphOk
<1>2. \A c \in 1..Len(g) : g[c] \in Commit
  BY <1>1, ElementOfSeq
<1>3. QED
  BY <1>1, <1>2 DEF GraphOk, Descends, Tree, Ancestors, Commit

\* A commit that has one or two parents and takes nothing of theirs back.
LEMMA ChildOf ==
    ASSUME NEW g, GraphOk(g), NEW a \in 1..Len(g), NEW b \in 1..Len(g), NEW p, (p = <<a>> /\ b = a) \/ p = <<a, b>>,
           NEW tree \in Trees, Tree(g, a).product \cup Tree(g, b).product \subseteq tree.product
    PROVE  LET h == Append(g, Child(g, p, tree)) IN
           /\ GraphOk(h) /\ Extends(g, h) /\ Len(h) = Len(g) + 1
           /\ Tree(h, Len(g) + 1) = tree /\ h[Len(g) + 1] = Child(g, p, tree)
           /\ Ancestors(h, Len(g) + 1) = {Len(g) + 1} \cup Ancestors(g, a) \cup Ancestors(g, b)
<1> DEFINE n == Len(g) + 1
           k == Child(g, p, tree)
           h == Append(g, k)
<1>1. /\ g \in Seq(Commit) /\ Len(g) \in Nat \ {0}
      /\ \A c \in 1..Len(g) :
           /\ Tree(g, c) \in Trees /\ Ancestors(g, c) \subseteq 1..c
           /\ c \in Ancestors(g, c) /\ 1 \in Ancestors(g, c)
           /\ \A x \in Ancestors(g, c) : /\ Ancestors(g, x) \subseteq Ancestors(g, c)
                                         /\ Tree(g, x).product \subseteq Tree(g, c).product
  BY GraphFacts
<1>2. UNION {Ancestors(g, p[i]) : i \in DOMAIN p} = Ancestors(g, a) \cup Ancestors(g, b)
  <2>1. CASE p = <<a>> /\ b = a
    <3>1. DOMAIN p = {1} /\ p[1] = a
      BY <2>1
    <3>2. QED
      BY <2>1, <3>1
  <2>2. CASE p = <<a, b>>
    <3>1. DOMAIN p = {1, 2} /\ p[1] = a /\ p[2] = b
      BY <2>2
    <3>2. QED
      BY <2>2, <3>1
  <2>3. QED
    BY <2>1, <2>2
<1>3. k.tree = tree /\ k.ancestors = {n} \cup Ancestors(g, a) \cup Ancestors(g, b) /\ k.parents = p
  BY <1>2 DEF Child
<1>4. k \in Commit
  <2>1. p \in Seq(Nat)
    <3>1. a \in Nat /\ b \in Nat
      BY <1>1
    <3>2. <<a>> \in Seq(Nat) /\ <<a, b>> \in Seq(Nat)
      BY <3>1
    <3>3. QED
      BY <3>2
  <2>2. {n} \cup Ancestors(g, a) \cup Ancestors(g, b) \in SUBSET Nat
    BY <1>1
  <2>3. k = [parents |-> p, tree |-> tree, ancestors |-> {n} \cup Ancestors(g, a) \cup Ancestors(g, b)]
    BY <1>2 DEF Child
  <2>4. QED
    BY <2>1, <2>2, <2>3 DEF Commit
<1> HIDE DEF k
<1>5. h \in Seq(Commit) /\ Len(h) = n /\ (\A i \in 1..Len(g) : h[i] = g[i]) /\ h[n] = k
  BY <1>1, <1>4, AppendProperties
<1> HIDE DEF h
<1>6. Extends(g, h)
  BY <1>1, <1>5 DEF Extends
<1>7. ASSUME NEW c \in 1..Len(g) PROVE Descends(h, c)
  <2>1. Ancestors(h, c) = Ancestors(g, c) /\ Tree(h, c) = Tree(g, c)
    BY <1>5 DEF Ancestors, Tree
  <2>2. \A x \in Ancestors(g, c) : x \in 1..Len(g) /\ Ancestors(h, x) = Ancestors(g, x) /\ Tree(h, x) = Tree(g, x)
    BY <1>1, <1>5 DEF Ancestors, Tree
  <2>3. \A i \in DOMAIN h[c].parents : h[c].parents[i] \in Ancestors(h, c) \ {c}
    BY <1>5, <2>1 DEF GraphOk, Descends
  <2>4. QED
    BY <1>1, <2>1, <2>2, <2>3 DEF Descends
<1>8. Descends(h, n)
  <2>1. Ancestors(h, n) = {n} \cup Ancestors(g, a) \cup Ancestors(g, b) /\ Tree(h, n) = tree
    BY <1>3, <1>5 DEF Ancestors, Tree
  <2>2. ASSUME NEW x \in Ancestors(h, n)
        PROVE  Ancestors(h, x) \subseteq Ancestors(h, n) /\ Tree(h, x).product \subseteq Tree(h, n).product
    <3>1. CASE x = n
      BY <3>1
    <3>2. CASE x # n
      <4>1. PICK y \in {a, b} : x \in Ancestors(g, y)
        BY <2>1, <3>2
      <4>2. x \in 1..Len(g) /\ Ancestors(g, x) \subseteq Ancestors(g, y) /\ Tree(g, x).product \subseteq Tree(g, y).product
        BY <1>1, <4>1
      <4>3. Ancestors(h, x) = Ancestors(g, x) /\ Tree(h, x) = Tree(g, x)
        BY <1>5, <4>2 DEF Ancestors, Tree
      <4>4. QED
        BY <2>1, <4>1, <4>2, <4>3
    <3>3. QED
      BY <3>1, <3>2
  <2>3. \A i \in DOMAIN p : p[i] \in {a, b}
    OBVIOUS
  <2>4. \A i \in DOMAIN h[n].parents : h[n].parents[i] \in Ancestors(h, n) \ {n}
    BY <1>1, <1>3, <1>5, <2>1, <2>3
  <2>5. QED
    BY <1>1, <2>1, <2>2, <2>4 DEF Descends
<1>9. GraphOk(h)
  <2>1. \A c \in 1..n : c \in 1..Len(g) \/ c = n
    BY <1>1
  <2>2. QED
    BY <1>1, <1>5, <1>7, <1>8, <2>1 DEF GraphOk
<1>10. Ancestors(h, n) = {n} \cup Ancestors(g, a) \cup Ancestors(g, b) /\ Tree(h, n) = tree
  BY <1>3, <1>5 DEF Ancestors, Tree
<1>11. QED
  BY <1>5, <1>6, <1>9, <1>10 DEF h, k

LEMMA ParentsFacts ==
    ASSUME NEW g, GraphOk(g), NEW c \in 1..Len(g), NEW i \in DOMAIN g[c].parents
    PROVE  /\ g[c].parents[i] \in 1..Len(g) /\ g[c].parents[i] < c
           /\ g[c].parents[i] \in Ancestors(g, c)
<1>1. Len(g) \in Nat /\ Ancestors(g, c) \subseteq 1..c
  BY GraphFacts
<1>2. g[c].parents[i] \in Ancestors(g, c) \ {c}
  BY DEF GraphOk, Descends
<1>3. PICK p : p = g[c].parents[i]
  OBVIOUS
<1>4. p \in 1..c /\ p # c
  BY <1>1, <1>2, <1>3
<1>5. p \in 1..Len(g) /\ p < c
  BY <1>1, <1>4
<1>6. QED
  BY <1>2, <1>3, <1>5

LEMMA ExtendsKeeps ==
    ASSUME NEW g, NEW h, GraphOk(g), Extends(g, h), NEW c \in 1..Len(g)
    PROVE  Ancestors(h, c) = Ancestors(g, c) /\ Tree(h, c) = Tree(g, c)
  BY DEF Extends, Ancestors, Tree

LEMMA ExtendsChains ==
    ASSUME NEW f, NEW g, NEW h, GraphOk(f), GraphOk(g), GraphOk(h), Extends(f, g), Extends(g, h)
    PROVE  Extends(f, h)
<1>1. Len(f) \in Nat /\ Len(g) \in Nat /\ Len(h) \in Nat
  BY GraphFacts
<1>2. QED
  BY <1>1 DEF Extends

-----------------------------------------------------------------------------
(* Rebase.                                                                  *)

\* Where a rebase is on its way: the graph has only grown, and the head
\* descends from the commit it is to stand on.
RebaseOk(d, g, onto) ==
    /\ d \in [clean: BOOLEAN, head: Nat, graph: Seq(Commit)]
    /\ GraphOk(d.graph) /\ Extends(g, d.graph)
    /\ d.head \in 1..Len(d.graph) /\ onto \in Ancestors(d.graph, d.head)

\* A commit with one parent descends from it.
LEMMA OnlyParent ==
    ASSUME NEW s, NEW e, s = <<e>>
    PROVE  DOMAIN s = {1} /\ s[1] = e
  OBVIOUS

LEMMA PickKeeps ==
    ASSUME NEW g, GraphOk(g), NEW onto, NEW c \in 1..Len(g), NEW d, RebaseOk(d, g, onto)
    PROVE  RebaseOk(Pick(d, c), g, onto)
<1> DEFINE old == Tree(d.graph, d.graph[c].parents[1])
           new == Tree(d.graph, c)
           here == Tree(d.graph, d.head)
           touched == ChangedFiles(old, new)
           result == [f \in Files |->
                        IF f = "product" THEN here.product \cup (new.product \ old.product)
                        ELSE IF f \in touched THEN new[f] ELSE here[f]]
<1>1. /\ d \in [clean: BOOLEAN, head: Nat, graph: Seq(Commit)] /\ GraphOk(d.graph) /\ Extends(g, d.graph)
      /\ d.head \in 1..Len(d.graph) /\ onto \in Ancestors(d.graph, d.head) /\ c \in 1..Len(d.graph)
  <2>1. Len(g) \in Nat /\ Len(d.graph) \in Nat
    BY GraphFacts DEF RebaseOk
  <2>2. QED
    BY <2>1 DEF RebaseOk, Extends
<1>2. new \in Trees /\ here \in Trees
  BY <1>1, GraphFacts
<1>3. result \in Trees /\ here.product \subseteq result.product
  <2>1. PICK t, u, o, w : t = new /\ u = here /\ o = old /\ w = touched
    OBVIOUS
  <2>2. t \in Trees /\ u \in Trees
    BY <1>2, <2>1
  <2> DEFINE r == [f \in Files |-> IF f = "product" THEN u.product \cup (t.product \ o.product)
                                   ELSE IF f \in w THEN t[f] ELSE u[f]]
  <2>3. r["product"] = u.product \cup (t.product \ o.product)
    BY DEF Files
  <2>4. \A f \in Documents : r[f] = t[f] \/ r[f] = u[f]
    BY DEF Files, Documents
  <2>5. r \in Trees
    BY <2>2, <2>3, <2>4 DEF Trees, Files, Documents
  <2>6. u.product \subseteq r.product
    BY <2>3
  <2>7. r = result
    BY <2>1
  <2>8. QED
    BY <2>1, <2>5, <2>6, <2>7
<1> DEFINE conflict == ~d.clean \/ (\E f \in touched \cap Documents : here[f] \notin {old[f], new[f]})
           h == Append(d.graph, Child(d.graph, <<d.head>>, result))
<1>4. Pick(d, c) = IF conflict THEN [d EXCEPT !.clean = FALSE]
                   ELSE IF d.graph[c].parents = <<d.head>> THEN [d EXCEPT !.head = c]
                   ELSE IF result = here THEN d
                   ELSE [clean |-> TRUE, head |-> Len(d.graph) + 1, graph |-> h]
  BY DEF Pick
<1>5. RebaseOk([d EXCEPT !.clean = FALSE], g, onto)
  <2>1. /\ [d EXCEPT !.clean = FALSE] \in [clean: BOOLEAN, head: Nat, graph: Seq(Commit)]
        /\ [d EXCEPT !.clean = FALSE].graph = d.graph /\ [d EXCEPT !.clean = FALSE].head = d.head
    BY <1>1
  <2>2. QED
    BY <1>1, <2>1 DEF RebaseOk
<1>6. RebaseOk([clean |-> TRUE, head |-> Len(d.graph) + 1, graph |-> h], g, onto)
  <2> DEFINE e == [clean |-> TRUE, head |-> Len(d.graph) + 1, graph |-> h]
  <2>1. Tree(d.graph, d.head).product \cup Tree(d.graph, d.head).product \subseteq result.product
    BY <1>3
  <2>2. /\ GraphOk(h) /\ Extends(d.graph, h) /\ Len(h) = Len(d.graph) + 1
        /\ Ancestors(h, Len(d.graph) + 1) = {Len(d.graph) + 1} \cup Ancestors(d.graph, d.head) \cup Ancestors(d.graph, d.head)
    <3> HIDE DEF result
    <3>1. QED
      BY <1>1, <1>3, <2>1, ChildOf
  <2> HIDE DEF h
  <2>3. Extends(g, h)
    BY <1>1, <2>2, ExtendsChains
  <2>4. Len(d.graph) \in Nat /\ h \in Seq(Commit)
    BY <1>1, <2>2, GraphFacts
  <2>5. e \in [clean: BOOLEAN, head: Nat, graph: Seq(Commit)] /\ e.head = Len(d.graph) + 1 /\ e.graph = h
    BY <2>4
  <2>6. QED
    BY <1>1, <2>2, <2>3, <2>4, <2>5 DEF RebaseOk
<1> HIDE DEF conflict, result, here, h
<1>7. RebaseOk(d, g, onto)
  OBVIOUS
<1>8. ASSUME d.graph[c].parents = <<d.head>> PROVE RebaseOk([d EXCEPT !.head = c], g, onto)
  <2>1. Descends(d.graph, c)
    BY <1>1 DEF GraphOk
  <2>2. d.head \in Ancestors(d.graph, c)
    BY <1>8, <2>1, OnlyParent DEF Descends
  <2>3. onto \in Ancestors(d.graph, c)
    BY <1>1, <2>1, <2>2 DEF Descends
  <2>4. Len(d.graph) \in Nat /\ c \in Nat
    BY <1>1, GraphFacts
  <2>5. PICK e : e = [d EXCEPT !.head = c]
    OBVIOUS
  <2>6. e \in [clean: BOOLEAN, head: Nat, graph: Seq(Commit)] /\ e.head = c /\ e.graph = d.graph
    BY <1>1, <2>4, <2>5
  <2>7. RebaseOk(e, g, onto)
    BY <1>1, <2>3, <2>6 DEF RebaseOk
  <2>8. QED
    BY <2>5, <2>7
<1>9. QED
  BY <1>4, <1>5, <1>6, <1>7, <1>8

\* One step of the recursion, and what it is to be the recursion as far as n.
Stepped(g, mine, onto, d, n) ==
    IF n = 0 THEN [clean |-> TRUE, head |-> onto, graph |-> g]
    ELSE IF n \in mine THEN Pick(d[n - 1], n) ELSE d[n - 1]
Recursion(g, mine, onto, top, d) == d = [n \in 0..top |-> Stepped(g, mine, onto, d, n)]

\* The recursion of Rebase defines a function: the first number up to which it
\* did not would have one below it up to which it does.
LEMMA RecursionExists ==
    ASSUME NEW g, NEW mine, NEW onto, NEW top \in Nat
    PROVE  \E d : Recursion(g, mine, onto, top, d)
<1> DEFINE Bad == {n \in Nat : ~\E d : Recursion(g, mine, onto, n, d)}
<1>1. SUFFICES ASSUME Bad # {} PROVE FALSE
  OBVIOUS
<1>2. PICK m \in Bad : \A n \in Bad : m <= n
  <2>1. Bad \in SUBSET Nat
    OBVIOUS
  <2> HIDE DEF Bad
  <2>2. QED
    BY <1>1, <2>1, Least
<1>3. CASE m = 0
  <2> DEFINE d == [n \in 0..0 |-> [clean |-> TRUE, head |-> onto, graph |-> g]]
  <2>1. d = [n \in 0..0 |-> Stepped(g, mine, onto, d, n)]
    <3>1. \A n \in 0..0 : Stepped(g, mine, onto, d, n) = [clean |-> TRUE, head |-> onto, graph |-> g]
      BY DEF Stepped
    <3>2. QED
      BY <3>1
  <2>2. QED
    BY <1>2, <1>3, <2>1 DEF Recursion
<1>4. CASE m # 0
  <2>1. m - 1 \in Nat /\ ~(m <= m - 1)
    BY <1>2, <1>4
  <2>2. PICK d : Recursion(g, mine, onto, m - 1, d)
    BY <1>2, <2>1
  <2> DEFINE e == [n \in 0..m |-> IF n = m THEN Stepped(g, mine, onto, d, m) ELSE d[n]]
  <2>3. d = [n \in 0..m-1 |-> Stepped(g, mine, onto, d, n)]
    BY <2>2 DEF Recursion
  <2>4. \A n \in 0..m-1 : e[n] = d[n]
    BY <1>2
  <2>5. ASSUME NEW n \in 0..m PROVE e[n] = Stepped(g, mine, onto, e, n)
    <3>1. n # 0 => e[n-1] = d[n-1]
      BY <1>2, <2>4
    <3> HIDE DEF e
    <3>2. Stepped(g, mine, onto, e, n) = Stepped(g, mine, onto, d, n)
      BY <3>1 DEF Stepped
    <3>3. CASE n = m
      BY <1>2, <3>2, <3>3 DEF e
    <3>4. CASE n # m
      <4>1. n \in 0..m-1
        BY <1>2, <3>4
      <4>2. d[n] = Stepped(g, mine, onto, d, n)
        BY <2>3, <4>1
      <4>3. QED
        BY <2>4, <3>2, <4>1, <4>2
    <3>5. QED
      BY <3>3, <3>4
  <2>6. e = [n \in 0..m |-> e[n]]
    OBVIOUS
  <2>7. e = [n \in 0..m |-> Stepped(g, mine, onto, e, n)]
    <3> HIDE DEF e
    <3>1. QED
      BY <2>5, <2>6
  <2>8. QED
    BY <1>2, <2>7 DEF Recursion
<1>5. QED
  BY <1>3, <1>4

LEMMA RecursionKeeps ==
    ASSUME NEW g, GraphOk(g), NEW mine \in SUBSET (1..Len(g)), NEW onto \in 1..Len(g),
           NEW d, Recursion(g, mine, onto, Len(g), d), NEW n \in 0..Len(g)
    PROVE  RebaseOk(d[n], g, onto)
<1>1. Len(g) \in Nat /\ g \in Seq(Commit) /\ onto \in Ancestors(g, onto)
  BY GraphFacts
<1>2. \A k \in 0..Len(g) : d[k] = Stepped(g, mine, onto, d, k)
  BY DEF Recursion
<1> DEFINE Bad == {k \in 0..Len(g) : ~RebaseOk(d[k], g, onto)}
<1>3. SUFFICES ASSUME Bad # {} PROVE FALSE
  OBVIOUS
<1>4. PICK m \in Bad : \A k \in Bad : m <= k
  <2>1. Bad \in SUBSET Nat
    BY <1>1
  <2> HIDE DEF Bad
  <2>2. QED
    BY <1>3, <2>1, Least
<1>5. CASE m = 0
  <2> DEFINE e == [clean |-> TRUE, head |-> onto, graph |-> g]
  <2>1. d[0] = e
    <3>1. 0 \in 0..Len(g) /\ Stepped(g, mine, onto, d, 0) = e
      BY <1>1 DEF Stepped
    <3>2. QED
      BY <1>2, <3>1
  <2>2. e \in [clean: BOOLEAN, head: Nat, graph: Seq(Commit)] /\ e.head = onto /\ e.graph = g
    BY <1>1
  <2>3. Extends(g, g)
    BY <1>1 DEF Extends
  <2>4. RebaseOk(e, g, onto)
    BY <1>1, <2>2, <2>3 DEF RebaseOk
  <2>5. QED
    BY <1>4, <1>5, <2>1, <2>4
<1>6. CASE m # 0
  <2>1. m - 1 \in 0..Len(g) /\ ~(m <= m - 1) /\ m \in 1..Len(g)
    BY <1>1, <1>4, <1>6
  <2>2. RebaseOk(d[m-1], g, onto)
    BY <1>4, <2>1
  <2>3. d[m] = IF m \in mine THEN Pick(d[m-1], m) ELSE d[m-1]
    BY <1>2, <1>4, <1>6 DEF Stepped
  <2>4. RebaseOk(d[m], g, onto)
    BY <2>1, <2>2, <2>3, PickKeeps
  <2>5. QED
    BY <1>4, <2>4
<1>7. QED
  BY <1>5, <1>6

\* A rebase leaves every commit there was as it is, and ends on a descendant
\* of the commit it was made onto.
LEMMA RebaseGoesOn ==
    ASSUME NEW g, GraphOk(g), NEW head \in 1..Len(g), NEW onto \in 1..Len(g)
    PROVE  RebaseOk(Rebase(g, head, onto), g, onto)
<1> DEFINE mine == {c \in Since(g, onto, head) : ~IsMerge(g, c)}
<1>1. mine \in SUBSET (1..Len(g)) /\ Len(g) \in Nat
  BY GraphFacts DEF Since
<1> HIDE DEF mine
<1>2. Recursion(g, mine, onto, Len(g), CHOOSE d : Recursion(g, mine, onto, Len(g), d))
  BY <1>1, RecursionExists
<1>3. Rebase(g, head, onto) = (CHOOSE d : Recursion(g, mine, onto, Len(g), d))[Len(g)]
  BY Zenon DEF Rebase, Recursion, Stepped, mine
<1>4. PICK e : e = CHOOSE d : Recursion(g, mine, onto, Len(g), d)
  OBVIOUS
<1>5. Recursion(g, mine, onto, Len(g), e) /\ Rebase(g, head, onto) = e[Len(g)]
  BY <1>2, <1>3, <1>4
<1>6. Len(g) \in 0..Len(g)
  BY <1>1
<1>7. QED
  BY <1>1, <1>5, <1>6, RecursionKeeps
-----------------------------------------------------------------------------
(* What the steps are made of.                                              *)

LEMMA MergeBaseShared ==
    ASSUME NEW g, GraphOk(g), NEW a \in 1..Len(g), NEW b \in 1..Len(g)
    PROVE  MergeBase(g, a, b) \in Ancestors(g, a) \cap Ancestors(g, b)
<1> DEFINE Shared == Ancestors(g, a) \cap Ancestors(g, b)
<1>1. Shared \in SUBSET Nat /\ 1 \in Shared /\ a \in Nat /\ \A n \in Shared : n <= a
  BY GraphFacts
<1>2. \E m \in Shared : \A n \in Shared : n <= m
  <2> HIDE DEF Shared
  <2>1. QED
    BY <1>1, Greatest
<1>3. QED
  BY <1>2, Zenon DEF MergeBase

LEMMA MergeBaseOfAncestor ==
    ASSUME NEW g, GraphOk(g), NEW a \in 1..Len(g), NEW b \in Ancestors(g, a)
    PROVE  Cardinality(Since(g, MergeBase(g, a, b), b)) # 1
<1>1. b \in 1..Len(g) /\ b \in Ancestors(g, b) /\ Ancestors(g, b) \subseteq 1..b
  BY GraphFacts
<1>2. MergeBase(g, a, b) = b
  <2>1. b \in Ancestors(g, a) \cap Ancestors(g, b)
    BY <1>1
  <2>2. \A n \in Ancestors(g, a) \cap Ancestors(g, b) : n <= b /\ n \in Nat /\ b \in Nat
    BY <1>1
  <2>3. \E m \in Ancestors(g, a) \cap Ancestors(g, b) : \A n \in Ancestors(g, a) \cap Ancestors(g, b) : n <= m
    BY <2>1, <2>2
  <2>4. /\ MergeBase(g, a, b) \in Ancestors(g, a) \cap Ancestors(g, b)
        /\ \A n \in Ancestors(g, a) \cap Ancestors(g, b) : n <= MergeBase(g, a, b)
    BY <2>3, Zenon DEF MergeBase
  <2>5. b <= MergeBase(g, a, b) /\ MergeBase(g, a, b) <= b /\ MergeBase(g, a, b) \in Nat /\ b \in Nat
    BY <2>1, <2>2, <2>4
  <2>6. QED
    BY <2>5
<1>3. Since(g, b, b) = {}
  BY DEF Since
<1>4. QED
  BY <1>2, <1>3, FS_EmptySet

\* The product of a merge is what both sides have.
LEMMA MergedProduct ==
    ASSUME NEW g, GraphOk(g), NEW a \in 1..Len(g), NEW b \in 1..Len(g), NEW has,
           Tree(g, a).product \subseteq has
    PROVE  /\ Tree(g, a).product \cup Tree(g, b).product
                \subseteq has \cup Introduced(g, MergeBase(g, a, b), b)
           /\ Introduced(g, MergeBase(g, a, b), b) \subseteq Changes
<1>1. MergeBase(g, a, b) \in Ancestors(g, a) \cap Ancestors(g, b)
  BY MergeBaseShared
<1>2. PICK m : m = MergeBase(g, a, b)
  OBVIOUS
<1>3. Tree(g, m).product \subseteq Tree(g, a).product
  BY <1>1, <1>2, GraphFacts
<1>4. Tree(g, b).product \subseteq Changes
  <2>1. Tree(g, b) \in Trees
    BY GraphFacts
  <2>2. QED
    BY <2>1 DEF Trees
<1>5. QED
  BY <1>2, <1>3, <1>4 DEF Introduced

LEMMA AllowedAreDocuments ==
    ASSUME NEW a \in DOMAIN AllowedFor
    PROVE  AllowedFor[a] \subseteq Documents
  BY DEF AllowedFor, EvidenceActions, Documents

LEMMA SameProduct ==
    ASSUME NEW s \in Trees, NEW t \in Trees, ChangedFiles(s, t) \subseteq Documents
    PROVE  s.product = t.product
<1>1. "product" \in Files /\ "product" \notin Documents
  BY DEF Files, Documents
<1>2. s["product"] = t["product"]
  BY <1>1 DEF ChangedFiles
<1>3. QED
  BY <1>2

LEMMA CleanIsSame ==
    ASSUME NEW s \in Trees, NEW t \in Trees, ChangedFiles(s, t) = {}
    PROVE  s = t
<1>1. \A f \in Files : s[f] = t[f]
  BY DEF ChangedFiles
<1>2. QED
  BY <1>1 DEF Files, Documents, Trees

\* What has been put back, of two trees, is a tree.
LEMMA MixedTree ==
    ASSUME NEW s \in Trees, NEW t \in Trees, NEW W
    PROVE  [f \in Files |-> IF f \in W THEN s[f] ELSE t[f]] \in Trees
  BY DEF Files, Documents, Trees

-----------------------------------------------------------------------------
(* Steps.                                                                   *)

LEMMA Parts ==
    ASSUME LifecycleInv
    PROVE  /\ GraphOk(commits) /\ commits \in Seq(Commit) /\ Len(commits) \in Nat \ {0}
           /\ DOMAIN commits = 1..Len(commits)
           /\ main \in 1..Len(commits) /\ remote \in 1..Len(commits)
           /\ branch \in 0..Len(commits) /\ request \in 0..Len(commits)
           /\ told \in 0..Len(commits) /\ candidate \in 0..Len(commits)
           /\ work \in Trees
           /\ Tree(commits, main) \in Trees /\ Tree(commits, remote) \in Trees
           /\ main \in Ancestors(commits, main) /\ remote \in Ancestors(commits, remote)
<1>1. /\ GraphOk(commits) /\ commits \in Seq(Commit) /\ Len(commits) \in Nat \ {0}
      /\ DOMAIN commits = 1..Len(commits)
  BY GraphFacts DEF LifecycleInv
<1>2. main \in 1..Len(commits) /\ remote \in 1..Len(commits)
  BY <1>1 DEF LifecycleInv, HeadsInv
<1>3. \A c \in DOMAIN commits \cup {NoCommit} : c \in 0..Len(commits)
  BY <1>1 DEF NoCommit
<1>4. QED
  BY <1>1, <1>2, <1>3, GraphFacts DEF LifecycleInv, HeadsInv

\* The next graph: what a commit says never changes.
LEMMA Grown ==
    ASSUME LifecycleInv, GraphOk(commits'), Extends(commits, commits')
    PROVE  /\ DOMAIN commits' = 1..Len(commits') /\ 1..Len(commits) \subseteq 1..Len(commits')
           /\ \A c \in 1..Len(commits) : /\ Ancestors(commits', c) = Ancestors(commits, c)
                                         /\ Tree(commits', c) = Tree(commits, c)
<1>1. Len(commits) \in Nat /\ Len(commits') \in Nat /\ DOMAIN commits' = 1..Len(commits')
  BY Parts, GraphFacts
<1>2. QED
  BY <1>1, Parts, ExtendsKeeps DEF Extends

LEMMA GraphStays ==
    ASSUME LifecycleInv, commits' = commits
    PROVE  GraphOk(commits') /\ Extends(commits, commits')
  BY Parts DEF Extends

LEMMA OpIsOne ==
    ASSUME LifecycleInv
    PROVE  /\ op.kind = "idle" => op = Idle
           /\ op.kind = "cleanup" => op = [kind |-> "cleanup"] /\ work = Tree(commits, main)
           /\ op.kind = "evidence" => Evidence
           /\ op.kind = "merging" => Merging
           /\ op.kind = "publishing" => Publishing
  BY DEF LifecycleInv, OpInv, Idle

\* What was told is where the old heads are, and they are below the new ones.
LEMMA ToldStays ==
    ASSUME LifecycleInv, GraphOk(commits'), Extends(commits, commits'), told' = told,
           {main', remote'} \subseteq DOMAIN commits',
           \E c \in {main, remote} : c \in Ancestors(commits', main'),
           \E c \in {main, remote} : c \in Ancestors(commits', remote')
    PROVE  ToldIsPublished'
<1>1. \A c \in {main, remote} : told # NoCommit => told \in Ancestors(commits', c)
  BY Parts, Grown DEF LifecycleInv, ToldIsPublished
<1>2. \A h \in {main', remote'} : \A c \in Ancestors(commits', h) : Ancestors(commits', c) \subseteq Ancestors(commits', h)
  BY Grown, GraphFacts
<1>3. ASSUME told # NoCommit, NEW h \in {main', remote'}, NEW c \in {main, remote}, c \in Ancestors(commits', h)
      PROVE  told \in Ancestors(commits', h)
  BY <1>1, <1>2, <1>3
<1>4. told # NoCommit => told \in Ancestors(commits', main') /\ told \in Ancestors(commits', remote')
  BY <1>3
<1>5. QED
  BY <1>4 DEF ToldIsPublished

\* Nobody but the agents' and the hosting service's side of things has moved.
LEMMA OpStays ==
    ASSUME LifecycleInv, GraphOk(commits'), Extends(commits, commits'),
           op' = op, told' = told, main' = main, work' = work, branch' = branch
    PROVE  OpInv'
<1> USE DEF Waiting, Started
<1>1. /\ \A c \in 1..Len(commits) : /\ Ancestors(commits', c) = Ancestors(commits, c)
                                    /\ Tree(commits', c) = Tree(commits, c)
      /\ DOMAIN commits = 1..Len(commits)
      /\ DOMAIN commits \subseteq DOMAIN commits' /\ main \in DOMAIN commits
  BY Parts, Grown
<1>2. CASE op = Idle
  BY <1>2 DEF OpInv
<1>3. CASE op = [kind |-> "cleanup"] /\ work = Tree(commits, main)
  BY <1>1, <1>3 DEF OpInv
<1>4. CASE op.kind = "evidence" /\ Evidence
  <2>1. op.before \in DOMAIN commits
    BY <1>4 DEF Evidence
  <2>2. op.planning => branch \in DOMAIN commits
    BY <1>4 DEF Evidence
  <2>3. Evidence'
    BY <1>1, <1>4, <2>1, <2>2 DEF Evidence
  <2>4. QED
    BY <1>4, <2>3 DEF OpInv
<1>5. CASE op.kind = "merging" /\ Merging
  <2>1. op.before \in DOMAIN commits /\ op.cand \in DOMAIN commits
    BY <1>5 DEF Merging
  <2>2. Merging'
    BY <1>1, <1>5, <2>1 DEF Merging
  <2>3. QED
    BY <1>5, <2>2 DEF OpInv
<1>6. CASE op.kind = "publishing" /\ Publishing
  <2>1. op.before \in DOMAIN commits
    BY <1>6 DEF Publishing
  <2>2. Publishing'
    BY <1>1, <1>6, <2>1 DEF Publishing
  <2>3. QED
    BY <1>6, <2>2 DEF OpInv
<1>7. QED
  BY <1>2, <1>3, <1>4, <1>5, <1>6 DEF LifecycleInv, OpInv

\* An agent writes into one of the worktrees while no script runs.
LEMMA WritesKeep ==
    ASSUME LifecycleInv, op' = Idle, work' \in Trees, worktree' \in {"none", "clean"} \cup DevChanges,
           worktree' = "none" <=> branch = NoCommit,
           UNCHANGED <<commits, main, remote, branch, request, told, candidate>>
    PROVE  LifecycleInv'
<1>1. GraphOk(commits') /\ Extends(commits, commits')
  BY GraphStays
<1>2. HeadsInv'
  BY DEF LifecycleInv, HeadsInv
<1>3. ToldIsPublished'
  BY DEF LifecycleInv, ToldIsPublished
<1>4. QED
  BY <1>1, <1>2, <1>3 DEF LifecycleInv, OpInv, Idle

-----------------------------------------------------------------------------
(* The agents, and where everything begins.                                 *)

LEMMA AbsentIsTree == Absent \in Trees /\ Absent.product = {}
  BY DEF Absent, Scaffold, Trees, Backlog, Handover, Statuses, Classes, Changes, NoCommit

LEMMA InitLifecycle == Init => LifecycleInv
<1> SUFFICES ASSUME Init PROVE LifecycleInv
  OBVIOUS
<1> DEFINE first == [parents |-> <<>>, tree |-> Absent, ancestors |-> {1}]
<1>1. first \in Commit
  BY AbsentIsTree DEF Commit
<1>2. commits = <<first>> /\ commits \in Seq(Commit) /\ Len(commits) = 1 /\ DOMAIN commits = {1} /\ commits[1] = first
  <2>1. commits = <<first>>
    BY DEF Init
  <2> HIDE DEF first
  <2>2. QED
    BY <1>1, <2>1
<1>3. Ancestors(commits, 1) = {1} /\ Tree(commits, 1) = Absent
  BY <1>2 DEF Ancestors, Tree
<1>4. GraphOk(commits)
  <2>1. Descends(commits, 1)
    <3>1. commits[1].parents = <<>>
      BY <1>2
    <3>2. DOMAIN commits[1].parents = {}
      BY <3>1
    <3>3. QED
      BY <1>3, <3>2 DEF Descends
  <2>2. Len(commits) > 0 /\ \A c \in 1..Len(commits) : c = 1
    BY <1>2
  <2>3. QED
    BY <1>2, <2>1, <2>2 DEF GraphOk
<1>5. HeadsInv
  BY <1>2, AbsentIsTree DEF Init, HeadsInv, NoCommit
<1>6. QED
  BY <1>4, <1>5 DEF LifecycleInv, OpInv, ToldIsPublished, Init

LEMMA WritePlanKeeps ==
    ASSUME LifecycleInv, NEW class \in Classes, NEW plan \in {"approved", "v2"},
           NEW status \in {"plan", "dev"}, WritePlan(class, plan, status)
    PROVE  LifecycleInv'
<1> DEFINE w == [work EXCEPT !.backlog.class = class, !.backlog.status = status,
                             !.PLAN = plan, !.QA_PLAN = "approved"]
<1>1. work' = w /\ work \in Trees
  BY Parts DEF WritePlan
<1>2. w = [work EXCEPT !["backlog"] = [work.backlog EXCEPT !["class"] = class, !["status"] = status],
                       !["PLAN"] = plan, !["QA_PLAN"] = "approved"]
  BY <1>1 DEF Trees, Backlog
<1>3. [work.backlog EXCEPT !["class"] = class, !["status"] = status] \in Backlog
  BY <1>1 DEF Trees, Backlog, Statuses
<1>4. w \in Trees
  <2>1. PICK b : b = [work.backlog EXCEPT !["class"] = class, !["status"] = status]
    OBVIOUS
  <2>2. b \in Backlog /\ w = [work EXCEPT !["backlog"] = b, !["PLAN"] = plan, !["QA_PLAN"] = "approved"]
    BY <1>2, <1>3, <2>1
  <2> HIDE DEF w
  <2>3. QED
    BY <1>1, <2>2 DEF Trees
<1>5. QED
  BY <1>1, <1>4, WritesKeep DEF WritePlan, atRemote, LifecycleInv, HeadsInv

LEMMA WriteKeeps ==
    ASSUME LifecycleInv, NEW file \in Documents, NEW content, Write(file, content),
           [work EXCEPT ![file] = content] \in Trees
    PROVE  LifecycleInv'
  BY WritesKeep DEF Write, atRemote, LifecycleInv, HeadsInv

LEMMA AgentsKeep ==
    ASSUME LifecycleInv, Agents
    PROVE  LifecycleInv'
<1>1. work \in Trees /\ branch \in Nat /\ main \in Nat
  BY Parts
<1>2. CASE \E class \in Classes, plan \in {"approved", "v2"}, status \in {"plan", "dev"} :
             WritePlan(class, plan, status)
  BY <1>2, WritePlanKeeps
<1>3. CASE \E status \in DOMAIN Phase : WriteStatus(status)
  <2>1. PICK status \in DOMAIN Phase : WriteStatus(status)
    BY <1>3
  <2>2. PICK b : b = [work.backlog EXCEPT !.status = status]
    OBVIOUS
  <2>3. b \in Backlog
    BY <1>1, <2>1, <2>2 DEF Trees, Backlog, Phase, Statuses
  <2>4. [work EXCEPT !["backlog"] = b] \in Trees
    BY <1>1, <2>3 DEF Trees
  <2>5. Write("backlog", b)
    BY <2>1, <2>2 DEF WriteStatus
  <2>6. QED
    BY <2>4, <2>5, WriteKeeps DEF Documents
<1>4. CASE \E result \in {"pass", "other"} : WriteReview(result)
  <2>1. PICK result \in {"pass", "other"} : WriteReview(result)
    BY <1>4
  <2>2. [work EXCEPT !["REVIEW_RESULT"] = result] \in Trees
    BY <1>1 DEF Trees
  <2>3. QED
    BY <2>1, <2>2, WriteKeeps DEF WriteReview, Documents
<1>5. CASE \E result \in {"pass", "other"} : WriteQaResult(result)
  <2>1. PICK result \in {"pass", "other"} : WriteQaResult(result)
    BY <1>5
  <2>2. [work EXCEPT !.QA_RESULT = result, !.QA_PLAN = "reviewed"] \in Trees
    BY <1>1 DEF Trees
  <2>3. QED
    BY <2>1, <2>2, WritesKeep DEF WriteQaResult, atRemote, LifecycleInv, HeadsInv
<1>6. CASE \E commit \in {branch, main} \ {NoCommit} : WriteHandover(commit)
  <2>1. PICK commit \in {branch, main} : WriteHandover(commit)
    BY <1>6
  <2>2. PICK h : h = [cand |-> commit, complete |-> TRUE]
    OBVIOUS
  <2>3. h \in Handover
    BY <1>1, <2>1, <2>2 DEF Handover
  <2>4. [work EXCEPT !["HANDOVER"] = h] \in Trees
    BY <1>1, <2>3 DEF Trees
  <2>5. QED
    BY <2>1, <2>2, <2>4, WriteKeeps DEF WriteHandover, Documents
<1>7. CASE \E change \in Product : Develop(change)
  <2>1. PICK change \in Product : Develop(change)
    BY <1>7
  <2>2. change \in DevChanges /\ change # "none" /\ branch # NoCommit
    BY <2>1, ProductAssumption DEF Develop, DevChanges, LifecycleInv, HeadsInv
  <2>3. QED
    BY <1>1, <2>1, <2>2, WritesKeep DEF Develop, atRemote
<1>8. QED
  BY <1>2, <1>3, <1>4, <1>5, <1>6, <1>7 DEF Agents

-----------------------------------------------------------------------------
(* The scripts, up to their first push.                                     *)

LEMMA TaskStartKeeps ==
    ASSUME LifecycleInv, NEW same \in BOOLEAN, TaskStart(same)
    PROVE  LifecycleInv'
<1>1. work \in Trees /\ main # NoCommit
  BY Parts DEF NoCommit
<1>2. Scaffold(same) \in Trees
  BY DEF Scaffold, Trees, Backlog, Handover, Statuses, Classes, Changes, NoCommit
<1>3. work' = [f \in Files |-> IF f \in {"product"} THEN work[f] ELSE Scaffold(same)[f]]
  <2>1. \A f \in Files : (IF f = "product" THEN work.product ELSE Scaffold(same)[f])
                           = (IF f \in {"product"} THEN work[f] ELSE Scaffold(same)[f])
    BY <1>1 DEF Trees
  <2>2. QED
    BY <2>1 DEF TaskStart
<1>4. work' \in Trees
  BY <1>1, <1>2, <1>3, MixedTree
<1>5. GraphOk(commits') /\ commits' = commits
  BY Parts DEF TaskStart
<1>6. HeadsInv'
  BY <1>1, <1>4 DEF TaskStart, atRemote, LifecycleInv, HeadsInv
<1>7. ToldIsPublished'
  BY DEF TaskStart, atRemote, LifecycleInv, ToldIsPublished
<1>8. QED
  BY <1>5, <1>6, <1>7 DEF LifecycleInv, OpInv, TaskStart

\* A commit of documents on the local main.
LEMMA CommitsKeep ==
    ASSUME LifecycleInv, NEW tree \in Trees, tree.product = Tree(commits, main).product,
           NEW planning \in BOOLEAN, NEW push \in BOOLEAN, NEW next \in {"end", "cleanup"},
           CommitEvidence(tree, planning, push, next),
           UNCHANGED <<remote, told>>,
           planning => branch \in Ancestors(commits, main) /\ branch' = Len(commits) + 1
    PROVE  /\ GraphOk(commits') /\ Extends(commits, commits')
           /\ OpInv' /\ ToldIsPublished' /\ work' \in Trees
           /\ main' = Len(commits) + 1 /\ main' \in DOMAIN commits'
           /\ DOMAIN commits \subseteq DOMAIN commits'
           /\ Tree(commits', main') = tree
<1>1. /\ GraphOk(commits) /\ main \in 1..Len(commits) /\ remote \in 1..Len(commits) /\ Len(commits) \in Nat \ {0}
      /\ DOMAIN commits = 1..Len(commits) /\ branch \in 0..Len(commits)
  BY Parts
<1>2. /\ commits' = Append(commits, Child(commits, <<main>>, tree)) /\ main' = Len(commits) + 1 /\ work' = tree
      /\ op' = IF push THEN [kind |-> "evidence", planning |-> planning, retry |-> 0, outage |-> FALSE,
                             commit |-> Len(commits) + 1, before |-> main, branch |-> branch, next |-> next]
               ELSE Idle
  BY DEF CommitEvidence, NextId
<1>3. /\ GraphOk(commits') /\ Extends(commits, commits') /\ Len(commits') = Len(commits) + 1
      /\ Tree(commits', Len(commits) + 1) = tree
      /\ Ancestors(commits', Len(commits) + 1) = {Len(commits) + 1} \cup Ancestors(commits, main) \cup Ancestors(commits, main)
  <2>1. Tree(commits, main).product \cup Tree(commits, main).product \subseteq tree.product
    OBVIOUS
  <2>2. QED
    BY <1>1, <1>2, <2>1, ChildOf
<1>4. /\ DOMAIN commits' = 1..Len(commits') /\ main' \in DOMAIN commits'
      /\ \A c \in 1..Len(commits) : /\ Ancestors(commits', c) = Ancestors(commits, c)
                                    /\ Tree(commits', c) = Tree(commits, c)
      /\ DOMAIN commits \subseteq DOMAIN commits'
  BY <1>1, <1>2, <1>3, Grown
<1>5. ToldIsPublished'
  <2>1. main \in Ancestors(commits', main') /\ remote \in Ancestors(commits', remote')
    BY <1>1, <1>2, <1>3, <1>4, GraphFacts
  <2>2. {main', remote'} \subseteq DOMAIN commits'
    BY <1>1, <1>4
  <2>3. QED
    BY <1>3, <2>1, <2>2, ToldStays
<1>6. OpInv'
  <2>1. CASE ~push
    BY <1>2, <2>1 DEF OpInv
  <2>2. CASE push
    <3>1. told # NoCommit => told \in Ancestors(commits', main)
      BY <1>1, <1>4 DEF LifecycleInv, ToldIsPublished
    <3>2. op' \in EvidenceOps
      BY <1>1, <1>2, <2>2 DEF EvidenceOps
    <3>3. /\ op'.kind = "evidence" /\ op'.commit = Len(commits) + 1 /\ op'.before = main /\ op'.branch = branch
          /\ op'.planning = planning
      BY <1>2, <2>2
    <3>4. Waiting'
      BY <1>1, <1>4, <3>1, <3>3 DEF Waiting
    <3>5. planning => /\ {branch, branch'} \subseteq DOMAIN commits'
                      /\ Tree(commits', branch').product \subseteq Tree(commits', main).product
      <4>1. planning => branch \in 1..Len(commits)
        BY <1>1, GraphFacts
      <4>2. QED
        BY <1>1, <1>2, <1>3, <1>4, <4>1
    <3>6. Evidence'
      BY <1>2, <1>3, <3>2, <3>3, <3>4, <3>5 DEF Evidence
    <3>7. QED
      BY <3>3, <3>6 DEF OpInv
  <2>3. QED
    BY <2>1, <2>2
<1>7. QED
  BY <1>2, <1>3, <1>4, <1>5, <1>6

LEMMA PushIsChoice == Push \subseteq BOOLEAN
  BY DEF Push

LEMMA EvidenceKeeps ==
    ASSUME LifecycleInv, NEW action \in DOMAIN AllowedFor, NEW push \in BOOLEAN, EvidenceCommit(action, push)
    PROVE  LifecycleInv'
<1>1. /\ work \in Trees /\ Tree(commits, main) \in Trees /\ branch \in 0..Len(commits) /\ Len(commits) \in Nat
      /\ DOMAIN commits = 1..Len(commits)
  BY Parts
<1>2. work.product = Tree(commits, main).product
  <2>1. ChangedFiles(Tree(commits, main), work) \subseteq Documents
    BY AllowedAreDocuments DEF EvidenceCommit, Changed, HeadTree
  <2>2. QED
    BY <1>1, <2>1, SameProduct
<1>3. CommitEvidence(work, action = "planning-gate", push, "end") /\ UNCHANGED <<remote, told>>
  BY DEF EvidenceCommit, atRemote
<1>4. \/ action = "planning-gate" /\ branch \in Ancestors(commits, main) /\ branch' = Len(commits) + 1 /\ worktree = "clean"
      \/ action # "planning-gate" /\ branch' = branch
  BY DEF EvidenceCommit, FastForward, NextId
<1>5. /\ GraphOk(commits') /\ Extends(commits, commits')
      /\ OpInv' /\ ToldIsPublished' /\ work' \in Trees
      /\ main' = Len(commits) + 1 /\ main' \in DOMAIN commits'
      /\ DOMAIN commits \subseteq DOMAIN commits'
  <2>1. PICK planning \in BOOLEAN : planning = (action = "planning-gate")
    OBVIOUS
  <2>2. CommitEvidence(work, planning, push, "end")
    BY <1>3, <2>1
  <2>3. planning => branch \in Ancestors(commits, main) /\ branch' = Len(commits) + 1
    BY <1>4, <2>1
  <2>4. QED
    BY <1>1, <1>2, <1>3, <2>2, <2>3, CommitsKeep
<1>6. HeadsInv'
  <2>1. branch' \in DOMAIN commits' \cup {NoCommit} /\ worktree' = worktree /\ (worktree = "none" <=> branch' = NoCommit)
    BY <1>1, <1>4, <1>5 DEF EvidenceCommit, LifecycleInv, HeadsInv, NoCommit
  <2>2. QED
    BY <1>5, <2>1 DEF EvidenceCommit, atRemote, LifecycleInv, HeadsInv
<1>7. QED
  BY <1>5, <1>6 DEF LifecycleInv

-----------------------------------------------------------------------------
(* What follows a push of evidence.                                         *)

LEMMA Landing ==
    ASSUME LifecycleInv, remote' = remote \/ (Accepts /\ remote' = main)
    PROVE  /\ remote' \in {remote, main}
           /\ \A c \in Ancestors(commits, remote) : c \in Ancestors(commits, remote')
<1>1. main \in 1..Len(commits)
  BY Parts
<1>2. \A a \in Ancestors(commits, main) : Ancestors(commits, a) \subseteq Ancestors(commits, main)
  BY <1>1, Parts, GraphFacts
<1>3. QED
  BY <1>2 DEF Accepts

LEMMA PushAcceptedKeeps ==
    ASSUME LifecycleInv, PushAccepted
    PROVE  LifecycleInv'
<1>1. Evidence
  BY OpIsOne DEF PushAccepted
<1>2. /\ main \in 1..Len(commits) /\ DOMAIN commits = 1..Len(commits) /\ main \in Ancestors(commits, main)
      /\ GraphOk(commits)
  BY Parts
<1>3. commits' = commits /\ main' = main /\ remote' = main /\ told' = main
  BY <1>1 DEF PushAccepted, Land, Evidence
<1>4. ToldIsPublished'
  BY <1>2, <1>3 DEF ToldIsPublished
<1>5. HeadsInv'
  BY <1>2, <1>3 DEF PushAccepted, LifecycleInv, HeadsInv
<1>6. OpInv'
  BY <1>1, <1>3 DEF PushAccepted, OpInv, Evidence
<1>7. QED
  BY <1>2, <1>3, <1>4, <1>5, <1>6 DEF LifecycleInv

\* A script that gives up leaves main where it is, or where it was.
LEMMA GiveUpKeeps ==
    ASSUME LifecycleInv, op.kind = "evidence", NEW graph, GraphOk(graph), Extends(commits, graph),
           NEW head \in 1..Len(graph), \E c \in {main, remote} : c \in Ancestors(graph, head),
           remote' \in {main, remote}, \E c \in {main, remote} : c \in Ancestors(commits, remote'),
           UNCHANGED <<worktree, request, told, candidate>>,
           GiveUp(graph, head)
    PROVE  LifecycleInv'
<1>1. Evidence
  BY OpIsOne
<1>2. /\ commits' = graph /\ op' = Idle /\ work' = Tree(graph, head)
      /\ main' = (IF op.planning THEN op.before ELSE head) /\ branch' = (IF op.planning THEN op.branch ELSE branch)
  BY DEF GiveUp, Tree
<1>3. /\ DOMAIN graph = 1..Len(graph) /\ DOMAIN commits \subseteq DOMAIN graph
      /\ DOMAIN commits = 1..Len(commits) /\ main \in DOMAIN commits /\ remote \in DOMAIN commits
      /\ \A c \in DOMAIN commits : Ancestors(graph, c) = Ancestors(commits, c)
  BY <1>2, Parts, Grown
<1>4. work' \in Trees
  BY <1>2, GraphFacts
<1>5. HeadsInv'
  <2>1. main' \in DOMAIN commits' /\ remote' \in DOMAIN commits'
    BY <1>1, <1>2, <1>3 DEF Evidence, Waiting
  <2>2. branch' \in DOMAIN commits' \cup {NoCommit} /\ (branch' = NoCommit <=> branch = NoCommit)
    BY <1>1, <1>2, <1>3 DEF Evidence, LifecycleInv, HeadsInv, NoCommit
  <2>3. QED
    BY <1>2, <1>3, <1>4, <2>1, <2>2 DEF LifecycleInv, HeadsInv
<1>6. ToldIsPublished'
  <2>1. {main', remote'} \subseteq DOMAIN commits'
    BY <1>5 DEF HeadsInv
  <2>2. \E c \in {main, remote} : c \in Ancestors(commits', remote')
    BY <1>2, <1>3
  <2>3. CASE op.planning
    <3>1. told # NoCommit => told \in Ancestors(commits', main')
      BY <1>1, <1>2, <1>3, <2>3 DEF Evidence, Waiting
    <3>2. PICK c \in {main, remote} : c \in Ancestors(commits', remote')
      BY <2>2
    <3>3. told # NoCommit => told \in Ancestors(commits', c)
      BY <1>2, <1>3, <3>2 DEF LifecycleInv, ToldIsPublished
    <3>4. told # NoCommit => told \in Ancestors(commits', remote')
      BY <1>2, <1>3, <2>1, <3>2, <3>3, GraphFacts
    <3>5. QED
      BY <3>1, <3>4 DEF ToldIsPublished
  <2>4. CASE ~op.planning
    <3>1. \E c \in {main, remote} : c \in Ancestors(commits', main')
      BY <1>2, <2>4
    <3>2. QED
      BY <1>2, <2>1, <2>2, <3>1, ToldStays
  <2>5. QED
    BY <2>3, <2>4
<1>7. QED
  BY <1>2, <1>5, <1>6 DEF LifecycleInv, OpInv

\* The commit stands on the remote's head now and is pushed again.
LEMMA GoOnKeeps ==
    ASSUME LifecycleInv, op.kind = "evidence", NEW graph, GraphOk(graph), Extends(commits, graph),
           NEW head \in 1..Len(graph), remote' \in Ancestors(graph, head),
           remote' \in {main, remote}, \E c \in {main, remote} : c \in Ancestors(commits, remote'),
           NEW outage, op.retry # 2,
           UNCHANGED <<branch, worktree, request, told, candidate>>,
           commits' = graph, main' = head, work' = Tree(graph, head),
           op' = [op EXCEPT !.retry = @ + 1, !.outage = @ \/ outage, !.commit = head]
    PROVE  LifecycleInv'
<1>1. Evidence
  BY OpIsOne
<1>2. /\ DOMAIN graph = 1..Len(graph) /\ DOMAIN commits \subseteq DOMAIN graph /\ Len(graph) \in Nat
      /\ DOMAIN commits = 1..Len(commits) /\ main \in DOMAIN commits /\ remote \in DOMAIN commits
      /\ \A c \in DOMAIN commits : Ancestors(graph, c) = Ancestors(commits, c) /\ Tree(graph, c) = Tree(commits, c)
  BY Parts, Grown, GraphFacts
<1>3. work' \in Trees
  BY GraphFacts
<1>4. HeadsInv'
  BY <1>2, <1>3 DEF LifecycleInv, HeadsInv
<1>5. ToldIsPublished'
  <2>1. {main', remote'} \subseteq DOMAIN commits'
    BY <1>2
  <2>2. \E c \in {main, remote} : c \in Ancestors(commits', main')
    OBVIOUS
  <2>3. \E c \in {main, remote} : c \in Ancestors(commits', remote')
    BY <1>2
  <2>4. QED
    BY <2>1, <2>2, <2>3, ToldStays
<1>6. /\ op' \in EvidenceOps /\ op'.kind = "evidence" /\ op'.commit = head /\ op'.before = op.before
      /\ op'.planning = op.planning /\ op'.branch = op.branch
  <2>1. PICK o : o = (op.outage \/ outage)
    OBVIOUS
  <2>2. op.outage \in BOOLEAN /\ op.retry \in 0..2 /\ op \in EvidenceOps
    BY <1>1 DEF Evidence, EvidenceOps
  <2>3. o \in BOOLEAN /\ op.retry + 1 \in 0..2
    <3>1. o \in BOOLEAN
      BY <2>1
    <3>2. QED
      BY <2>2, <3>1
  <2>4. op' = [op EXCEPT !.retry = op.retry + 1, !.outage = o, !.commit = head]
    BY <2>1, <2>2 DEF EvidenceOps
  <2>5. PICK n \in 0..2 : n = op.retry + 1
    BY <2>3
  <2>6. op' = [op EXCEPT !.retry = n, !.outage = o, !.commit = head] /\ head \in Nat
    BY <1>2, <2>4, <2>5
  <2>7. op' \in EvidenceOps
    BY <2>2, <2>3, <2>5, <2>6 DEF EvidenceOps
  <2>8. /\ op'.kind = "evidence" /\ op'.commit = head /\ op'.before = op.before /\ op'.branch = op.branch
        /\ op'.planning = op.planning
    BY <2>2, <2>6, Zenon DEF EvidenceOps
  <2>9. QED
    BY <2>7, <2>8
<1>7. Waiting'
  BY <1>1, <1>2, <1>6 DEF Evidence, Waiting
<1>8. Evidence'
  <2>1. op.planning => /\ {op.branch, branch} \subseteq DOMAIN commits'
                       /\ Tree(commits', branch).product \subseteq Tree(commits', op.before).product
    BY <1>1, <1>2 DEF Evidence, Waiting
  <2>2. QED
    BY <1>6, <1>7, <2>1 DEF Evidence
<1>9. QED
  BY <1>4, <1>5, <1>6, <1>8 DEF LifecycleInv, OpInv

\* How an attempt ends that did not reach the remote, or whose answer is lost.
GoesOn(r) ==
    /\ r.clean /\ op.retry # 2
    /\ CheckTask([View(NoCommit) EXCEPT !.graph = r.graph, !.main = r.head], r.graph[r.head].tree)
    /\ commits' = r.graph /\ main' = r.head /\ work' = r.graph[r.head].tree /\ branch' = branch
    /\ \E outage : op' = [op EXCEPT !.retry = @ + 1, !.outage = @ \/ outage, !.commit = r.head]

LEMMA RetryOutcome ==
    ASSUME NEW outage, Retry(outage), NEW r, r = Rebase(commits, main, remote')
    PROVE  GiveUp(commits, main) \/ (r.clean /\ GiveUp(r.graph, r.head)) \/ GoesOn(r)
<1>1. PICK view : view = [View(NoCommit) EXCEPT !.graph = r.graph, !.main = r.head]
  OBVIOUS
<1>2. CASE op.retry = 2 \/ ~r.clean
  BY <1>2, Zenon DEF Retry
<1>3. CASE ~(op.retry = 2 \/ ~r.clean) /\ ~CheckTask(view, r.graph[r.head].tree)
  BY <1>1, <1>3, Zenon DEF Retry
<1>4. CASE ~(op.retry = 2 \/ ~r.clean) /\ CheckTask(view, r.graph[r.head].tree)
  <2>1. /\ commits' = r.graph /\ main' = r.head /\ work' = r.graph[r.head].tree /\ branch' = branch
        /\ op' = [op EXCEPT !.retry = @ + 1, !.outage = @ \/ outage, !.commit = r.head]
    BY <1>1, <1>4, Zenon DEF Retry
  <2>2. \E o : op' = [op EXCEPT !.retry = @ + 1, !.outage = @ \/ o, !.commit = r.head]
    BY <2>1
  <2>3. QED
    BY <1>1, <1>4, <2>1, <2>2, Zenon DEF GoesOn
<1>5. QED
  BY <1>2, <1>3, <1>4

LEMMA PushFailedOutcome ==
    ASSUME PushFailed, NEW r, r = Rebase(commits, main, remote')
    PROVE  GiveUp(commits, main) \/ (r.clean /\ GiveUp(r.graph, r.head)) \/ GoesOn(r)
<1>1. GiveUp(commits, main) \/ Retry(FALSE) \/ Retry(TRUE)
  BY Zenon DEF PushFailed
<1>2. QED
  BY <1>1, RetryOutcome

LEMMA PushFailedKeeps ==
    ASSUME LifecycleInv, PushFailed
    PROVE  LifecycleInv'
<1>1. Evidence /\ op.kind = "evidence"
  BY OpIsOne DEF PushFailed
<1>2. remote' = remote \/ (Accepts /\ remote' = main)
  BY DEF PushFailed, Land
<1>3. /\ GraphOk(commits) /\ main \in 1..Len(commits) /\ remote \in 1..Len(commits)
      /\ main \in Ancestors(commits, main)
      /\ Extends(commits, commits)
  BY Parts DEF Extends
<1>4. remote' \in {main, remote} /\ remote' \in 1..Len(commits) /\ \E c \in {main, remote} : c \in Ancestors(commits, remote')
  BY <1>2, <1>3, Parts
<1>5. RebaseOk(Rebase(commits, main, remote'), commits, remote')
  BY <1>3, <1>4, RebaseGoesOn
<1>6. PICK r : r = Rebase(commits, main, remote')
  OBVIOUS
<1>7. /\ GraphOk(r.graph) /\ Extends(commits, r.graph) /\ r.head \in 1..Len(r.graph)
      /\ remote' \in Ancestors(r.graph, r.head)
  BY <1>5, <1>6 DEF RebaseOk
<1>8. UNCHANGED <<worktree, request, told, candidate>>
  BY DEF PushFailed
<1>9. \/ GiveUp(commits, main)
       \/ GiveUp(r.graph, r.head)
       \/ /\ op.retry # 2 /\ commits' = r.graph /\ main' = r.head /\ work' = r.graph[r.head].tree
          /\ \E o : op' = [op EXCEPT !.retry = @ + 1, !.outage = @ \/ o, !.commit = r.head]
          /\ branch' = branch
  BY <1>6, PushFailedOutcome DEF GoesOn
<1>10. CASE GiveUp(commits, main)
  BY <1>1, <1>3, <1>4, <1>8, <1>10, GiveUpKeeps
<1>11. CASE GiveUp(r.graph, r.head)
  <2>1. \E c \in {main, remote} : c \in Ancestors(r.graph, r.head)
    BY <1>4, <1>7
  <2>2. QED
    BY <1>1, <1>4, <1>7, <1>8, <1>11, <2>1, GiveUpKeeps
<1>12. CASE /\ op.retry # 2 /\ commits' = r.graph /\ main' = r.head /\ work' = r.graph[r.head].tree
            /\ \E o : op' = [op EXCEPT !.retry = @ + 1, !.outage = @ \/ o, !.commit = r.head]
            /\ branch' = branch
  <2>1. PICK outage : op' = [op EXCEPT !.retry = @ + 1, !.outage = @ \/ outage, !.commit = r.head]
    BY <1>12
  <2>2. work' = Tree(r.graph, r.head)
    BY <1>12 DEF Tree
  <2>3. UNCHANGED <<branch, worktree, request, told, candidate>>
    BY <1>8, <1>12
  <2>4. QED
    BY <1>1, <1>4, <1>7, <1>12, <2>1, <2>2, <2>3, GoOnKeeps
<1>13. QED
  BY <1>9, <1>10, <1>11, <1>12

-----------------------------------------------------------------------------
(* candidate-commit and completion-gate.                                    *)

LEMMA CandidateKeeps ==
    ASSUME LifecycleInv, CandidateCommit
    PROVE  /\ LifecycleInv'
           /\ branch' \in DOMAIN commits' /\ worktree \in Tree(commits', branch').product
           /\ branch # NoCommit => Tree(commits, branch).product \subseteq Tree(commits', branch').product
<1>1. /\ GraphOk(commits) /\ Len(commits) \in Nat \ {0} /\ DOMAIN commits = 1..Len(commits)
      /\ main \in 1..Len(commits) /\ remote \in 1..Len(commits) /\ branch \in 0..Len(commits)
  BY Parts
<1>2. branch \in 1..Len(commits) /\ worktree \in Changes
  BY <1>1 DEF CandidateCommit, DevChanges, Changes, LifecycleInv, HeadsInv, NoCommit
<1>3. PICK s : s = Tree(commits, branch)
  OBVIOUS
<1>4. s \in Trees
  BY <1>1, <1>2, <1>3, GraphFacts
<1>5. PICK t : t = [s EXCEPT !.product = @ \cup {worktree}]
  OBVIOUS
<1>6. t \in Trees /\ s.product \subseteq t.product /\ worktree \in t.product
  BY <1>2, <1>4, <1>5 DEF Trees
<1>7. commits' = Append(commits, Child(commits, <<branch>>, t)) /\ branch' = Len(commits) + 1
  BY <1>3, <1>5 DEF CandidateCommit, NextId
<1>8. /\ GraphOk(commits') /\ Extends(commits, commits') /\ Len(commits') = Len(commits) + 1
      /\ Tree(commits', Len(commits) + 1) = t
  <2>1. Tree(commits, branch).product \cup Tree(commits, branch).product \subseteq t.product
    BY <1>3, <1>6
  <2>2. QED
    BY <1>1, <1>2, <1>6, <1>7, <2>1, ChildOf
<1>9. /\ DOMAIN commits' = 1..Len(commits') /\ DOMAIN commits \subseteq DOMAIN commits'
      /\ \A c \in 1..Len(commits) : Ancestors(commits', c) = Ancestors(commits, c)
  BY <1>1, <1>8, Grown
<1>10. UNCHANGED <<main, remote, told, work, request>> /\ op = Idle /\ op' = Idle
  BY DEF CandidateCommit, atRemote
<1>11. branch' \in DOMAIN commits' /\ branch' # NoCommit
  BY <1>1, <1>7, <1>8, <1>9 DEF NoCommit
<1>12. HeadsInv'
  BY <1>9, <1>10, <1>11 DEF CandidateCommit, LifecycleInv, HeadsInv, NextId
<1>13. ToldIsPublished'
  BY <1>1, <1>9, <1>10 DEF LifecycleInv, ToldIsPublished
<1>14. QED
  BY <1>3, <1>6, <1>7, <1>8, <1>10, <1>11, <1>12, <1>13 DEF LifecycleInv, OpInv

LEMMA CompletionMergeKeeps ==
    ASSUME LifecycleInv, NEW push \in BOOLEAN, NEW validate \in BOOLEAN, CompletionMerge(push, validate)
    PROVE  LifecycleInv'
<1> DEFINE cand == work.HANDOVER.cand
<1>1. /\ GraphOk(commits) /\ DOMAIN commits = 1..Len(commits)
      /\ main \in 1..Len(commits) /\ branch \in 0..Len(commits) /\ Len(commits) \in Nat
      /\ work \in Trees /\ Tree(commits, main) \in Trees
  BY Parts
<1>2. cand \in 1..Len(commits) \ Ancestors(commits, main)
  <2>1. cand \in 1..Len(commits) /\ Cardinality(Since(commits, MergeBase(commits, main, cand), cand)) = 1
    BY <1>1 DEF CompletionMerge, CompletionReady, OneCandidate, NoCommit
  <2> HIDE DEF cand
  <2>2. QED
    BY <1>1, <2>1, MergeBaseOfAncestor
<1>3. work.product = Tree(commits, main).product
  <2>1. ChangedFiles(Tree(commits, main), work) \subseteq Documents
    BY DEF CompletionMerge, Changed, HeadTree, CompletionAllowed
  <2>2. QED
    BY <1>1, <2>1, SameProduct
<1>4. PICK new : new = Introduced(commits, MergeBase(commits, main, cand), cand)
  OBVIOUS
<1>5. /\ Tree(commits, main).product \cup Tree(commits, cand).product \subseteq work.product \cup new
      /\ new \subseteq Changes
  <2>1. Tree(commits, main).product \subseteq work.product
    BY <1>3
  <2> HIDE DEF cand
  <2>2. QED
    BY <1>1, <1>2, <1>4, <2>1, MergedProduct
<1>6. /\ work' = [work EXCEPT !.product = @ \cup new]
      /\ op' = [kind |-> "merging", cand |-> cand, before |-> main, start |-> work, push |-> push,
                validate |-> validate]
  BY <1>4 DEF CompletionMerge
<1>7. work' \in Trees /\ work'.product = work.product \cup new /\ work'.product \subseteq Changes
  <2>1. work.product \subseteq Changes
    BY <1>1 DEF Trees
  <2>2. work'.product = work.product \cup new
    BY <1>1, <1>6 DEF Trees
  <2>3. work' \in Trees
    BY <1>1, <1>5, <1>6, <2>1 DEF Trees
  <2>4. QED
    BY <1>5, <2>1, <2>2, <2>3
<1>8. UNCHANGED <<commits, main, remote, branch, worktree, request, told, candidate>>
  BY DEF CompletionMerge, atRemote
<1>9. op' \in GateOps /\ op'.kind = "merging" /\ op'.before = main /\ op'.cand = cand
  BY <1>1, <1>2, <1>6 DEF GateOps
<1>10. Waiting'
  BY <1>1, <1>8, <1>9 DEF Waiting, LifecycleInv, ToldIsPublished
<1>11. Merging'
  <2>1. Tree(commits', main').product \cup Tree(commits', op'.cand).product \subseteq work'.product
    BY <1>5, <1>7, <1>8, <1>9
  <2>2. Started'
    <3>1. \A f \in Documents : work'[f] = work[f]
      BY <1>1, <1>6 DEF Trees, Documents
    <3>2. QED
      BY <1>6, <3>1 DEF Started
  <2>3. QED
    BY <1>1, <1>2, <1>7, <1>8, <1>9, <1>10, <2>1, <2>2 DEF Merging
<1>12. OpInv'
  BY <1>9, <1>11 DEF OpInv
<1>13. HeadsInv'
  BY <1>7, <1>8 DEF LifecycleInv, HeadsInv
<1>14. QED
  BY <1>1, <1>8, <1>12, <1>13 DEF LifecycleInv, ToldIsPublished

LEMMA CompletionCommitKeeps ==
    ASSUME LifecycleInv, CompletionCommit
    PROVE  LifecycleInv'
<1>1. Merging
  BY OpIsOne DEF CompletionCommit
<1>2. /\ GraphOk(commits) /\ Len(commits) \in Nat \ {0} /\ DOMAIN commits = 1..Len(commits)
      /\ main \in 1..Len(commits) /\ remote \in 1..Len(commits) /\ work \in Trees
      /\ remote \in Ancestors(commits, remote)
  BY Parts
<1>3. /\ commits' = Append(commits, Child(commits, <<main, op.cand>>, work)) /\ main' = Len(commits) + 1
      /\ op' = IF op.push THEN [op EXCEPT !.kind = "publishing"] ELSE Idle
  BY DEF CompletionCommit, NextId
<1>4. UNCHANGED <<remote, work, branch, worktree, request, told, candidate>>
  BY DEF CompletionCommit, atRemote
<1>5. /\ GraphOk(commits') /\ Extends(commits, commits') /\ Len(commits') = Len(commits) + 1
      /\ Ancestors(commits', Len(commits) + 1) = {Len(commits) + 1} \cup Ancestors(commits, main) \cup Ancestors(commits, op.cand)
      /\ Tree(commits', Len(commits) + 1) = work
  <2>1. PICK c : c = op.cand
    OBVIOUS
  <2>2. c \in 1..Len(commits) /\ Tree(commits, main).product \cup Tree(commits, c).product \subseteq work.product
    BY <1>1, <1>2, <2>1 DEF Merging
  <2>3. PICK p : p = <<main, c>>
    OBVIOUS
  <2>4. commits' = Append(commits, Child(commits, p, work))
    BY <1>3, <2>1, <2>3
  <2>5. LET h == Append(commits, Child(commits, p, work)) IN
        /\ GraphOk(h) /\ Extends(commits, h) /\ Len(h) = Len(commits) + 1
        /\ Ancestors(h, Len(commits) + 1) = {Len(commits) + 1} \cup Ancestors(commits, main) \cup Ancestors(commits, c)
        /\ Tree(h, Len(commits) + 1) = work
    BY <1>2, <2>2, <2>3, ChildOf
  <2>6. QED
    BY <2>1, <2>4, <2>5
<1>6. /\ DOMAIN commits' = 1..Len(commits') /\ DOMAIN commits \subseteq DOMAIN commits' /\ main' \in DOMAIN commits'
      /\ \A c \in 1..Len(commits) : Ancestors(commits', c) = Ancestors(commits, c)
  BY <1>2, <1>3, <1>5, Grown
<1>7. HeadsInv'
  BY <1>4, <1>6 DEF LifecycleInv, HeadsInv
<1>8. ToldIsPublished'
  <2>1. told # NoCommit => told \in Ancestors(commits, main) /\ told \in Ancestors(commits, remote)
    BY DEF LifecycleInv, ToldIsPublished
  <2>2. QED
    BY <1>2, <1>3, <1>4, <1>5, <1>6, <2>1 DEF ToldIsPublished
<1>9. OpInv'
  <2>1. CASE ~op.push
    BY <1>3, <2>1 DEF OpInv
  <2>2. CASE op.push
    <3>1. op' = [op EXCEPT !.kind = "publishing"] /\ op \in GateOps
      BY <1>1, <1>3, <2>2 DEF Merging
    <3>2. op' \in GateOps /\ op'.kind = "publishing" /\ op'.before = op.before
      BY <3>1 DEF GateOps
    <3>3. op.before \in 1..Len(commits) /\ (told # NoCommit => told \in Ancestors(commits, op.before))
      BY <1>1, <1>2 DEF Merging, Waiting
    <3>4. Started'
      <4>1. op'.start = op.start
        BY <3>1 DEF GateOps
      <4>2. QED
        BY <1>1, <1>4, <4>1 DEF Merging, Started
    <3>5. op'.before < main' /\ work' = Tree(commits', main')
      BY <1>1, <1>2, <1>3, <1>4, <1>5, <3>2 DEF Merging
    <3>6. Publishing'
      BY <1>2, <1>4, <1>6, <3>2, <3>3, <3>4, <3>5 DEF Publishing, Waiting
    <3>7. QED
      BY <3>2, <3>6 DEF OpInv
  <2>3. QED
    BY <2>1, <2>2
<1>10. QED
  BY <1>5, <1>7, <1>8, <1>9 DEF LifecycleInv

LEMMA RestoredTree ==
    ASSUME op \in GateOps, NEW t \in Trees
    PROVE  RestoreBytes(t) \in Trees
<1>1. op.start \in Trees
  BY DEF GateOps
<1>2. PICK s : s = op.start
  OBVIOUS
<1>3. PICK W : W = Snapshot
  OBVIOUS
<1>4. RestoreBytes(t) = [f \in Files |-> IF f \in W THEN s[f] ELSE t[f]]
  BY <1>2, <1>3 DEF RestoreBytes
<1>5. QED
  BY <1>1, <1>2, <1>4, MixedTree

LEMMA CompletionAbortKeeps ==
    ASSUME LifecycleInv, op.kind = "merging", NEW staged, CompletionAbort(staged)
    PROVE  LifecycleInv'
<1>1. Merging /\ op \in GateOps
  BY OpIsOne DEF Merging
<1>2. work \in Trees /\ Tree(commits, main) \in Trees
  BY Parts
<1>3. PICK t : t = MergeAborted(staged)
  OBVIOUS
<1>4. t \in Trees
  BY <1>2, <1>3, MixedTree DEF MergeAborted, HeadTree
<1>5. work' \in Trees
  BY <1>1, <1>3, <1>4, RestoredTree DEF CompletionAbort
<1>6. QED
  BY <1>5, WritesKeep DEF CompletionAbort, atRemote, LifecycleInv, HeadsInv

\* The merge has reached the remote, whether or not the answer came back.
LEMMA CompletionPublishedKeeps ==
    ASSUME LifecycleInv, op.kind = "publishing", Accepts, remote' = main, told' = main, op' = Idle,
           UNCHANGED <<commits, main, work, branch, worktree, request, candidate>>
    PROVE  LifecycleInv'
<1>1. main \in 1..Len(commits) /\ DOMAIN commits = 1..Len(commits) /\ main \in Ancestors(commits, main)
  BY Parts
<1>2. HeadsInv'
  BY <1>1 DEF LifecycleInv, HeadsInv
<1>3. QED
  BY <1>1, <1>2 DEF LifecycleInv, OpInv, ToldIsPublished

LEMMA CompletionPushFailedKeeps ==
    ASSUME LifecycleInv, NEW seen, CompletionPushFailed(seen)
    PROVE  LifecycleInv'
<1>1. Publishing /\ op \in GateOps /\ op.before \in DOMAIN commits
  BY OpIsOne DEF CompletionPushFailed, Publishing, Waiting
<1>2. /\ GraphOk(commits) /\ main \in 1..Len(commits) /\ remote \in 1..Len(commits) /\ work \in Trees
      /\ main \in Ancestors(commits, main) /\ DOMAIN commits = 1..Len(commits)
  BY Parts
<1>3. UNCHANGED <<commits, branch, worktree, request, told, candidate>> /\ op' = Idle
  BY DEF CompletionPushFailed
<1>4. remote' = remote \/ (Accepts /\ remote' = main)
  BY DEF CompletionPushFailed, Land
<1>5. told # NoCommit => told \in Ancestors(commits, remote')
  BY <1>4 DEF LifecycleInv, ToldIsPublished
<1>6. CASE UNCHANGED <<main, work>>
  <2>1. HeadsInv'
    BY <1>2, <1>3, <1>4, <1>6 DEF LifecycleInv, HeadsInv
  <2>2. ToldIsPublished'
    BY <1>3, <1>5, <1>6 DEF LifecycleInv, ToldIsPublished
  <2>3. QED
    BY <1>2, <1>3, <2>1, <2>2 DEF LifecycleInv, OpInv
<1>7. CASE /\ main' = op.before
           /\ work' = RestoreBytes([work EXCEPT !.product = Tree(commits, op.before).product])
  <2>1. PICK p : p = Tree(commits, op.before).product
    OBVIOUS
  <2>2. p \subseteq Changes
    <3>1. Tree(commits, op.before) \in Trees
      BY <1>1, <1>2, GraphFacts
    <3>2. QED
      BY <2>1, <3>1 DEF Trees
  <2>3. PICK t : t = [work EXCEPT !.product = p]
    OBVIOUS
  <2>4. t \in Trees
    BY <1>2, <2>2, <2>3 DEF Trees
  <2>5. work' \in Trees
    BY <1>1, <1>7, <2>1, <2>3, <2>4, RestoredTree
  <2>6. HeadsInv'
    BY <1>1, <1>2, <1>3, <1>4, <1>7, <2>5 DEF LifecycleInv, HeadsInv
  <2>7. ToldIsPublished'
    BY <1>1, <1>3, <1>5, <1>7 DEF Publishing, Waiting, ToldIsPublished
  <2>8. QED
    BY <1>2, <1>3, <2>6, <2>7 DEF LifecycleInv, OpInv
<1>8. QED
  BY <1>6, <1>7 DEF CompletionPushFailed

-----------------------------------------------------------------------------
(* post-merge and sync.                                                     *)

\* A commit of the backlog, which may go with the worktree and the branch.
LEMMA BacklogCommits ==
    ASSUME LifecycleInv, NEW tree \in Trees, tree.product = Tree(commits, main).product,
           NEW push \in BOOLEAN, NEW next \in {"end", "cleanup"}, CommitEvidence(tree, FALSE, push, next),
           UNCHANGED <<remote, request, told, candidate>>,
           UNCHANGED <<worktree, branch>> \/ (worktree' = "none" /\ branch' = NoCommit)
    PROVE  LifecycleInv'
<1>1. {main, remote} \subseteq DOMAIN commits
  BY Parts
<1>2. PICK planning \in BOOLEAN : planning = FALSE
  OBVIOUS
<1>3. /\ GraphOk(commits') /\ OpInv' /\ ToldIsPublished' /\ work' \in Trees
      /\ main' \in DOMAIN commits' /\ DOMAIN commits \subseteq DOMAIN commits'
  BY <1>2, CommitsKeep
<1>4. HeadsInv'
  BY <1>1, <1>3 DEF LifecycleInv, HeadsInv
<1>5. QED
  BY <1>3, <1>4 DEF LifecycleInv

\* A backlog that cannot be committed stays written.
LEMMA BacklogStays ==
    ASSUME LifecycleInv, work' \in Trees, op' = Idle, UNCHANGED <<commits, main, remote, request, told, candidate>>,
           UNCHANGED <<worktree, branch>> \/ (worktree' = "none" /\ branch' = NoCommit)
    PROVE  LifecycleInv'
<1>1. HeadsInv'
  BY DEF LifecycleInv, HeadsInv
<1>2. QED
  BY <1>1 DEF LifecycleInv, OpInv, ToldIsPublished

LEMMA BacklogWritten ==
    ASSUME NEW t \in Trees, NEW b \in Backlog
    PROVE  [t EXCEPT !["backlog"] = b] \in Trees /\ [t EXCEPT !["backlog"] = b].product = t.product
  BY DEF Trees

LEMMA PostMergeKeeps ==
    ASSUME LifecycleInv, NEW merge \in DOMAIN commits, NEW push \in BOOLEAN, PostMerge(merge, push)
    PROVE  LifecycleInv'
<1>1. work \in Trees /\ merge \in Nat /\ op = Idle /\ Tree(commits, main) \in Trees
  BY Parts DEF PostMerge
<1>2. PICK b : b = [work.backlog EXCEPT !.merged = merge, !.status = "qa"]
  OBVIOUS
<1>3. b \in Backlog
  BY <1>1, <1>2 DEF Trees, Backlog, Statuses
<1>4. PICK tree : tree = [work EXCEPT !.backlog.merged = merge, !.backlog.status = "qa"]
  OBVIOUS
<1>5. tree = [work EXCEPT !["backlog"] = b]
  BY <1>1, <1>2, <1>4 DEF Trees, Backlog
<1>6. tree \in Trees
  BY <1>1, <1>3, <1>5, BacklogWritten
<1>7. \/ /\ ChangedFiles(HeadTree, tree) \subseteq AllowedFor["main-transition"]
         /\ CommitEvidence(tree, FALSE, push, "end")
      \/ work' = tree /\ UNCHANGED <<commits, main, op>>
  BY <1>4, Zenon DEF PostMerge
<1>8. UNCHANGED <<remote, branch, worktree, request, told, candidate>>
  BY DEF PostMerge, atRemote
<1>9. CASE /\ ChangedFiles(HeadTree, tree) \subseteq AllowedFor["main-transition"]
           /\ CommitEvidence(tree, FALSE, push, "end")
  <2>1. "main-transition" \in DOMAIN AllowedFor
    BY DEF AllowedFor, EvidenceActions
  <2>2. ChangedFiles(Tree(commits, main), tree) \subseteq Documents
    BY <1>9, <2>1, AllowedAreDocuments DEF HeadTree
  <2>3. tree.product = Tree(commits, main).product
    BY <1>1, <1>6, <2>2, SameProduct
  <2>4. QED
    BY <1>6, <1>8, <1>9, <2>3, BacklogCommits
<1>10. CASE work' = tree /\ UNCHANGED <<commits, main, op>>
  BY <1>1, <1>6, <1>8, <1>10, BacklogStays
<1>11. QED
  BY <1>7, <1>9, <1>10

\* A sync begins with a clean main worktree, its second half with its own.
LEMMA SyncIsClean ==
    ASSUME LifecycleInv, op.kind = "cleanup" \/ Synced
    PROVE  work = Tree(commits, main) /\ op.kind \in {"idle", "cleanup"}
<1>1. work \in Trees /\ Tree(commits, main) \in Trees
  BY Parts
<1>2. CASE op.kind = "cleanup"
  BY <1>2, OpIsOne
<1>3. CASE Synced
  <2>1. ChangedFiles(Tree(commits, main), work) = {}
    BY <1>3 DEF Synced, Clean, Changed, HeadTree
  <2>2. QED
    BY <1>1, <1>3, <2>1, CleanIsSame DEF Synced, Idle
<1>4. QED
  BY <1>2, <1>3

LEMMA SyncFastForwardKeeps ==
    ASSUME LifecycleInv, SyncFastForward
    PROVE  LifecycleInv'
<1>1. /\ GraphOk(commits) /\ DOMAIN commits = 1..Len(commits)
      /\ remote \in DOMAIN commits /\ Tree(commits, remote) \in Trees
  BY Parts
<1>2. main' = remote /\ work' = Tree(commits, remote)
  BY DEF SyncFastForward, SyncedHead, SyncedTree
<1>3. UNCHANGED <<commits, remote, branch, worktree, request, told, candidate>> /\ op' = op /\ op = Idle
  BY DEF SyncFastForward, atRemote, Synced
<1>4. HeadsInv'
  BY <1>1, <1>2, <1>3 DEF LifecycleInv, HeadsInv
<1>5. QED
  BY <1>1, <1>2, <1>3, <1>4 DEF LifecycleInv, OpInv, ToldIsPublished

LEMMA SyncDoneKeeps ==
    ASSUME LifecycleInv, NEW push \in BOOLEAN, SyncDone(push)
    PROVE  LifecycleInv'
<1>1. work \in Trees /\ work = Tree(commits, main) /\ op = Idle
  BY Parts, SyncIsClean DEF SyncDone, Synced
<1>2. PICK b : b = [work.backlog EXCEPT !.status = "done"]
  OBVIOUS
<1>3. b \in Backlog
  BY <1>1, <1>2 DEF Trees, Backlog, Statuses
<1>4. PICK tree : tree = [work EXCEPT !.backlog.status = "done"]
  OBVIOUS
<1>5. tree = [work EXCEPT !["backlog"] = b]
  BY <1>1, <1>2, <1>4 DEF Trees, Backlog
<1>6. tree \in Trees /\ tree.product = Tree(commits, main).product
  BY <1>1, <1>3, <1>5, BacklogWritten
<1>7. \/ CommitEvidence(tree, FALSE, push, "cleanup")
      \/ work' = tree /\ UNCHANGED <<commits, main, op>>
  BY <1>4, Zenon DEF SyncDone
<1>8. UNCHANGED <<remote, branch, worktree, request, told, candidate>>
  BY DEF SyncDone, atRemote
<1>9. CASE CommitEvidence(tree, FALSE, push, "cleanup")
  BY <1>6, <1>8, <1>9, BacklogCommits
<1>10. CASE work' = tree /\ UNCHANGED <<commits, main, op>>
  BY <1>1, <1>6, <1>8, <1>10, BacklogStays
<1>11. QED
  BY <1>7, <1>9, <1>10

LEMMA SyncCleanupKeeps ==
    ASSUME LifecycleInv, NEW push \in BOOLEAN, SyncCleanup(push)
    PROVE  LifecycleInv'
<1>1. work \in Trees /\ work = Tree(commits, main) /\ op.kind \in {"idle", "cleanup"}
  BY Parts, SyncIsClean DEF SyncCleanup
<1>2. PICK b : b = [work.backlog EXCEPT !.alloc = FALSE]
  OBVIOUS
<1>3. b \in Backlog
  BY <1>1, <1>2 DEF Trees, Backlog
<1>4. PICK tree : tree = [work EXCEPT !.backlog.alloc = FALSE]
  OBVIOUS
<1>5. tree = [work EXCEPT !["backlog"] = b]
  BY <1>1, <1>2, <1>4 DEF Trees, Backlog
<1>6. tree \in Trees /\ tree.product = Tree(commits, main).product
  BY <1>1, <1>3, <1>5, BacklogWritten
<1>7. \/ CommitEvidence(tree, FALSE, push, "end")
      \/ work' = tree /\ op' = Idle /\ UNCHANGED <<commits, main>>
  BY <1>4, Zenon DEF SyncCleanup
<1>8. UNCHANGED <<remote, request, told, candidate>> /\ worktree' = "none" /\ branch' = NoCommit
  BY DEF SyncCleanup, atRemote
<1>9. CASE CommitEvidence(tree, FALSE, push, "end")
  BY <1>6, <1>8, <1>9, BacklogCommits
<1>10. CASE work' = tree /\ op' = Idle /\ UNCHANGED <<commits, main>>
  BY <1>6, <1>8, <1>10, BacklogStays
<1>11. QED
  BY <1>7, <1>9, <1>10

LEMMA SyncStopsKeeps ==
    ASSUME LifecycleInv, SyncStops
    PROVE  LifecycleInv'
  BY WritesKeep, Parts DEF SyncStops, atRemote, LifecycleInv, HeadsInv

-----------------------------------------------------------------------------
(* The remote.                                                              *)

LEMMA TaskPrKeeps ==
    ASSUME LifecycleInv, TaskPr
    PROVE  LifecycleInv'
<1>1. GraphOk(commits') /\ Extends(commits, commits')
  BY GraphStays DEF TaskPr
<1>2. HeadsInv'
  BY DEF TaskPr, atRemote, LifecycleInv, HeadsInv
<1>3. QED
  BY <1>1, <1>2 DEF TaskPr, atRemote, LifecycleInv, OpInv, ToldIsPublished

\* A commit that appears on the remote's main, on top of what was there.
LEMMA RemoteGrows ==
    ASSUME LifecycleInv, GraphOk(commits'), Extends(commits, commits'),
           remote' \in 1..Len(commits'), remote \in Ancestors(commits', remote'),
           request' \in {request, NoCommit},
           UNCHANGED <<main, work, branch, worktree, op, told, candidate>>
    PROVE  LifecycleInv'
<1>1. /\ DOMAIN commits' = 1..Len(commits') /\ DOMAIN commits \subseteq DOMAIN commits'
      /\ main \in DOMAIN commits' /\ main \in Ancestors(commits', main)
  BY Parts, Grown, GraphFacts
<1>2. HeadsInv'
  BY <1>1 DEF LifecycleInv, HeadsInv
<1>3. ToldIsPublished'
  BY <1>1, ToldStays
<1>4. OpInv'
  BY OpStays
<1>5. QED
  BY <1>2, <1>3, <1>4 DEF LifecycleInv

LEMMA MergeRequestKeeps ==
    ASSUME LifecycleInv, MergeRequest
    PROVE  LifecycleInv'
<1>1. /\ GraphOk(commits) /\ Len(commits) \in Nat \ {0} /\ remote \in 1..Len(commits) /\ request \in 0..Len(commits)
      /\ remote \in Ancestors(commits, remote)
  BY Parts
<1>2. UNCHANGED <<main, work, branch, worktree, op, told, candidate>> /\ request' = NoCommit
  BY DEF MergeRequest
<1>3. CASE UNCHANGED <<commits, remote, ci>>
  <2>1. GraphOk(commits') /\ Extends(commits, commits') /\ remote' \in 1..Len(commits') /\ remote \in Ancestors(commits', remote')
    BY <1>1, <1>3, GraphStays
  <2>2. QED
    BY <1>2, <2>1, RemoteGrows
<1>4. CASE ~UNCHANGED <<commits, remote, ci>>
  <2>1. request \in 1..Len(commits)
    BY <1>1 DEF MergeRequest, NoCommit
  <2>2. PICK new : new = Introduced(commits, MergeBase(commits, remote, request), request)
    OBVIOUS
  <2>3. PICK s : s = Tree(commits, remote)
    OBVIOUS
  <2>4. s \in Trees /\ s.product \subseteq s.product
    BY <2>3, Parts
  <2>5. /\ Tree(commits, remote).product \cup Tree(commits, request).product \subseteq s.product \cup new
        /\ new \subseteq Changes
    BY <1>1, <2>1, <2>2, <2>3, <2>4, MergedProduct
  <2>6. PICK t : t = [s EXCEPT !.product = @ \cup new]
    OBVIOUS
  <2>7. t \in Trees /\ t.product = s.product \cup new
    <3>1. s.product \subseteq Changes
      BY <2>4 DEF Trees
    <3>2. s.product \cup new \in SUBSET Changes
      BY <2>5, <3>1
    <3>3. QED
      BY <2>4, <2>6, <3>2 DEF Trees
  <2>8. commits' = Append(commits, Child(commits, <<remote, request>>, t)) /\ remote' = Len(commits) + 1
    BY <1>4, <2>2, <2>3, <2>6 DEF MergeRequest, NextId
  <2>9. PICK p : p = <<remote, request>>
    OBVIOUS
  <2>10. commits' = Append(commits, Child(commits, p, t))
    BY <2>8, <2>9
  <2>11. LET h == Append(commits, Child(commits, p, t)) IN
         /\ GraphOk(h) /\ Extends(commits, h) /\ Len(h) = Len(commits) + 1
         /\ Ancestors(h, Len(commits) + 1) = {Len(commits) + 1} \cup Ancestors(commits, remote) \cup Ancestors(commits, request)
    BY <1>1, <2>1, <2>5, <2>7, <2>9, ChildOf
  <2>12. GraphOk(commits') /\ Extends(commits, commits') /\ remote' \in 1..Len(commits') /\ remote \in Ancestors(commits', remote')
    BY <1>1, <2>8, <2>10, <2>11
  <2>13. QED
    BY <1>2, <2>12, RemoteGrows
<1>5. QED
  BY <1>3, <1>4

LEMMA ForeignPushKeeps ==
    ASSUME LifecycleInv, NEW file \in {"product", "REVIEW_RESULT"}, ForeignPush(file)
    PROVE  LifecycleInv'
<1>1. /\ GraphOk(commits) /\ Len(commits) \in Nat \ {0} /\ remote \in 1..Len(commits)
      /\ remote \in Ancestors(commits, remote)
  BY Parts
<1>2. PICK s : s = Tree(commits, remote)
  OBVIOUS
<1>3. s \in Trees
  BY <1>2, Parts
<1>4. PICK t : t = IF file = "product" THEN [s EXCEPT !.product = @ \cup {"foreign"}] ELSE [s EXCEPT ![file] = "foreign"]
  OBVIOUS
<1>5. t \in Trees /\ s.product \subseteq t.product
  <2>1. CASE file = "product"
    <3>1. s.product \cup {"foreign"} \in SUBSET Changes
      BY <1>3 DEF Trees, Changes
    <3>2. QED
      BY <1>3, <1>4, <2>1, <3>1 DEF Trees
  <2>2. CASE file = "REVIEW_RESULT"
    BY <1>3, <1>4, <2>2 DEF Trees
  <2>3. QED
    BY <2>1, <2>2
<1>6. commits' = Append(commits, Child(commits, <<remote>>, t)) /\ remote' = Len(commits) + 1
  BY <1>2, <1>4 DEF ForeignPush, NextId
<1>7. /\ GraphOk(commits') /\ Extends(commits, commits') /\ Len(commits') = Len(commits) + 1
      /\ Ancestors(commits', Len(commits) + 1) = {Len(commits) + 1} \cup Ancestors(commits, remote) \cup Ancestors(commits, remote)
  <2>1. Tree(commits, remote).product \cup Tree(commits, remote).product \subseteq t.product
    BY <1>2, <1>5
  <2>2. QED
    BY <1>1, <1>5, <1>6, <2>1, ChildOf
<1>8. remote' \in 1..Len(commits') /\ remote \in Ancestors(commits', remote')
  BY <1>1, <1>6, <1>7
<1>9. QED
  BY <1>7, <1>8, RemoteGrows DEF ForeignPush

-----------------------------------------------------------------------------
(* The invariant.                                                           *)

LEMMA ScriptsKeep ==
    ASSUME LifecycleInv, Scripts
    PROVE  LifecycleInv'
<1> USE PushIsChoice
<1>1. CASE \E same \in BOOLEAN : TaskStart(same)
  BY <1>1, TaskStartKeeps
<1>2. CASE \E action \in DOMAIN AllowedFor, push \in Push : EvidenceCommit(action, push)
  BY <1>2, EvidenceKeeps
<1>3. CASE CandidateCommit
  BY <1>3, CandidateKeeps
<1>4. CASE \E push \in Push, validate \in BOOLEAN : CompletionMerge(push, validate)
  BY <1>4, CompletionMergeKeeps
<1>5. CASE TaskPr
  BY <1>5, TaskPrKeeps
<1>6. CASE \E merge \in DOMAIN commits, push \in Push : PostMerge(merge, push)
  BY <1>6, PostMergeKeeps
<1>7. CASE SyncFastForward
  BY <1>7, SyncFastForwardKeeps
<1>8. CASE \E push \in Push : SyncDone(push)
  BY <1>8, SyncDoneKeeps
<1>9. CASE \E push \in Push : SyncCleanup(push)
  BY <1>9, SyncCleanupKeeps
<1>10. QED
  BY <1>1, <1>2, <1>3, <1>4, <1>5, <1>6, <1>7, <1>8, <1>9 DEF Scripts

LEMMA ContinuationsKeep ==
    ASSUME LifecycleInv, Continuations
    PROVE  LifecycleInv'
<1>1. CASE PushAccepted
  BY <1>1, PushAcceptedKeeps
<1>2. CASE PushFailed
  BY <1>2, PushFailedKeeps
<1>3. CASE CompletionCommit
  BY <1>3, CompletionCommitKeeps
<1>4. CASE CompletionInvalid
  BY <1>4, CompletionAbortKeeps DEF CompletionInvalid
<1>5. CASE CompletionHookRefuses
  BY <1>5, CompletionAbortKeeps DEF CompletionHookRefuses
<1>6. CASE CompletionPushed
  BY <1>6, CompletionPublishedKeeps DEF CompletionPushed, Land
<1>7. CASE CompletionReconciled
  BY <1>7, CompletionPublishedKeeps DEF CompletionReconciled, Land
<1>8. CASE \E seen \in {remote, NoCommit} : CompletionPushFailed(seen)
  BY <1>8, CompletionPushFailedKeeps
<1>9. CASE SyncStops
  BY <1>9, SyncStopsKeeps
<1>10. QED
  BY <1>1, <1>2, <1>3, <1>4, <1>5, <1>6, <1>7, <1>8, <1>9 DEF Continuations

LEMMA LifecycleStays ==
    ASSUME LifecycleInv, UNCHANGED vars
    PROVE  LifecycleInv'
<1>1. HeadsInv'
  BY DEF vars, LifecycleInv, HeadsInv
<1>2. GraphOk(commits') /\ Extends(commits, commits')
  BY GraphStays DEF vars
<1>3. OpInv'
  BY <1>2, OpStays DEF vars
<1>4. QED
  BY <1>1, <1>2, <1>3 DEF vars, LifecycleInv, ToldIsPublished

LEMMA NextLifecycle == LifecycleInv /\ [Next]_vars => LifecycleInv'
<1> SUFFICES ASSUME LifecycleInv, [Next]_vars PROVE LifecycleInv'
  OBVIOUS
<1>1. CASE Agents
  BY <1>1, AgentsKeep
<1>2. CASE Scripts
  BY <1>2, ScriptsKeep
<1>3. CASE Continuations
  BY <1>3, ContinuationsKeep
<1>4. CASE Elsewhere
  BY <1>4, MergeRequestKeeps, ForeignPushKeeps DEF Elsewhere
<1>5. CASE UNCHANGED vars
  BY <1>5, LifecycleStays
<1>6. QED
  BY <1>1, <1>2, <1>3, <1>4, <1>5 DEF Next

\* The graph only grows, and every script waits where it can go on or go back.
THEOREM LifecycleInvHolds == Spec => []LifecycleInv
  BY InitLifecycle, NextLifecycle, PTL DEF Spec

\* A head that a script reported as pushed is part of the remote's main and of
\* the local one for good, whatever was rebased, refused or taken back since.
THEOREM ToldIsPublishedHolds == Spec => []ToldIsPublished
<1>1. LifecycleInv => ToldIsPublished
  BY DEF LifecycleInv
<1>2. QED
  BY <1>1, LifecycleInvHolds, PTL

-----------------------------------------------------------------------------
(* The DEV agent's work.                                                    *)

DevKept ==
      LET onMain == Tree(commits', main').product
          onBranch == IF branch' = NoCommit THEN {} ELSE Tree(commits', branch').product
      IN  /\ worktree \in DevChanges /\ worktree' # worktree => worktree \in onBranch
          /\ branch # NoCommit => Tree(commits, branch).product \subseteq onBranch \cup onMain

\* A step after which the branch is where it was.
LEMMA BranchStays ==
    ASSUME LifecycleInv, Extends(commits, commits'), branch' = branch,
           worktree' = worktree \/ worktree \notin DevChanges
    PROVE  DevKept
<1>1. branch # NoCommit => Tree(commits', branch) = Tree(commits, branch)
  BY Parts, ExtendsKeeps DEF NoCommit
<1>2. QED
  BY <1>1 DEF DevKept

LEMMA OneMore ==
    ASSUME LifecycleInv, NEW c, commits' = Append(commits, c)
    PROVE  Extends(commits, commits') /\ Len(commits') = Len(commits) + 1 /\ commits'[Len(commits) + 1] = c
<1>1. commits \in Seq(Commit) /\ Len(commits) \in Nat /\ DOMAIN commits = 1..Len(commits)
  BY Parts
<1>2. QED
  BY <1>1 DEF Extends

LEMMA NoMore ==
    ASSUME LifecycleInv, commits' = commits
    PROVE  Extends(commits, commits')
  BY GraphStays

\* A step of anybody else's.
LEMMA WorktreeIsLeft ==
    ASSUME LifecycleInv, UNCHANGED <<branch, worktree>>,
           commits' = commits \/ \E c : commits' = Append(commits, c)
    PROVE  DevKept
  BY OneMore, NoMore, BranchStays

LEMMA AgentsLeave ==
    ASSUME LifecycleInv, Agents
    PROVE  DevKept
<1>1. commits' = commits /\ branch' = branch /\ (worktree' = worktree \/ worktree = "clean")
  BY DEF Agents, WritePlan, WriteStatus, WriteReview, WriteQaResult, WriteHandover, Write, Develop
<1>2. QED
  BY <1>1, NoMore, BranchStays DEF DevChanges

LEMMA TaskStartLeaves ==
    ASSUME LifecycleInv, NEW same, TaskStart(same)
    PROVE  DevKept
  BY DEF TaskStart, DevKept, DevChanges, LifecycleInv, HeadsInv

\* The planning gate moves the branch to a commit on top of main, which has all
\* that the branch had.
LEMMA EvidenceLeaves ==
    ASSUME LifecycleInv, NEW action \in DOMAIN AllowedFor, NEW push, EvidenceCommit(action, push)
    PROVE  DevKept
<1>1. /\ commits' = Append(commits, Child(commits, <<main>>, work)) /\ main' = Len(commits) + 1
      /\ worktree' = worktree
      /\ branch' = branch \/ (branch \in Ancestors(commits, main) /\ branch' = Len(commits) + 1)
  BY DEF EvidenceCommit, CommitEvidence, FastForward, NextId
<1>2. CASE branch' = branch
  BY <1>1, <1>2, WorktreeIsLeft
<1>3. CASE branch \in Ancestors(commits, main) /\ branch' = Len(commits) + 1
  <2>1. /\ GraphOk(commits) /\ Len(commits) \in Nat /\ main \in 1..Len(commits)
        /\ work \in Trees /\ Tree(commits, main) \in Trees
    BY Parts
  <2>2. Tree(commits, branch).product \subseteq Tree(commits, main).product
    BY <1>3, <2>1, GraphFacts
  <2>3. ChangedFiles(Tree(commits, main), work) \subseteq Documents
    BY AllowedAreDocuments DEF EvidenceCommit, Changed, HeadTree
  <2>4. work.product = Tree(commits, main).product
    BY <2>1, <2>3, SameProduct
  <2>5. commits'[main'] = Child(commits, <<main>>, work)
    BY <1>1, OneMore
  <2>6. Tree(commits', main') = work
    BY <2>5 DEF Tree, Child
  <2>7. QED
    BY <1>1, <2>2, <2>4, <2>6 DEF DevKept
<1>4. QED
  BY <1>1, <1>2, <1>3

LEMMA CandidateLeaves ==
    ASSUME LifecycleInv, CandidateCommit
    PROVE  DevKept
<1>1. /\ worktree \in Tree(commits', branch').product
      /\ branch # NoCommit => Tree(commits, branch).product \subseteq Tree(commits', branch').product
  BY CandidateKeeps
<1>2. branch' # NoCommit
  <2>1. branch' = Len(commits) + 1
    BY DEF CandidateCommit, NextId
  <2>2. QED
    BY <2>1, Parts DEF NoCommit
<1>3. QED
  BY <1>1, <1>2 DEF DevKept

\* A planning gate that gives up moves the branch back, to where main is then.
LEMMA GiveUpLeaves ==
    ASSUME LifecycleInv, op.kind = "evidence", NEW graph, GraphOk(graph), Extends(commits, graph),
           NEW head, GiveUp(graph, head), worktree' = worktree
    PROVE  DevKept
<1>1. Evidence
  BY OpIsOne
<1>2. commits' = graph
  BY DEF GiveUp
<1>3. CASE ~op.planning
  BY <1>2, <1>3, BranchStays DEF GiveUp
<1>4. CASE op.planning
  <2>1. main' = op.before /\ branch' = op.branch
    BY <1>4 DEF GiveUp
  <2>2. /\ op.before \in 1..Len(commits) /\ branch \in 1..Len(commits)
        /\ Tree(commits, branch).product \subseteq Tree(commits, op.before).product
    BY <1>1, <1>4, Parts DEF Evidence, Waiting
  <2>3. Tree(commits', op.before) = Tree(commits, op.before)
    BY <1>2, <2>2, Grown
  <2>4. QED
    BY <2>1, <2>2, <2>3 DEF DevKept
<1>5. QED
  BY <1>3, <1>4

LEMMA PushFailedLeaves ==
    ASSUME LifecycleInv, PushFailed
    PROVE  DevKept
<1>1. op.kind = "evidence" /\ worktree' = worktree
  BY DEF PushFailed
<1>2. GraphOk(commits) /\ Extends(commits, commits) /\ main \in 1..Len(commits) /\ remote \in 1..Len(commits)
  BY Parts DEF Extends
<1>3. remote' \in 1..Len(commits)
  BY <1>2 DEF PushFailed, Land
<1>4. PICK r : r = Rebase(commits, main, remote')
  OBVIOUS
<1>5. GraphOk(r.graph) /\ Extends(commits, r.graph)
  BY <1>2, <1>3, <1>4, RebaseGoesOn DEF RebaseOk
<1>6. \/ GiveUp(commits, main)
      \/ GiveUp(r.graph, r.head)
      \/ commits' = r.graph /\ branch' = branch
  BY <1>4, PushFailedOutcome DEF GoesOn
<1>7. QED
  BY <1>1, <1>2, <1>5, <1>6, GiveUpLeaves, BranchStays

\* The branch is removed when main has it all.
LEMMA CleanupLeaves ==
    ASSUME LifecycleInv, NEW push, SyncCleanup(push)
    PROVE  DevKept
<1>1. branch \in Ancestors(commits, main) /\ branch' = NoCommit /\ worktree \notin DevChanges
  BY DEF SyncCleanup, DevChanges
<1>2. GraphOk(commits) /\ main \in 1..Len(commits) /\ work \in Trees
  BY Parts
<1>3. Tree(commits, branch).product \subseteq Tree(commits, main).product
  BY <1>1, <1>2, GraphFacts
<1>4. work = Tree(commits, main)
  BY SyncIsClean DEF SyncCleanup
<1>5. PICK tree : tree = [work EXCEPT !.backlog.alloc = FALSE]
  OBVIOUS
<1>6. tree.product = work.product
  BY <1>2, <1>5 DEF Trees
<1>7. CommitEvidence(tree, FALSE, push, "end") \/ (commits' = commits /\ main' = main)
  BY <1>5, Zenon DEF SyncCleanup
<1>8. Tree(commits', main').product = Tree(commits, main).product
  <2>1. CASE commits' = commits /\ main' = main
    BY <2>1
  <2>2. CASE CommitEvidence(tree, FALSE, push, "end")
    <3>1. commits' = Append(commits, Child(commits, <<main>>, tree)) /\ main' = Len(commits) + 1
      BY <2>2 DEF CommitEvidence, NextId
    <3>2. commits'[main'] = Child(commits, <<main>>, tree)
      BY <3>1, OneMore
    <3>3. Tree(commits', main') = tree
      BY <3>2 DEF Tree, Child
    <3>4. QED
      BY <1>4, <1>6, <3>3
  <2>3. QED
    BY <1>7, <2>1, <2>2
<1>9. QED
  BY <1>1, <1>3, <1>8 DEF DevKept

LEMMA OthersLeave ==
    ASSUME LifecycleInv,
           \/ PushAccepted \/ CompletionCommit \/ CompletionInvalid \/ CompletionHookRefuses
           \/ CompletionPushed \/ CompletionReconciled \/ SyncStops \/ TaskPr \/ SyncFastForward
           \/ \E seen : CompletionPushFailed(seen)
           \/ \E push, validate : CompletionMerge(push, validate) \/ SyncDone(push) \/ \E merge : PostMerge(merge, push)
           \/ MergeRequest \/ \E file : ForeignPush(file)
    PROVE  DevKept
<1>1. UNCHANGED <<branch, worktree>>
  BY DEF PushAccepted, CompletionCommit, CompletionInvalid, CompletionHookRefuses, CompletionAbort,
         CompletionPushed, CompletionReconciled, SyncStops, TaskPr, SyncFastForward, CompletionPushFailed,
         CompletionMerge, SyncDone, PostMerge, MergeRequest, ForeignPush
<1>2. commits' = commits \/ \E c : commits' = Append(commits, c)
  BY DEF PushAccepted, CompletionCommit, CompletionInvalid, CompletionHookRefuses, CompletionAbort,
         CompletionPushed, CompletionReconciled, SyncStops, TaskPr, SyncFastForward, CompletionPushFailed,
         CompletionMerge, SyncDone, PostMerge, CommitEvidence, MergeRequest, ForeignPush
<1>3. QED
  BY <1>1, <1>2, WorktreeIsLeft

LEMMA NextLeaves ==
    ASSUME LifecycleInv, Next
    PROVE  DevKept
<1>1. CASE Agents
  BY <1>1, AgentsLeave
<1>2. CASE Scripts
  BY <1>2, TaskStartLeaves, EvidenceLeaves, CandidateLeaves, CleanupLeaves, OthersLeave DEF Scripts
<1>3. CASE Continuations
  BY <1>3, PushFailedLeaves, OthersLeave DEF Continuations
<1>4. CASE Elsewhere
  BY <1>4, OthersLeave DEF Elsewhere
<1>5. QED
  BY <1>1, <1>2, <1>3, <1>4 DEF Next

\* No script loses what the DEV agent has made: an uncommitted change leaves the
\* worktree only into a commit of the branch, and the branch gives up product
\* changes only when main has them.
THEOREM DevWorkKeptHolds == Spec => DevWorkKept
<1>1. LifecycleInv /\ [Next]_vars => [DevKept]_vars
  BY NextLeaves
<1>2. QED
  BY <1>1, LifecycleInvHolds, PTL DEF Spec, DevWorkKept, DevKept

-----------------------------------------------------------------------------
(* What a script that fails puts back.                                      *)

PutsBack == op' = Idle => CompletionPutsBack /\ HeadsPutBack

LEMMA RestoredIsStart ==
    ASSUME op \in GateOps, NEW t, \A f \in Files \ Snapshot : t[f] = op.start[f]
    PROVE  RestoreBytes(t) = op.start
<1>1. op.start \in Trees
  BY DEF GateOps
<1>2. op.start = [f \in Files |-> op.start[f]]
  BY <1>1 DEF Trees, Files, Documents
<1>3. RestoreBytes(t) = [f \in Files |-> op.start[f]]
  BY DEF RestoreBytes
<1>4. QED
  BY <1>2, <1>3

\* git merge --abort puts back the head's files, which the gate began with but
\* for those it has the bytes of.
LEMMA AbortPutsBack ==
    ASSUME LifecycleInv, op.kind = "merging", NEW staged, "product" \in staged, CompletionAbort(staged)
    PROVE  main' = op.before /\ work' = op.start
<1>1. Merging
  BY OpIsOne
<1>2. ASSUME NEW f \in Files \ Snapshot, f \in staged \/ f \in Documents
      PROVE  MergeAborted(staged)[f] = op.start[f]
  <2>1. Tree(commits, op.before)[f] = op.start[f]
    BY DEF Snapshot, ChangedFiles
  <2>2. f \in staged \/ work[f] = op.start[f]
    BY <1>1, <1>2 DEF Merging, Started
  <2>3. QED
    BY <1>1, <2>1, <2>2 DEF MergeAborted, HeadTree, Merging
<1>3. \A f \in Files \ Snapshot : MergeAborted(staged)[f] = op.start[f]
  <2>1. \A f \in Files : f \in Documents \/ f = "product"
    BY DEF Files
  <2>2. QED
    BY <1>2, <2>1
<1>4. QED
  BY <1>1, <1>3, RestoredIsStart DEF CompletionAbort, Merging

\* The remote was seen where the gate began, which is before the merge.
LEMMA ResetPutsBack ==
    ASSUME LifecycleInv, NEW seen \in {remote, NoCommit}, CompletionPushFailed(seen)
    PROVE  \/ main' = main /\ work' = Tree(commits, main)
           \/ main' = op.before /\ work' = op.start /\ main \notin Ancestors(commits', remote')
<1>1. Publishing
  BY OpIsOne DEF CompletionPushFailed
<1>2. CASE seen # op.before
  BY <1>1, <1>2 DEF CompletionPushFailed, Publishing
<1>3. CASE seen = op.before
  <2>1. GraphOk(commits) /\ op.before \in 1..Len(commits) /\ main \in Nat /\ commits' = commits
    BY <1>1, Parts DEF Publishing, Waiting, CompletionPushFailed
  <2>2. remote' = op.before
    BY <1>3, <2>1 DEF CompletionPushFailed, NoCommit
  <2>3. main \notin Ancestors(commits, op.before)
    <3>1. Ancestors(commits, op.before) \subseteq 1..op.before
      BY <2>1, GraphFacts
    <3>2. op.before < main
      BY <1>1 DEF Publishing
    <3>3. QED
      BY <2>1, <3>1, <3>2
  <2>4. PICK t : t = [work EXCEPT !.product = Tree(commits, op.before).product]
    OBVIOUS
  <2>5. \A f \in Documents : t[f] = work[f]
    BY <2>4, Parts DEF Trees, Documents
  <2>6. t["product"] = Tree(commits, op.before)["product"]
    BY <2>4, Parts, GraphFacts, <2>1 DEF Trees
  <2>7. ASSUME NEW f \in Files \ Snapshot PROVE t[f] = op.start[f]
    <3>1. Tree(commits, op.before)[f] = op.start[f]
      BY DEF Snapshot, ChangedFiles
    <3>2. CASE f \in Documents
      BY <1>1, <2>5, <3>2 DEF Publishing, Started
    <3>3. CASE f = "product"
      BY <2>6, <3>1, <3>3
    <3>4. QED
      BY <3>2, <3>3 DEF Files
  <2>8. main' = op.before /\ work' = RestoreBytes(t)
    BY <1>3, <2>4 DEF CompletionPushFailed
  <2>9. work' = op.start
    BY <1>1, <2>7, <2>8, RestoredIsStart DEF Publishing
  <2>10. QED
    BY <2>1, <2>2, <2>3, <2>8, <2>9
<1>4. QED
  BY <1>2, <1>3

LEMMA NobodyWaits ==
    ASSUME op' = Idle => op.kind \notin {"evidence", "merging", "publishing"}
    PROVE  PutsBack
  BY DEF PutsBack, CompletionPutsBack, HeadsPutBack, GateGivesUp

LEMMA ContinuationsPutBack ==
    ASSUME LifecycleInv, Continuations
    PROVE  PutsBack
<1> USE DEF PutsBack, CompletionPutsBack, HeadsPutBack, GateGivesUp
<1>1. CASE PushAccepted
  <2>1. op.kind = "evidence" /\ told' = main
    BY <1>1, OpIsOne DEF PushAccepted, Evidence
  <2>2. QED
    BY <2>1
<1>2. CASE PushFailed
  <2>1. op.kind = "evidence"
    BY <1>2 DEF PushFailed
  <2>2. (\E graph, head : GiveUp(graph, head)) \/ op'.kind = "evidence"
    <3>1. Evidence
      BY <1>2, OpIsOne DEF PushFailed
    <3>2. op \in EvidenceOps
      BY <3>1 DEF Evidence
    <3>3. PICK r : r = Rebase(commits, main, remote')
      OBVIOUS
    <3>4. \/ GiveUp(commits, main) \/ GiveUp(r.graph, r.head)
          \/ \E o : op' = [op EXCEPT !.retry = @ + 1, !.outage = @ \/ o, !.commit = r.head]
      BY <1>2, <3>3, PushFailedOutcome DEF GoesOn
    <3>5. op'.kind = "evidence" \/ GiveUp(commits, main) \/ GiveUp(r.graph, r.head)
      BY <2>1, <3>2, <3>4 DEF EvidenceOps
    <3>6. QED
      BY <3>5
  <2>3. CASE op'.kind = "evidence"
    BY <2>1, <2>3 DEF Idle
  <2>4. CASE \E graph, head : GiveUp(graph, head)
    BY <2>1, <2>4 DEF GiveUp
  <2>5. QED
    BY <2>2, <2>3, <2>4
<1>3. CASE CompletionCommit
  <2>1. op.kind = "merging" /\ commits' # commits
    <3>1. Len(commits') = Len(commits) + 1
      BY <1>3, OneMore DEF CompletionCommit
    <3>2. Len(commits) \in Nat
      BY Parts
    <3>3. commits' # commits
      BY <3>1, <3>2
    <3>4. QED
      BY <1>3, <3>3 DEF CompletionCommit
  <2>2. QED
    BY <2>1
<1>4. CASE CompletionInvalid
  BY <1>4, AbortPutsBack DEF CompletionInvalid
<1>5. CASE CompletionHookRefuses
  BY <1>5, AbortPutsBack DEF CompletionHookRefuses, Files
<1>6. CASE CompletionPushed \/ CompletionReconciled
  <2>1. Publishing /\ op.kind = "publishing"
    BY <1>6, OpIsOne DEF CompletionPushed, CompletionReconciled
  <2>2. main' = main /\ work' = work
    BY <1>6 DEF CompletionPushed, CompletionReconciled
  <2>3. QED
    BY <2>1, <2>2 DEF Publishing
<1>7. CASE \E seen \in {remote, NoCommit} : CompletionPushFailed(seen)
  BY <1>7, ResetPutsBack DEF CompletionPushFailed
<1>8. CASE SyncStops
  BY <1>8, NobodyWaits DEF SyncStops
<1>9. QED
  BY <1>1, <1>2, <1>3, <1>4, <1>5, <1>6, <1>7, <1>8 DEF Continuations

LEMMA NextPutsBack ==
    ASSUME LifecycleInv, Next
    PROVE  PutsBack
<1>1. CASE Agents \/ Scripts
  <2>1. op = Idle \/ op.kind = "cleanup"
    BY <1>1 DEF Agents, WritePlan, WriteStatus, WriteReview, WriteQaResult, WriteHandover, Write, Develop,
                Scripts, TaskStart, EvidenceCommit, CandidateCommit, CompletionMerge, TaskPr, PostMerge,
                SyncFastForward, SyncDone, SyncCleanup, Synced
  <2>2. QED
    BY <2>1, NobodyWaits DEF Idle
<1>2. CASE Continuations
  BY <1>2, ContinuationsPutBack
<1>3. CASE Elsewhere
  <2>1. op' = op
    BY <1>3 DEF Elsewhere, MergeRequest, ForeignPush
  <2>2. QED
    BY <2>1, NobodyWaits DEF Idle
<1>4. QED
  BY <1>1, <1>2, <1>3 DEF Next

\* A completion that fails has put back main and every byte that was there when
\* it began, unless its merge is on main and stays; a planning gate that gives
\* up has put back main and the Task branch.
THEOREM FailureHeadsHolds == Spec => [][op' = Idle => CompletionPutsBack /\ HeadsPutBack]_vars
<1>1. LifecycleInv /\ [Next]_vars => [PutsBack]_vars
  BY NextPutsBack
<1>2. QED
  BY <1>1, LifecycleInvHolds, PTL DEF Spec, PutsBack

-----------------------------------------------------------------------------
(* The first-parent line.                                                   *)

LineStep(g, d, i) == {i} \cup IF g[i].parents = <<>> THEN {} ELSE d[g[i].parents[1]]
LineTo(g, n, d) == d = [i \in 1..n |-> LineStep(g, d, i)]

LEMMA FirstParentBefore ==
    ASSUME NEW g, GraphOk(g), NEW c \in 1..Len(g), g[c].parents # <<>>
    PROVE  /\ g[c].parents[1] \in 1..Len(g) /\ g[c].parents[1] < c
           /\ g[c].parents[1] \in Ancestors(g, c)
<1>1. g[c].parents \in Seq(Nat)
  <2>1. g[c] \in Commit
    BY GraphFacts, ElementOfSeq
  <2>2. QED
    BY <2>1 DEF Commit
<1>2. 1 \in DOMAIN g[c].parents
  <2>1. PICK p : p = g[c].parents
    OBVIOUS
  <2>2. p \in Seq(Nat) /\ p # <<>>
    BY <1>1, <2>1
  <2>3. 1 \in DOMAIN p
    BY <2>2
  <2>4. QED
    BY <2>1, <2>3
<1>3. QED
  BY <1>2, ParentsFacts

LEMMA LineExists ==
    ASSUME NEW g, GraphOk(g)
    PROVE  \E d : LineTo(g, Len(g), d)
<1> DEFINE Bad == {n \in 0..Len(g) : ~\E d : LineTo(g, n, d)}
<1>0. Len(g) \in Nat
  BY GraphFacts
<1>1. SUFFICES ASSUME Bad # {} PROVE FALSE
  BY <1>0
<1>2. PICK m \in Bad : \A n \in Bad : m <= n
  <2>1. Bad \in SUBSET Nat
    BY <1>0
  <2> HIDE DEF Bad
  <2>2. QED
    BY <1>1, <2>1, Least
<1>3. CASE m = 0
  <2> DEFINE d == [i \in 1..0 |-> {}]
  <2>1. d = [i \in 1..0 |-> LineStep(g, d, i)]
    OBVIOUS
  <2>2. QED
    BY <1>2, <1>3, <2>1 DEF LineTo
<1>4. CASE m # 0
  <2>1. m - 1 \in 0..Len(g) /\ ~(m <= m - 1) /\ m \in 1..Len(g) /\ m \in Nat
    BY <1>0, <1>2, <1>4
  <2>2. PICK d : LineTo(g, m - 1, d)
    BY <1>2, <2>1
  <2> DEFINE e == [i \in 1..m |-> IF i = m THEN LineStep(g, d, m) ELSE d[i]]
  <2>3. d = [i \in 1..m-1 |-> LineStep(g, d, i)]
    BY <2>2 DEF LineTo
  <2>4. \A i \in 1..m-1 : e[i] = d[i]
    BY <2>1
  <2>5. ASSUME NEW i \in 1..m PROVE e[i] = LineStep(g, e, i)
    <3>1. g[i].parents # <<>> => e[g[i].parents[1]] = d[g[i].parents[1]]
      <4>1. i \in 1..Len(g)
        BY <1>0, <2>1
      <4>2. g[i].parents # <<>> => g[i].parents[1] \in 1..Len(g) /\ g[i].parents[1] < i
        BY <4>1, FirstParentBefore
      <4>3. PICK p : p = g[i].parents[1]
        OBVIOUS
      <4>4. g[i].parents # <<>> => p \in 1..m-1
        BY <1>0, <2>1, <4>2, <4>3
      <4> HIDE DEF e
      <4>5. QED
        BY <2>4, <4>3, <4>4
    <3> HIDE DEF e
    <3>2. LineStep(g, e, i) = LineStep(g, d, i)
      BY <3>1 DEF LineStep
    <3>3. CASE i = m
      BY <2>1, <3>2, <3>3 DEF e
    <3>4. CASE i # m
      <4>1. i \in 1..m-1
        BY <2>1, <3>4
      <4>2. d[i] = LineStep(g, d, i)
        BY <2>3, <4>1
      <4>3. QED
        BY <2>4, <3>2, <4>1, <4>2
    <3>5. QED
      BY <3>3, <3>4
  <2>6. e = [i \in 1..m |-> e[i]]
    OBVIOUS
  <2>7. e = [i \in 1..m |-> LineStep(g, e, i)]
    <3> HIDE DEF e
    <3>1. QED
      BY <2>5, <2>6
  <2>8. QED
    BY <1>2, <2>7 DEF LineTo
<1>5. QED
  BY <1>3, <1>4

LEMMA LineUnfolds ==
    ASSUME NEW g, GraphOk(g), NEW c \in 1..Len(g)
    PROVE  FirstParentLine(g, c)
             = {c} \cup IF g[c].parents = <<>> THEN {} ELSE FirstParentLine(g, g[c].parents[1])
<1>1. DOMAIN g = 1..Len(g)
  BY GraphFacts
<1>2. LineTo(g, Len(g), CHOOSE d : LineTo(g, Len(g), d))
  BY LineExists
<1>3. PICK e : e = CHOOSE d : LineTo(g, Len(g), d)
  OBVIOUS
<1>4. \A i : FirstParentLine(g, i) = (CHOOSE d : LineTo(g, Len(g), d))[i]
  BY <1>1, Zenon DEF FirstParentLine, LineTo, LineStep
<1>5. \A i : FirstParentLine(g, i) = e[i]
  BY <1>3, <1>4
<1>6. e[c] = LineStep(g, e, c)
  BY <1>2, <1>3 DEF LineTo
<1>7. QED
  BY <1>5, <1>6 DEF LineStep

\* The line of a commit is made of its ancestors, and never changes.
LEMMA LineIsSettled ==
    ASSUME NEW g, GraphOk(g), NEW h, GraphOk(h), Extends(g, h), NEW c \in 1..Len(g)
    PROVE  FirstParentLine(g, c) \subseteq Ancestors(g, c) /\ FirstParentLine(h, c) = FirstParentLine(g, c)
<1> DEFINE Bad == {n \in 1..Len(g) : ~(/\ FirstParentLine(g, n) \subseteq Ancestors(g, n)
                                       /\ FirstParentLine(h, n) = FirstParentLine(g, n))}
<1>1. Len(g) \in Nat
  BY GraphFacts
<1>2. SUFFICES ASSUME Bad # {} PROVE FALSE
  OBVIOUS
<1>3. PICK m \in Bad : \A n \in Bad : m <= n
  <2>1. Bad \in SUBSET Nat
    BY <1>1
  <2> HIDE DEF Bad
  <2>2. QED
    BY <1>2, <2>1, Least
<1>4. m \in 1..Len(g) /\ m \in 1..Len(h) /\ h[m] = g[m] /\ m \in Nat
  <2>1. Len(h) \in Nat
    BY GraphFacts
  <2>2. QED
    BY <1>1, <1>3, <2>1 DEF Extends
<1>5. PICK p : p = g[m].parents[1]
  OBVIOUS
<1>6. /\ FirstParentLine(g, m) = {m} \cup IF g[m].parents = <<>> THEN {} ELSE FirstParentLine(g, p)
      /\ FirstParentLine(h, m) = {m} \cup IF g[m].parents = <<>> THEN {} ELSE FirstParentLine(h, p)
  BY <1>4, <1>5, LineUnfolds
<1>7. m \in Ancestors(g, m)
  BY <1>4, GraphFacts
<1>8. CASE g[m].parents = <<>>
  BY <1>3, <1>6, <1>7, <1>8
<1>9. CASE g[m].parents # <<>>
  <2>1. p \in 1..Len(g) /\ p < m /\ p \in Ancestors(g, m)
    BY <1>4, <1>5, <1>9, FirstParentBefore
  <2>2. p \notin Bad
    BY <1>3, <1>4, <2>1
  <2>3. FirstParentLine(g, p) \subseteq Ancestors(g, p) /\ FirstParentLine(h, p) = FirstParentLine(g, p)
    BY <2>1, <2>2
  <2>4. Ancestors(g, p) \subseteq Ancestors(g, m)
    BY <1>4, <2>1, GraphFacts
  <2>5. QED
    BY <1>3, <1>6, <1>7, <1>9, <2>3, <2>4
<1>10. QED
  BY <1>8, <1>9

LEMMA MergesBelow ==
    ASSUME NEW g, GraphOk(g), NEW c \in 1..Len(g), NEW cand, NEW m \in MergesOf(g, c, cand)
    PROVE  /\ m \in 1..Len(g) /\ IsMerge(g, m) /\ g[m].parents[2] = cand
           /\ g[m].parents[1] \in 1..Len(g)
           /\ cand \in 1..Len(g) /\ cand \in Ancestors(g, c)
<1>1. Extends(g, g) /\ Len(g) \in Nat /\ Ancestors(g, c) \subseteq 1..c
  BY GraphFacts DEF Extends
<1>2. m \in Ancestors(g, c) /\ IsMerge(g, m) /\ g[m].parents[2] = cand
  BY <1>1, LineIsSettled DEF MergesOf
<1>3. m \in 1..Len(g)
  BY <1>1, <1>2
<1>4. 1 \in DOMAIN g[m].parents /\ 2 \in DOMAIN g[m].parents
  <2>1. g[m] \in Commit
    BY <1>3, GraphFacts, ElementOfSeq
  <2>2. PICK p : p = g[m].parents
    OBVIOUS
  <2>3. p \in Seq(Nat) /\ Len(p) = 2
    BY <1>2, <2>1, <2>2 DEF Commit, IsMerge
  <2>4. DOMAIN p = 1..2
    BY <2>3, LenProperties
  <2>5. QED
    BY <2>2, <2>4
<1>5. /\ g[m].parents[1] \in 1..Len(g) /\ g[m].parents[2] \in 1..Len(g)
      /\ g[m].parents[2] \in Ancestors(g, m)
  BY <1>3, <1>4, ParentsFacts
<1>6. Ancestors(g, m) \subseteq Ancestors(g, c)
  BY <1>2, GraphFacts
<1>7. QED
  BY <1>2, <1>3, <1>5, <1>6

LEMMA MergesStay ==
    ASSUME NEW g, GraphOk(g), NEW h, GraphOk(h), Extends(g, h), NEW c \in 1..Len(g), NEW cand
    PROVE  MergesOf(h, c, cand) = MergesOf(g, c, cand)
<1>1. FirstParentLine(g, c) \subseteq Ancestors(g, c) /\ FirstParentLine(h, c) = FirstParentLine(g, c)
  BY LineIsSettled
<1>2. Ancestors(g, c) \subseteq 1..c /\ Len(g) \in Nat
  BY GraphFacts
<1>3. \A m \in FirstParentLine(g, c) : h[m] = g[m]
  BY <1>1, <1>2 DEF Extends
<1>4. QED
  BY <1>1, <1>3 DEF MergesOf, IsMerge

\* What a new commit on top of a adds to the merges on its line.
LEMMA MergesOfChild ==
    ASSUME NEW g, GraphOk(g), NEW h, GraphOk(h), Extends(g, h), Len(h) = Len(g) + 1,
           NEW a \in 1..Len(g), NEW b \in 1..Len(g), NEW p, p = <<a>> \/ p = <<a, b>>,
           h[Len(g) + 1].parents = p, NEW cand
    PROVE  MergesOf(h, Len(g) + 1, cand)
             = MergesOf(g, a, cand) \cup IF p = <<a, b>> /\ b = cand THEN {Len(g) + 1} ELSE {}
<1> DEFINE n == Len(g) + 1
<1>1. Len(g) \in Nat /\ n \in 1..Len(h)
  BY GraphFacts
<1>2. p # <<>> /\ p[1] = a /\ (p = <<a, b>> => Len(p) = 2 /\ p[2] = b) /\ (p = <<a>> => Len(p) = 1)
  OBVIOUS
<1>3. FirstParentLine(h, n) = {n} \cup FirstParentLine(h, a)
  BY <1>1, <1>2, LineUnfolds
<1>4. MergesOf(h, a, cand) = MergesOf(g, a, cand)
  BY MergesStay
<1>5. MergesOf(h, n, cand) = MergesOf(h, a, cand) \cup {m \in {n} : IsMerge(h, m) /\ h[m].parents[2] = cand}
  BY <1>3 DEF MergesOf
<1>6. IsMerge(h, n) /\ h[n].parents[2] = cand <=> p = <<a, b>> /\ b = cand
  BY <1>2 DEF IsMerge
<1>7. QED
  BY <1>4, <1>5, <1>6

-----------------------------------------------------------------------------
(* What a check of one head says of a later one.                            *)

PublishedView(g, c) == [graph |-> g, main |-> c, merging |-> NoCommit, local |-> FALSE, registered |-> FALSE]
PublishedAt(g, c) == CheckTask(PublishedView(g, c), Tree(g, c))

\* Two trees that differ in nothing the rules ask for.
Alike(s, t) ==
    /\ \A f \in Documents \ {"REVIEW_RESULT"} : s[f] = t[f]
    /\ s.REVIEW_RESULT = t.REVIEW_RESULT \/ s.REVIEW_RESULT = "pending"

LEMMA AlikeParts ==
    ASSUME NEW s \in Trees, NEW t \in Trees, Alike(s, t)
    PROVE  /\ t.backlog = s.backlog /\ t.PLAN = s.PLAN /\ t.QA_PLAN = s.QA_PLAN
           /\ t.QA_RESULT = s.QA_RESULT /\ t.HANDOVER = s.HANDOVER
           /\ s.REVIEW_RESULT = "pass" => t.REVIEW_RESULT = "pass"
<1>1. \A f \in {"backlog", "PLAN", "QA_PLAN", "QA_RESULT", "HANDOVER"} : s[f] = t[f]
  BY DEF Alike, Documents
<1>2. s["backlog"] = t["backlog"] /\ s["PLAN"] = t["PLAN"] /\ s["QA_PLAN"] = t["QA_PLAN"]
      /\ s["QA_RESULT"] = t["QA_RESULT"] /\ s["HANDOVER"] = t["HANDOVER"]
  BY <1>1
<1>3. QED
  BY <1>2 DEF Alike

\* A published head has the legacy fields of itself, and no clone to ask.
LEMMA CheckCarries ==
    ASSUME NEW v, NEW h, NEW c, NEW s \in Trees, Tree(h, c) \in Trees, Alike(s, Tree(h, c)),
           CheckTask(v, s),
           s.HANDOVER.cand # NoCommit /\ ProductBinding(v, s.HANDOVER.cand) => ProductBinding(PublishedView(h, c), s.HANDOVER.cand),
           SafetyBinding(v, s.HANDOVER.cand) => SafetyBinding(PublishedView(h, c), s.HANDOVER.cand)
    PROVE  PublishedAt(h, c)
<1>1. PICK t : t = Tree(h, c)
  OBVIOUS
<1>2. PICK w : w = PublishedView(h, c)
  OBVIOUS
<1>3. w.graph = h /\ w.main = c /\ w.local = FALSE
  BY <1>2 DEF PublishedView
<1>4. /\ t.backlog = s.backlog /\ t.PLAN = s.PLAN /\ t.QA_PLAN = s.QA_PLAN
      /\ t.QA_RESULT = s.QA_RESULT /\ t.HANDOVER = s.HANDOVER
      /\ s.REVIEW_RESULT = "pass" => t.REVIEW_RESULT = "pass"
  BY <1>1, AlikeParts
<1>5. LegacyUnchanged(w, t)
  BY <1>1, <1>3 DEF LegacyUnchanged
<1>6. PlanContract(s) => PlanContract(t)
  BY <1>4, Zenon DEF PlanContract
<1>7. DevGate(v, s) => DevGate(w, t)
  BY <1>3, <1>4, Zenon DEF DevGate, PlanApproved, QaPlanApproved
<1>8. QaGate(s) => QaGate(t)
  BY <1>4, Zenon DEF QaGate
<1>9. ProductDone(v, s) => ProductDone(w, t)
  BY <1>2, <1>4, Zenon DEF ProductDone
<1>10. SafetyDone(v, s) => SafetyDone(w, t)
  BY <1>2, <1>4, Zenon DEF SafetyDone
<1>11. CheckTask(w, t)
  BY <1>4, <1>5, <1>6, <1>7, <1>8, <1>9, <1>10, Zenon DEF CheckTask
<1>12. QED
  BY <1>1, <1>2, <1>11 DEF PublishedAt

\* How a candidate came to main is a matter of the commits below it.
LEMMA SafetyBindingGrows ==
    ASSUME NEW g, GraphOk(g), NEW h, GraphOk(h), Extends(g, h), NEW v, v.graph = g, NEW w, w.graph = h,
           NEW cand \in 1..Len(g), BoundParent(v, cand) \in 1..Len(g), BoundParent(w, cand) = BoundParent(v, cand),
           SafetyBinding(v, cand)
    PROVE  SafetyBinding(w, cand)
<1>1. PICK first : first = BoundParent(v, cand)
  OBVIOUS
<1>2. /\ Ancestors(h, first) = Ancestors(g, first) /\ Ancestors(h, cand) = Ancestors(g, cand)
      /\ Tree(h, cand) = Tree(g, cand)
  BY <1>1, ExtendsKeeps
<1>3. MergeBase(h, first, cand) = MergeBase(g, first, cand)
  BY <1>2, Zenon DEF MergeBase
<1>4. PICK base : base = MergeBase(g, first, cand)
  OBVIOUS
<1>5. base \in Ancestors(g, first)
  BY <1>1, <1>4, MergeBaseShared
<1>6. base \in 1..Len(g)
  <2>1. Ancestors(g, first) \subseteq 1..first /\ Len(g) \in Nat
    BY <1>1, GraphFacts
  <2>2. QED
    BY <1>1, <1>5, <2>1
<1>7. Ancestors(h, base) = Ancestors(g, base) /\ Tree(h, base) = Tree(g, base)
  BY <1>6, ExtendsKeeps
<1>8. Since(h, base, cand) = Since(g, base, cand) /\ Introduced(h, base, cand) = Introduced(g, base, cand)
  BY <1>2, <1>7 DEF Since, Introduced
<1>9. first # NoCommit /\ Cardinality(Since(g, base, cand)) = 1 /\ Introduced(g, base, cand) = {"contract"}
  BY <1>1, <1>4, Zenon DEF SafetyBinding
<1>10. QED
  BY <1>1, <1>3, <1>4, <1>8, <1>9, Zenon DEF SafetyBinding

\* A check that was made without a merge in progress, of a head whose merges
\* are those of the published one.
LEMMA Carries ==
    ASSUME NEW g, GraphOk(g), NEW h, GraphOk(h), Extends(g, h), NEW a \in 1..Len(g), NEW c \in 1..Len(h),
           NEW v, v.graph = g, v.main = a, v.merging = NoCommit,
           NEW s \in Trees, CheckTask(v, s), Alike(s, Tree(h, c)),
           \A cand : Cardinality(MergesOf(g, a, cand)) = 1 => MergesOf(h, c, cand) = MergesOf(g, a, cand)
    PROVE  PublishedAt(h, c)
<1>1. PICK w : w = PublishedView(h, c)
  OBVIOUS
<1>2. w.graph = h /\ w.main = c /\ w.merging = NoCommit
  BY <1>1 DEF PublishedView
<1>3. PICK cand : cand = s.HANDOVER.cand
  OBVIOUS
<1>4. CASE Cardinality(MergesOf(g, a, cand)) = 1
  <2>1. MergesOf(h, c, cand) = MergesOf(g, a, cand)
    BY <1>4
  <2>2. PICK m : m = CHOOSE x \in MergesOf(g, a, cand) : TRUE
    OBVIOUS
  <2>3. m \in MergesOf(g, a, cand)
    <3>1. MergesOf(g, a, cand) # {}
      BY <1>4, FS_EmptySet
    <3>2. QED
      BY <2>2, <3>1
  <2>4. m \in 1..Len(g) /\ g[m].parents[1] \in 1..Len(g) /\ cand \in 1..Len(g)
    BY <2>3, MergesBelow
  <2>5. h[m] = g[m] /\ cand # NoCommit
    BY <2>4 DEF Extends, NoCommit
  <2>6. ProductBinding(w, cand)
    BY <1>2, <1>4, <2>1, <2>5 DEF ProductBinding
  <2>7. BoundParent(v, cand) = g[m].parents[1] /\ BoundParent(w, cand) = h[m].parents[1]
    BY <1>2, <1>4, <2>1, <2>2, Zenon DEF BoundParent
  <2>8. SafetyBinding(v, cand) => SafetyBinding(w, cand)
    BY <1>2, <2>4, <2>5, <2>7, SafetyBindingGrows
  <2>9. QED
    BY <1>1, <1>3, <2>6, <2>8, CheckCarries, GraphFacts
<1>5. CASE Cardinality(MergesOf(g, a, cand)) # 1
  <2>1. ~SafetyBinding(v, cand)
    <3>1. BoundParent(v, cand) = NoCommit
      BY <1>5, Zenon DEF BoundParent
    <3>2. QED
      BY <3>1, Zenon DEF SafetyBinding
  <2>2. cand # NoCommit => ~ProductBinding(v, cand)
    BY <1>5 DEF ProductBinding
  <2>3. QED
    BY <1>1, <1>3, <2>1, <2>2, CheckCarries, GraphFacts
<1>6. QED
  BY <1>4, <1>5

\* The check of a merge in progress, of a candidate that main has not got.
LEMMA MergeCarries ==
    ASSUME NEW g, GraphOk(g), NEW h, GraphOk(h), Extends(g, h), NEW a \in 1..Len(g),
           NEW b \in 1..Len(g) \ Ancestors(g, a), NEW v, v.graph = g, v.main = a, v.merging = b,
           NEW s \in Trees, CheckTask(v, s), Len(h) = Len(g) + 1, h[Len(g) + 1].parents = <<a, b>>,
           Tree(h, Len(g) + 1) = s
    PROVE  PublishedAt(h, Len(g) + 1)
<1> DEFINE n == Len(g) + 1
<1>1. Len(g) \in Nat /\ n \in 1..Len(h) /\ b # NoCommit /\ n # NoCommit
  BY GraphFacts DEF NoCommit
<1>2. PICK w : w = PublishedView(h, n)
  OBVIOUS
<1>3. w.graph = h /\ w.main = n /\ w.merging = NoCommit
  BY <1>2 DEF PublishedView
<1>4. PICK p : p = <<a, b>>
  OBVIOUS
<1>5. PICK cand : cand = s.HANDOVER.cand
  OBVIOUS
<1>6. MergesOf(h, n, cand) = MergesOf(g, a, cand) \cup IF b = cand THEN {n} ELSE {}
  BY <1>4, MergesOfChild
<1>7. Alike(s, s)
  BY DEF Alike
<1>8. CASE cand = b
  <2>1. MergesOf(g, a, cand) = {}
    BY <1>8, MergesBelow
  <2>2. MergesOf(h, n, cand) = {n} /\ Cardinality(MergesOf(h, n, cand)) = 1
    <3>1. PICK k : k = n
      OBVIOUS
    <3>2. MergesOf(h, k, cand) = {k}
      BY <1>6, <1>8, <2>1, <3>1
    <3>3. Cardinality({k}) = 1
      BY FS_Singleton
    <3>4. QED
      BY <3>1, <3>2, <3>3
  <2>3. ProductBinding(w, cand)
    BY <1>1, <1>3, <1>8, <2>2 DEF ProductBinding
  <2>4. BoundParent(v, cand) = a
    BY <1>1, <1>8, Zenon DEF BoundParent
  <2>5. BoundParent(w, cand) = a
    <3>0. h[n].parents[1] = a
      BY <1>1
    <3>1. PICK merges : merges = MergesOf(h, n, cand)
      OBVIOUS
    <3>2. (CHOOSE m \in merges : TRUE) = n
      BY <2>2, <3>1
    <3>3. BoundParent(w, cand) = h[CHOOSE m \in merges : TRUE].parents[1]
      BY <1>1, <1>3, <2>2, <3>1, Zenon DEF BoundParent
    <3>4. QED
      BY <3>0, <3>2, <3>3
  <2>6. SafetyBinding(v, cand) => SafetyBinding(w, cand)
    BY <1>3, <1>8, <2>4, <2>5, SafetyBindingGrows
  <2>7. QED
    BY <1>2, <1>5, <1>7, <2>3, <2>6, CheckCarries
<1>9. CASE cand # b
  <2>1. MergesOf(h, n, cand) = MergesOf(g, a, cand)
    BY <1>6, <1>9
  <2>2. ~SafetyBinding(v, cand)
    <3>1. BoundParent(v, cand) = NoCommit
      BY <1>1, <1>9, Zenon DEF BoundParent
    <3>2. QED
      BY <3>1, Zenon DEF SafetyBinding
  <2>3. cand # NoCommit /\ ProductBinding(v, cand) => ProductBinding(w, cand)
    BY <1>3, <1>9, <2>1 DEF ProductBinding
  <2>4. QED
    BY <1>2, <1>5, <1>7, <2>2, <2>3, CheckCarries
<1>10. QED
  BY <1>8, <1>9

\* What is published stays valid when the graph grows.
LEMMA PublishedStays ==
    ASSUME NEW g, GraphOk(g), NEW h, GraphOk(h), Extends(g, h), NEW c \in 1..Len(g), PublishedAt(g, c)
    PROVE  PublishedAt(h, c)
<1>1. PICK v : v = PublishedView(g, c)
  OBVIOUS
<1>2. v.graph = g /\ v.main = c /\ v.merging = NoCommit /\ CheckTask(v, Tree(g, c))
  BY <1>1 DEF PublishedView, PublishedAt
<1>3. Tree(h, c) = Tree(g, c) /\ Tree(g, c) \in Trees /\ c \in 1..Len(h)
  BY ExtendsKeeps, GraphFacts DEF Extends
<1>4. Alike(Tree(g, c), Tree(h, c))
  BY <1>3 DEF Alike
<1>5. \A cand : MergesOf(h, c, cand) = MergesOf(g, c, cand)
  BY MergesStay
<1>6. QED
  BY <1>2, <1>3, <1>4, <1>5, Carries

\* A new commit on top of a head that was checked, or a merge into it of what it
\* has not got, with a tree that differs in nothing the rules ask for.
LEMMA TopCarries ==
    ASSUME NEW g, GraphOk(g), NEW h, GraphOk(h), Extends(g, h), Len(h) = Len(g) + 1,
           NEW a \in 1..Len(g), NEW b \in 1..Len(g), NEW p, p = <<a>> \/ (p = <<a, b>> /\ b \notin Ancestors(g, a)),
           h[Len(g) + 1].parents = p,
           NEW v, v.graph = g, v.main = a, v.merging = NoCommit,
           NEW s \in Trees, CheckTask(v, s), Alike(s, Tree(h, Len(g) + 1))
    PROVE  PublishedAt(h, Len(g) + 1)
<1>1. PICK c : c = Len(g) + 1
  OBVIOUS
<1>2. Len(g) \in Nat /\ c \in 1..Len(h)
  BY <1>1, GraphFacts
<1>3. ASSUME NEW cand, Cardinality(MergesOf(g, a, cand)) = 1
      PROVE  MergesOf(h, c, cand) = MergesOf(g, a, cand)
  <2>1. cand \in Ancestors(g, a)
    <3>1. MergesOf(g, a, cand) # {}
      BY <1>3, FS_EmptySet
    <3>2. PICK m : m \in MergesOf(g, a, cand)
      BY <3>1
    <3>3. QED
      BY <3>2, MergesBelow
  <2>2. ~(p = <<a, b>> /\ b = cand)
    <3>1. <<a>> # <<a, b>>
      <4>1. Len(<<a>>) = 1 /\ Len(<<a, b>>) = 2
        OBVIOUS
      <4>2. QED
        BY <4>1
    <3>2. QED
      BY <2>1, <3>1
  <2>3. MergesOf(h, Len(g) + 1, cand)
          = MergesOf(g, a, cand) \cup IF p = <<a, b>> /\ b = cand THEN {Len(g) + 1} ELSE {}
    BY MergesOfChild
  <2>4. QED
    BY <1>1, <2>2, <2>3
<1>4. Alike(s, Tree(h, c))
  BY <1>1
<1>5. PublishedAt(h, c)
  BY <1>2, <1>3, <1>4, Carries
<1>6. QED
  BY <1>1, <1>5

-----------------------------------------------------------------------------
(* What is on the remote, or about to be pushed, is valid.                  *)

\* The check of a product or safety completion asks for one merge of the candidate.
BoundAt(g, c) ==
    Tree(g, c).backlog.status = "done" /\ Tree(g, c).backlog.merged = NoCommit =>
      Cardinality(MergesOf(g, c, Tree(g, c).HANDOVER.cand)) = 1

\* Nothing looks at a completion that is committed without the check, and it
\* may stand below any later head.  Its candidate is bound all the same.
SoundAt(g, u, c) == BoundAt(g, c) /\ (u \cap Ancestors(g, c) = {} => PublishedAt(g, c))

ValidInv ==
    /\ unchecked \subseteq 1..Len(commits)
    /\ SoundAt(commits, unchecked, remote)
    /\ op.kind \in {"evidence", "publishing"} => SoundAt(commits, unchecked, main)
    /\ op.kind = "merging" => op.cand = work.HANDOVER.cand

LEMMA PublishedIsBound ==
    ASSUME NEW g, NEW c, PublishedAt(g, c)
    PROVE  BoundAt(g, c)
<1>1. PICK tree : tree = Tree(g, c)
  OBVIOUS
<1>2. PICK cand : cand = tree.HANDOVER.cand
  OBVIOUS
<1>3. SUFFICES ASSUME tree.backlog.status = "done", tree.backlog.merged = NoCommit
               PROVE  Cardinality(MergesOf(g, c, cand)) = 1
  BY <1>1, <1>2, Zenon DEF BoundAt
<1>4. PICK v : v = PublishedView(g, c)
  OBVIOUS
<1>5. v.graph = g /\ v.main = c /\ v.merging = NoCommit
  BY <1>4 DEF PublishedView
<1>6. CheckTask(v, tree)
  BY <1>1, <1>4 DEF PublishedAt
<1>7. SafetyDone(v, tree) \/ ProductDone(v, tree)
  BY <1>3, <1>6, Zenon DEF CheckTask
<1>8. CASE SafetyDone(v, tree)
  <2>1. SafetyBinding(v, cand)
    BY <1>2, <1>3, <1>8, Zenon DEF SafetyDone
  <2>2. BoundParent(v, cand) # NoCommit
    BY <2>1, Zenon DEF SafetyBinding
  <2>3. QED
    BY <1>5, <2>2, Zenon DEF BoundParent
<1>9. CASE ProductDone(v, tree)
  <2>1. cand # NoCommit /\ ProductBinding(v, cand)
    BY <1>2, <1>9, Zenon DEF ProductDone
  <2>2. v.merging # cand
    BY <1>5, <2>1
  <2>3. QED
    BY <1>5, <2>1, <2>2, Zenon DEF ProductBinding
<1>10. QED
  BY <1>7, <1>8, <1>9

LEMMA OneIsSome ==
    ASSUME NEW S, Cardinality(S) = 1
    PROVE  \E m : m \in S
<1>1. S # {}
  BY FS_EmptySet
<1>2. QED
  BY <1>1

\* A commit on top that is not another merge of the same candidate.
LEMMA BoundCarries ==
    ASSUME NEW g, GraphOk(g), NEW h, GraphOk(h), Extends(g, h), Len(h) = Len(g) + 1,
           NEW a \in 1..Len(g), NEW b \in 1..Len(g), NEW p, p = <<a>> \/ (p = <<a, b>> /\ b \notin Ancestors(g, a)),
           h[Len(g) + 1].parents = p, NEW n, n = Len(g) + 1,
           NEW s \in Trees, s = Tree(g, a), NEW t \in Trees, t = Tree(h, n), Alike(s, t), BoundAt(g, a)
    PROVE  BoundAt(h, n)
<1>1. PICK cand : cand = t.HANDOVER.cand
  OBVIOUS
<1>2. t.backlog = s.backlog /\ cand = s.HANDOVER.cand
  BY <1>1, AlikeParts
<1>3. SUFFICES ASSUME t.backlog.status = "done", t.backlog.merged = NoCommit
               PROVE  Cardinality(MergesOf(h, n, cand)) = 1
  BY <1>1, Zenon DEF BoundAt
<1>4. Cardinality(MergesOf(g, a, cand)) = 1
  BY <1>2, <1>3, Zenon DEF BoundAt
<1>5. ~(p = <<a, b>> /\ b = cand)
  <2>1. PICK m : m \in MergesOf(g, a, cand)
    BY <1>4, OneIsSome
  <2>2. cand \in Ancestors(g, a)
    BY <2>1, MergesBelow
  <2>3. <<a>> # <<a, b>>
    <3>1. Len(<<a>>) = 1 /\ Len(<<a, b>>) = 2
      OBVIOUS
    <3>2. QED
      BY <3>1
  <2>4. QED
    BY <2>2, <2>3
<1>6. MergesOf(h, n, cand) = MergesOf(g, a, cand) \cup IF p = <<a, b>> /\ b = cand THEN {n} ELSE {}
  BY MergesOfChild
<1>7. QED
  BY <1>4, <1>5, <1>6

LEMMA PublishedIsSound ==
    ASSUME NEW g, NEW c, NEW u, PublishedAt(g, c)
    PROVE  SoundAt(g, u, c)
BY PublishedIsBound DEF SoundAt

\* The first merge of a candidate is the only one, whether it was checked or not.
LEMMA OneMergeIsBound ==
    ASSUME NEW g, GraphOk(g), NEW h, GraphOk(h), Extends(g, h), Len(h) = Len(g) + 1,
           NEW a \in 1..Len(g), NEW b \in 1..Len(g), b \notin Ancestors(g, a),
           NEW p, p = <<a>> \/ p = <<a, b>>, p # <<a>>,
           h[Len(g) + 1].parents = p, NEW n, n = Len(g) + 1, Tree(h, n).HANDOVER.cand = b
    PROVE  BoundAt(h, n)
<1>1. MergesOf(h, n, b) = MergesOf(g, a, b) \cup IF p = <<a, b>> /\ b = b THEN {n} ELSE {}
  BY MergesOfChild
<1>2. MergesOf(g, a, b) = {}
  <2>1. ASSUME NEW m \in MergesOf(g, a, b) PROVE FALSE
    BY <2>1, MergesBelow
  <2>2. QED
    BY <2>1
<1>3. MergesOf(h, n, b) = {n}
  BY <1>1, <1>2
<1>4. Cardinality(MergesOf(h, n, b)) = 1
  BY <1>3, FS_Singleton
<1>5. QED
  BY <1>4, Zenon DEF BoundAt

\* What is said of a head stays true while the graph grows above it.
LEMMA SoundStays ==
    ASSUME NEW g, GraphOk(g), NEW h, GraphOk(h), Extends(g, h), NEW c \in 1..Len(g), NEW u, NEW w, u \subseteq w,
           SoundAt(g, u, c)
    PROVE  SoundAt(h, w, c)
<1>1. Tree(h, c) = Tree(g, c) /\ Ancestors(h, c) = Ancestors(g, c)
  BY ExtendsKeeps
<1>2. MergesOf(h, c, Tree(g, c).HANDOVER.cand) = MergesOf(g, c, Tree(g, c).HANDOVER.cand)
  BY MergesStay
<1>3. BoundAt(h, c)
  BY <1>1, <1>2, Zenon DEF SoundAt, BoundAt
<1>4. CASE w \cap Ancestors(h, c) # {}
  BY <1>3, <1>4 DEF SoundAt
<1>5. CASE w \cap Ancestors(h, c) = {}
  <2>1. PublishedAt(g, c)
    BY <1>1, <1>5 DEF SoundAt
  <2>2. QED
    BY <1>3, <2>1, PublishedStays DEF SoundAt
<1>6. QED
  BY <1>4, <1>5

LEMMA InitValid == Init => ValidInv
<1> SUFFICES ASSUME Init PROVE ValidInv
  OBVIOUS
<1>1. Tree(commits, remote) = Absent
  BY DEF Init, Tree
<1>2. Absent.backlog.status = "absent"
  BY DEF Absent, Scaffold
<1>3. PublishedAt(commits, remote)
  BY <1>1, <1>2, Zenon DEF PublishedAt, CheckTask
<1>4. op.kind = "idle" /\ unchecked = {}
  BY DEF Init, Idle
<1>5. QED
  BY <1>3, <1>4, PublishedIsSound DEF ValidInv

\* Two parts of it in the steps that add commits.
LEMMA UncheckedStay ==
    ASSUME LifecycleInv, ValidInv, LifecycleInv', Extends(commits, commits'), unchecked' = unchecked
    PROVE  unchecked' \subseteq 1..Len(commits')
<1>1. Len(commits) \in Nat /\ Len(commits') \in Nat /\ Len(commits) <= Len(commits')
  BY GraphFacts DEF LifecycleInv, Extends
<1>2. QED
  BY <1>1 DEF ValidInv

LEMMA RemoteStaysSound ==
    ASSUME LifecycleInv, ValidInv, GraphOk(commits'), Extends(commits, commits'), remote' = remote,
           unchecked \subseteq unchecked'
    PROVE  SoundAt(commits', unchecked', remote')
<1>1. GraphOk(commits) /\ remote \in 1..Len(commits)
  BY Parts
<1>2. PICK g, h, u, w, c : g = commits /\ h = commits' /\ u = unchecked /\ w = unchecked' /\ c = remote
  OBVIOUS
<1>3. SoundAt(g, u, c)
  BY <1>2 DEF ValidInv
<1>4. SoundAt(h, w, c)
  BY <1>1, <1>2, <1>3, SoundStays
<1>5. QED
  BY <1>2, <1>4

\* A step in which neither what waits to be pushed nor the remote moves.
LEMMA ValidStays ==
    ASSUME LifecycleInv, ValidInv, GraphOk(commits'), Extends(commits, commits'), unchecked' = unchecked,
           remote' = remote \/ (remote' = main /\ op.kind \in {"evidence", "publishing"}),
           op'.kind \in {"evidence", "publishing"} => op.kind \in {"evidence", "publishing"} /\ main' = main,
           op'.kind = "merging" => op'.cand = work'.HANDOVER.cand
    PROVE  ValidInv'
<1>1. GraphOk(commits) /\ main \in 1..Len(commits) /\ remote \in 1..Len(commits)
  BY Parts
<1>2. PICK g, h, u, c : g = commits /\ h = commits' /\ u = unchecked /\ c = remote'
  OBVIOUS
<1>3. SoundAt(g, u, c) /\ c \in 1..Len(g)
  BY <1>1, <1>2 DEF ValidInv
<1>4. SoundAt(h, u, c)
  BY <1>1, <1>2, <1>3, SoundStays
<1>5. op'.kind \in {"evidence", "publishing"} => SoundAt(h, u, main)
  BY <1>1, <1>2, SoundStays DEF ValidInv
<1>6. unchecked' \subseteq 1..Len(commits')
  <2>1. Len(commits) \in Nat /\ Len(commits') \in Nat /\ Len(commits) <= Len(commits')
    BY <1>1, GraphFacts DEF Extends
  <2>2. QED
    BY <2>1 DEF ValidInv
<1>7. QED
  BY <1>2, <1>4, <1>5, <1>6 DEF ValidInv

\* A commit of documents on the local main.
LEMMA CommitIsValid ==
    ASSUME LifecycleInv, ValidInv, LifecycleInv', remote' = remote, unchecked' = unchecked,
           NEW tree, NEW planning, NEW push, NEW next, CommitEvidence(tree, planning, push, next)
    PROVE  ValidInv'
<1>1. GraphOk(commits) /\ main \in 1..Len(commits) /\ remote \in 1..Len(commits) /\ Len(commits) \in Nat
  BY Parts
<1>2. commits' = Append(commits, Child(commits, <<main>>, tree)) /\ main' = Len(commits) + 1
  BY DEF CommitEvidence, NextId
<1>3. GraphOk(commits')
  BY DEF LifecycleInv
<1>4. /\ Extends(commits, commits') /\ Len(commits') = Len(commits) + 1
      /\ commits'[Len(commits) + 1] = Child(commits, <<main>>, tree)
  BY <1>2, OneMore
<1>5. commits'[Len(commits) + 1].parents = <<main>> /\ Tree(commits', Len(commits) + 1) = tree
  BY <1>4 DEF Child, Tree
<1>6. tree \in Trees
  BY <1>1, <1>3, <1>4, <1>5, GraphFacts
<1>7. PICK v : v = View(NoCommit)
  OBVIOUS
<1>8. v.graph = commits /\ v.main = main /\ v.merging = NoCommit /\ CheckTask(v, tree)
  BY <1>7 DEF View, CommitEvidence
<1>9. Alike(tree, Tree(commits', Len(commits) + 1))
  BY <1>5 DEF Alike
<1>10. PICK h, p : h = commits' /\ p = <<main>>
  OBVIOUS
<1>11. PublishedAt(h, Len(commits) + 1)
  BY <1>1, <1>3, <1>4, <1>5, <1>6, <1>8, <1>9, <1>10, TopCarries
<1>12. SoundAt(commits', unchecked', main')
  <2>1. PublishedAt(h, main')
    BY <1>2, <1>11
  <2>2. QED
    BY <1>10, <2>1, PublishedIsSound
<1>13. SoundAt(commits', unchecked', remote')
  BY <1>1, <1>3, <1>4, RemoteStaysSound
<1>14. op'.kind \in {"idle", "evidence"}
  BY DEF CommitEvidence, Idle
<1>15. QED
  BY <1>4, <1>12, <1>13, <1>14, UncheckedStay DEF ValidInv

\* A head of the remote's, made there: it is as sound as the one below it.
LEMMA RemoteIsValid ==
    ASSUME LifecycleInv, ValidInv, LifecycleInv', UNCHANGED <<main, op, work, unchecked>>, NEW tree, NEW p,
           NEW b \in 1..Len(commits), p = <<remote>> \/ (p = <<remote, b>> /\ b \notin Ancestors(commits, remote)),
           Alike(Tree(commits, remote), tree),
           commits' = Append(commits, Child(commits, p, tree)), remote' = Len(commits) + 1
    PROVE  ValidInv'
<1>1. /\ GraphOk(commits) /\ main \in 1..Len(commits) /\ remote \in 1..Len(commits)
      /\ Tree(commits, remote) \in Trees /\ Len(commits) \in Nat
  BY Parts
<1>2. GraphOk(commits')
  BY DEF LifecycleInv
<1>3. /\ Extends(commits, commits') /\ Len(commits') = Len(commits) + 1
      /\ commits'[Len(commits) + 1] = Child(commits, p, tree)
  BY OneMore
<1>4. commits'[Len(commits) + 1].parents = p /\ Tree(commits', Len(commits) + 1) = tree
  BY <1>3 DEF Child, Tree
<1>5. PICK g, h, a, n, u : g = commits /\ h = commits' /\ a = remote /\ n = Len(commits) + 1 /\ u = unchecked
  OBVIOUS
<1>6. PICK s : s = Tree(g, a)
  OBVIOUS
<1>7. /\ GraphOk(g) /\ GraphOk(h) /\ Extends(g, h) /\ Len(h) = Len(g) + 1 /\ n = Len(g) + 1 /\ n \in 1..Len(h)
      /\ a \in 1..Len(g) /\ b \in 1..Len(g) /\ s \in Trees /\ tree \in Trees /\ Alike(s, tree)
      /\ h[n].parents = p /\ Tree(h, n) = tree
      /\ p = <<a>> \/ (p = <<a, b>> /\ b \notin Ancestors(g, a))
  <2>1. n \in 1..Len(h)
    BY <1>1, <1>3, <1>5
  <2>2. GraphOk(h) /\ Tree(h, n) = tree
    BY <1>2, <1>4, <1>5
  <2>3. tree \in Trees
    BY <2>1, <2>2, GraphFacts
  <2>4. QED
    BY <1>1, <1>2, <1>3, <1>4, <1>5, <1>6, <2>1, <2>2, <2>3
<1>8. SoundAt(g, u, a) /\ a \in Ancestors(h, n)
  <2>1. SoundAt(g, u, a)
    BY <1>5 DEF ValidInv
  <2>2. 1 \in DOMAIN h[n].parents /\ h[n].parents[1] = a
    <3>1. p = <<a>> \/ p = <<a, b>>
      BY <1>7
    <3>2. 1 \in DOMAIN p /\ p[1] = a
      BY <3>1
    <3>3. QED
      BY <1>7, <3>2
  <2>3. a \in Ancestors(h, n)
    <3>1. h[n].parents[1] \in Ancestors(h, n)
      BY <1>7, <2>2, ParentsFacts
    <3>2. QED
      BY <2>2, <3>1
  <2>4. QED
    BY <2>1, <2>3
<1>9. BoundAt(h, n)
  <2>1. BoundAt(g, a)
    BY <1>8 DEF SoundAt
  <2>2. QED
    BY <1>6, <1>7, <2>1, BoundCarries
<1>10. u \cap Ancestors(h, n) = {} => PublishedAt(h, n)
  <2>1. SUFFICES ASSUME u \cap Ancestors(h, n) = {} PROVE PublishedAt(h, n)
    OBVIOUS
  <2>2. Ancestors(g, a) \subseteq Ancestors(h, n)
    <3>1. GraphOk(g) /\ GraphOk(h) /\ Extends(g, h) /\ a \in 1..Len(g) /\ n \in 1..Len(h)
      BY <1>7
    <3>2. Ancestors(h, a) = Ancestors(g, a)
      BY <3>1, ExtendsKeeps
    <3>3. Ancestors(h, a) \subseteq Ancestors(h, n)
      BY <1>8, <3>1, GraphFacts
    <3>4. QED
      BY <3>2, <3>3
  <2>3. PublishedAt(g, a)
    BY <1>8, <2>1, <2>2 DEF SoundAt
  <2>4. PICK v : v = PublishedView(g, a)
    OBVIOUS
  <2>5. v.graph = g /\ v.main = a /\ v.merging = NoCommit /\ CheckTask(v, s)
    BY <1>6, <2>3, <2>4 DEF PublishedAt, PublishedView
  <2>6. QED
    BY <1>7, <2>5, TopCarries
<1>11. SoundAt(h, u, n)
  BY <1>9, <1>10 DEF SoundAt
<1>12. op'.kind \in {"evidence", "publishing"} => SoundAt(h, u, main)
  <2>1. ASSUME op.kind \in {"evidence", "publishing"} PROVE SoundAt(g, u, main)
    BY <1>5, <2>1 DEF ValidInv
  <2>2. main \in 1..Len(g)
    BY <1>1, <1>5
  <2>3. QED
    BY <1>7, <2>1, <2>2, SoundStays
<1>13. QED
  BY <1>3, <1>5, <1>11, <1>12, UncheckedStay DEF ValidInv

\* Steps that commit nothing to main or the remote, or take something back.
LEMMA QuietIsValid ==
    ASSUME LifecycleInv, ValidInv, LifecycleInv',
           \/ Agents \/ (\E same : TaskStart(same)) \/ CandidateCommit \/ (\E push, validate : CompletionMerge(push, validate))
           \/ TaskPr \/ SyncFastForward \/ SyncStops \/ PushAccepted
           \/ CompletionInvalid \/ CompletionHookRefuses \/ CompletionPushed \/ CompletionReconciled
           \/ (\E seen : CompletionPushFailed(seen)) \/ UNCHANGED vars
    PROVE  ValidInv'
<1>1. commits' = commits \/ \E c : commits' = Append(commits, c)
  BY DEF Agents, WritePlan, WriteStatus, WriteReview, WriteQaResult, WriteHandover, Write, Develop,
         TaskStart, CandidateCommit, CompletionMerge, TaskPr, SyncFastForward, SyncStops, PushAccepted,
         CompletionInvalid, CompletionHookRefuses, CompletionAbort, CompletionPushed, CompletionReconciled,
         CompletionPushFailed, vars
<1>2. remote' = remote \/ (remote' = main /\ op.kind \in {"evidence", "publishing"})
  BY DEF Agents, WritePlan, WriteStatus, WriteReview, WriteQaResult, WriteHandover, Write, Develop,
         TaskStart, CandidateCommit, CompletionMerge, TaskPr, SyncFastForward, SyncStops, PushAccepted,
         CompletionInvalid, CompletionHookRefuses, CompletionAbort, CompletionPushed, CompletionReconciled,
         CompletionPushFailed, Land, atRemote, vars
<1>3. \/ op' = Idle
      \/ op' = [kind |-> "cleanup"]
      \/ op'.kind = "merging" /\ op'.cand = work'.HANDOVER.cand
      \/ UNCHANGED <<op, main, work>>
  <2>1. CASE Agents
    BY <2>1 DEF Agents, WritePlan, WriteStatus, WriteReview, WriteQaResult, WriteHandover, Write, Develop
  <2>2. CASE \E push, validate : CompletionMerge(push, validate)
    <3>1. work \in Trees
      BY Parts
    <3>2. PICK t : t = work
      OBVIOUS
    <3>3. \E new : work' = [t EXCEPT !.product = t.product \cup new]
      BY <2>2, <3>2 DEF CompletionMerge
    <3>4. work'.HANDOVER = work.HANDOVER
      BY <3>1, <3>2, <3>3 DEF Trees
    <3>5. op'.kind = "merging" /\ op'.cand = work.HANDOVER.cand
      BY <2>2 DEF CompletionMerge
    <3>6. QED
      BY <3>4, <3>5
  <2>3. CASE \/ (\E same : TaskStart(same)) \/ CandidateCommit \/ TaskPr \/ SyncFastForward \/ SyncStops
             \/ UNCHANGED vars
    BY <2>3 DEF TaskStart, CandidateCommit, TaskPr, SyncFastForward, Synced, SyncStops, vars
  <2>4. CASE \/ PushAccepted \/ CompletionInvalid \/ CompletionHookRefuses \/ CompletionPushed
             \/ CompletionReconciled \/ (\E seen : CompletionPushFailed(seen))
    BY <2>4 DEF PushAccepted, CompletionInvalid, CompletionHookRefuses, CompletionAbort, CompletionPushed,
                CompletionReconciled, CompletionPushFailed
  <2>5. QED
    BY <2>1, <2>2, <2>3, <2>4
<1>4. Extends(commits, commits') /\ GraphOk(commits')
  BY <1>1, OneMore, NoMore DEF LifecycleInv
<1>5. op'.kind \in {"evidence", "publishing"} => op.kind \in {"evidence", "publishing"} /\ main' = main
  BY <1>3 DEF Idle
<1>6. op'.kind = "merging" => op'.cand = work'.HANDOVER.cand
  BY <1>3 DEF Idle, ValidInv
<1>7. unchecked' = unchecked
  BY DEF Agents, WritePlan, WriteStatus, WriteReview, WriteQaResult, WriteHandover, Write, Develop,
         TaskStart, CandidateCommit, CompletionMerge, TaskPr, SyncFastForward, SyncStops, PushAccepted,
         CompletionInvalid, CompletionHookRefuses, CompletionAbort, CompletionPushed, CompletionReconciled,
         CompletionPushFailed, vars
<1>8. QED
  BY <1>2, <1>4, <1>5, <1>6, <1>7, ValidStays

\* Commits of documents, and those that cannot be made.
LEMMA DocumentsAreValid ==
    ASSUME LifecycleInv, ValidInv, LifecycleInv',
           \/ \E action, push : EvidenceCommit(action, push)
           \/ \E merge, push : PostMerge(merge, push)
           \/ \E push : SyncDone(push) \/ SyncCleanup(push)
    PROVE  ValidInv'
<1>1. remote' = remote /\ unchecked' = unchecked
  BY DEF EvidenceCommit, PostMerge, SyncDone, SyncCleanup, atRemote
<1>2. \/ \E tree, planning, push, next : CommitEvidence(tree, planning, push, next)
      \/ commits' = commits /\ op' = Idle
  <2>1. CASE \E action, push : EvidenceCommit(action, push)
    BY <2>1 DEF EvidenceCommit
  <2>2. CASE \E merge, push : PostMerge(merge, push)
    BY <2>2 DEF PostMerge
  <2>3. CASE \E push : SyncDone(push)
    BY <2>3 DEF SyncDone, Synced
  <2>4. CASE \E push : SyncCleanup(push)
    BY <2>4 DEF SyncCleanup
  <2>5. QED
    BY <2>1, <2>2, <2>3, <2>4
<1>3. CASE \E tree, planning, push, next : CommitEvidence(tree, planning, push, next)
  BY <1>1, <1>3, CommitIsValid
<1>4. CASE commits' = commits /\ op' = Idle
  <2>1. Extends(commits, commits') /\ GraphOk(commits')
    BY <1>4, NoMore DEF LifecycleInv
  <2>2. QED
    BY <1>1, <1>4, <2>1, ValidStays DEF Idle
<1>5. QED
  BY <1>2, <1>3, <1>4

\* A retry goes on with a head that it has checked after rebasing it.
LEMMA PushFailedIsValid ==
    ASSUME LifecycleInv, ValidInv, LifecycleInv', PushFailed
    PROVE  ValidInv'
<1>1. op.kind = "evidence" /\ (remote' = remote \/ remote' = main) /\ unchecked' = unchecked
  BY DEF PushFailed, Land
<1>2. GraphOk(commits) /\ main \in 1..Len(commits) /\ remote \in 1..Len(commits) /\ Extends(commits, commits)
  BY Parts DEF Extends
<1>3. PICK r : r = Rebase(commits, main, remote')
  OBVIOUS
<1>4. GraphOk(r.graph) /\ Extends(commits, r.graph) /\ r.head \in 1..Len(r.graph)
  <2>1. PICK onto : onto = remote'
    OBVIOUS
  <2>2. onto \in 1..Len(commits) /\ r = Rebase(commits, main, onto)
    BY <1>1, <1>2, <1>3, <2>1
  <2>3. RebaseOk(r, commits, onto)
    BY <1>2, <2>2, RebaseGoesOn
  <2>4. QED
    BY <2>3 DEF RebaseOk
<1>5. PICK v : v = [View(NoCommit) EXCEPT !.graph = r.graph, !.main = r.head]
  OBVIOUS
<1>6. v.graph = r.graph /\ v.main = r.head /\ v.merging = NoCommit
  BY <1>5 DEF View
<1>7. \/ GiveUp(commits, main)
      \/ GiveUp(r.graph, r.head)
      \/ CheckTask(v, r.graph[r.head].tree) /\ commits' = r.graph /\ main' = r.head
  BY <1>3, <1>5, PushFailedOutcome DEF GoesOn
<1>8. CASE \E graph, head : graph \in {commits, r.graph} /\ GiveUp(graph, head)
  <2>1. Extends(commits, commits') /\ GraphOk(commits') /\ op' = Idle
    BY <1>2, <1>4, <1>8 DEF GiveUp
  <2>2. QED
    BY <1>1, <2>1, ValidStays DEF Idle
<1>9. CASE CheckTask(v, r.graph[r.head].tree) /\ commits' = r.graph /\ main' = r.head
  <2>1. PICK g, c : g = r.graph /\ c = r.head
    OBVIOUS
  <2>2. /\ GraphOk(g) /\ Extends(g, g) /\ c \in 1..Len(g) /\ Tree(g, c) \in Trees
        /\ CheckTask(v, Tree(g, c)) /\ Alike(Tree(g, c), Tree(g, c)) /\ v.graph = g /\ v.main = c
    BY <1>4, <1>6, <1>9, <2>1, GraphFacts DEF Extends, Tree, Alike
  <2>3. PublishedAt(g, c)
    BY <1>6, <2>2, Carries
  <2>4. PICK d, u, f : d = remote' /\ u = unchecked /\ f = commits
    OBVIOUS
  <2>5. GraphOk(f) /\ Extends(f, g) /\ d \in 1..Len(f) /\ SoundAt(f, u, d)
    BY <1>1, <1>2, <1>4, <2>1, <2>4 DEF ValidInv
  <2>6. SoundAt(g, u, d) /\ SoundAt(g, u, c)
    BY <2>2, <2>3, <2>5, SoundStays, PublishedIsSound
  <2>7. op'.kind # "merging"
    <3>1. Evidence
      BY <1>1, OpIsOne
    <3>2. CASE op' = Idle
      BY <3>2 DEF Idle
    <3>3. CASE \E o : op' = [op EXCEPT !.retry = @ + 1, !.outage = @ \/ o, !.commit = r.head]
      <4>1. op \in EvidenceOps
        BY <3>1 DEF Evidence
      <4>2. QED
        BY <3>3, <4>1 DEF EvidenceOps
    <3>4. QED
      BY <1>3, <3>2, <3>3, PushFailedOutcome DEF GoesOn, GiveUp
  <2>8. Extends(commits, commits')
    BY <1>4, <1>9
  <2>9. QED
    BY <1>1, <1>9, <2>1, <2>4, <2>6, <2>7, <2>8, UncheckedStay DEF ValidInv
<1>10. QED
  BY <1>7, <1>8, <1>9

\* The merge of the gate's has been checked as a merge in progress.
LEMMA CompletionIsValid ==
    ASSUME LifecycleInv, ValidInv, LifecycleInv', CompletionCommit
    PROVE  ValidInv'
<1>1. Merging
  BY OpIsOne DEF CompletionCommit
<1>2. /\ GraphOk(commits) /\ main \in 1..Len(commits) /\ remote \in 1..Len(commits) /\ work \in Trees
      /\ DOMAIN commits = 1..Len(commits)
  BY Parts
<1>3. PICK b : b = op.cand
  OBVIOUS
<1>4. b \in 1..Len(commits) \ Ancestors(commits, main)
  BY <1>1, <1>2, <1>3 DEF Merging
<1>5. PICK p : p = <<main, b>>
  OBVIOUS
<1>6. /\ commits' = Append(commits, Child(commits, p, work)) /\ main' = Len(commits) + 1
      /\ remote' = remote
  BY <1>3, <1>5 DEF CompletionCommit, NextId, atRemote
<1>7. GraphOk(commits')
  BY DEF LifecycleInv
<1>8. /\ Extends(commits, commits') /\ Len(commits') = Len(commits) + 1
      /\ commits'[Len(commits) + 1] = Child(commits, p, work)
  BY <1>6, OneMore
<1>9. commits'[Len(commits) + 1].parents = <<main, b>> /\ Tree(commits', Len(commits) + 1) = work
  BY <1>5, <1>8 DEF Child, Tree
<1>10. PICK v : v = View(b)
  OBVIOUS
<1>11. v.graph = commits /\ v.main = main /\ v.merging = b /\ (op.validate => CheckTask(v, work))
  BY <1>3, <1>10 DEF View, CompletionCommit
<1>12. PICK h, g, a, s, n : h = commits' /\ g = commits /\ a = main /\ s = work /\ n = Len(g) + 1
  OBVIOUS
<1>13. /\ GraphOk(g) /\ GraphOk(h) /\ Extends(g, h) /\ a \in 1..Len(g) /\ b \in 1..Len(g) \ Ancestors(g, a)
       /\ v.graph = g /\ v.main = a /\ s \in Trees /\ Len(h) = Len(g) + 1 /\ n = Len(g) + 1 /\ n \in 1..Len(h)
       /\ h[Len(g) + 1].parents = <<a, b>> /\ Tree(h, Len(g) + 1) = s /\ s.HANDOVER.cand = b
  <2>1. s.HANDOVER.cand = b
    BY <1>3, <1>12 DEF ValidInv, CompletionCommit
  <2>2. n \in 1..Len(h)
    <3>1. Len(commits) \in Nat
      BY <1>2, GraphFacts
    <3>2. QED
      BY <1>8, <1>12, <3>1
  <2>3. QED
    BY <1>2, <1>4, <1>7, <1>8, <1>9, <1>11, <1>12, <2>1, <2>2
<1>14. PICK w : w = unchecked'
  OBVIOUS
<1>15. SoundAt(h, w, n)
  <2>1. CASE op.validate
    <3>1. CheckTask(v, s)
      BY <1>11, <1>12, <2>1
    <3>2. PublishedAt(h, Len(g) + 1)
      BY <1>11, <1>13, <3>1, MergeCarries
    <3>3. PublishedAt(h, n)
      BY <1>13, <3>2
    <3>4. QED
      BY <3>3, PublishedIsSound
  <2>2. CASE ~op.validate
    <3>1. n \in w
      BY <1>12, <1>14, <2>2 DEF CompletionCommit, MarkUnchecked, NextId
    <3>2. n \in Ancestors(h, n)
      BY <1>13, GraphFacts
    <3>3. BoundAt(h, n)
      <4>1. PICK q : q = <<a, b>>
        OBVIOUS
      <4>2. (q = <<a>> \/ q = <<a, b>>) /\ q # <<a>>
        <5>1. Len(<<a>>) = 1 /\ Len(<<a, b>>) = 2
          OBVIOUS
        <5>2. QED
          BY <4>1, <5>1
      <4>3. h[Len(g) + 1].parents = q /\ b \in 1..Len(g) /\ b \notin Ancestors(g, a) /\ Tree(h, n).HANDOVER.cand = b
        BY <1>13, <4>1
      <4>4. QED
        BY <1>13, <4>2, <4>3, OneMergeIsBound
    <3>4. QED
      BY <3>1, <3>2, <3>3 DEF SoundAt
  <2>3. QED
    BY <2>1, <2>2
<1>16. unchecked \subseteq w /\ w \subseteq unchecked \cup {n} /\ op'.kind # "merging"
  <2>1. op \in GateOps
    BY <1>1 DEF Merging
  <2>2. QED
    BY <1>12, <1>14, <2>1 DEF CompletionCommit, MarkUnchecked, NextId, GateOps, Idle
<1>17. SoundAt(commits', unchecked', remote')
  BY <1>6, <1>7, <1>8, <1>14, <1>16, RemoteStaysSound
<1>18. unchecked' \subseteq 1..Len(commits')
  <2>1. unchecked \subseteq 1..Len(g) /\ Len(g) \in Nat
    BY <1>2, <1>12, GraphFacts DEF ValidInv
  <2>2. QED
    BY <1>12, <1>13, <1>14, <1>16, <2>1
<1>19. QED
  BY <1>6, <1>12, <1>14, <1>15, <1>16, <1>17, <1>18 DEF ValidInv

\* What is merged at the remote is new to it and brings no documents.
LEMMA MergeRequestIsValid ==
    ASSUME LifecycleInv, ValidInv, LifecycleInv', MergeRequest
    PROVE  ValidInv'
<1>1. /\ GraphOk(commits) /\ remote \in 1..Len(commits) /\ request \in 0..Len(commits)
      /\ Tree(commits, remote) \in Trees
  BY Parts
<1>2. UNCHANGED <<main, op, work, unchecked>>
  BY DEF MergeRequest
<1>3. CASE UNCHANGED <<commits, remote, ci>>
  <2>1. GraphOk(commits') /\ Extends(commits, commits')
    BY <1>3, GraphStays
  <2>2. QED
    BY <1>2, <1>3, <2>1, ValidStays DEF ValidInv
<1>4. CASE ~UNCHANGED <<commits, remote, ci>>
  <2>1. request \in 1..Len(commits) /\ request \notin Ancestors(commits, remote)
    BY <1>1, <1>4 DEF MergeRequest, NoCommit
  <2>2. PICK new : new = Introduced(commits, MergeBase(commits, remote, request), request)
    OBVIOUS
  <2>3. PICK s : s = Tree(commits, remote)
    OBVIOUS
  <2>4. PICK t : t = [s EXCEPT !.product = @ \cup new]
    OBVIOUS
  <2>5. PICK p : p = <<remote, request>>
    OBVIOUS
  <2>6. commits' = Append(commits, Child(commits, p, t)) /\ remote' = Len(commits) + 1
    BY <1>4, <2>2, <2>3, <2>4, <2>5 DEF MergeRequest, NextId
  <2>7. Alike(s, t)
    BY <1>1, <2>3, <2>4 DEF Alike, Trees, Documents
  <2>8. QED
    BY <1>2, <2>1, <2>3, <2>5, <2>6, <2>7, RemoteIsValid
<1>5. QED
  BY <1>3, <1>4

\* Evidence that others push replaces none that the rules ask for.
LEMMA ForeignPushIsValid ==
    ASSUME LifecycleInv, ValidInv, LifecycleInv', NEW file \in {"product", "REVIEW_RESULT"}, ForeignPush(file)
    PROVE  ValidInv'
<1>1. remote \in 1..Len(commits) /\ Tree(commits, remote) \in Trees
  BY Parts
<1>2. PICK s : s = Tree(commits, remote)
  OBVIOUS
<1>3. PICK t : t = IF file = "product" THEN [s EXCEPT !.product = @ \cup {"foreign"}] ELSE [s EXCEPT ![file] = "foreign"]
  OBVIOUS
<1>4. PICK p : p = <<remote>>
  OBVIOUS
<1>5. /\ commits' = Append(commits, Child(commits, p, t)) /\ remote' = Len(commits) + 1
      /\ file # "product" => s[file] = "pending"
      /\ UNCHANGED <<main, op, work, unchecked>>
  BY <1>2, <1>3, <1>4 DEF ForeignPush, NextId
<1>6. Alike(s, t)
  <2>1. CASE file = "product"
    BY <1>1, <1>2, <1>3, <2>1 DEF Alike, Trees, Documents
  <2>2. CASE file = "REVIEW_RESULT"
    BY <1>1, <1>2, <1>3, <1>5, <2>2 DEF Alike, Trees, Documents
  <2>3. QED
    BY <2>1, <2>2
<1>7. QED
  BY <1>1, <1>2, <1>4, <1>5, <1>6, RemoteIsValid

LEMMA NextIsValid == LifecycleInv /\ ValidInv /\ LifecycleInv' /\ [Next]_vars => ValidInv'
<1> SUFFICES ASSUME LifecycleInv, ValidInv, LifecycleInv', [Next]_vars PROVE ValidInv'
  OBVIOUS
<1>1. CASE Agents
  BY <1>1, QuietIsValid
<1>2. CASE Scripts
  BY <1>2, QuietIsValid, DocumentsAreValid DEF Scripts
<1>3. CASE Continuations
  BY <1>3, QuietIsValid, PushFailedIsValid, CompletionIsValid DEF Continuations
<1>4. CASE Elsewhere
  BY <1>4, MergeRequestIsValid, ForeignPushIsValid DEF Elsewhere
<1>5. CASE UNCHANGED vars
  BY <1>5, QuietIsValid
<1>6. QED
  BY <1>1, <1>2, <1>3, <1>4, <1>5 DEF Next

\* What the remote holds passes the repository's own check of the Task, made in a
\* clone without the Task's branch: what was checked before a rebase, or before a
\* merge at the remote, still holds of the head that was pushed in the end, unless
\* a completion that was committed with --validate false is part of its history.
THEOREM PublishedValidHolds == Spec => []PublishedValid
<1>1. ValidInv => PublishedValid
  BY DEF ValidInv, SoundAt, PublishedValid, Published, PublishedAt, PublishedView
<1>2. Spec => []ValidInv
  BY InitLifecycle, InitValid, NextLifecycle, NextIsValid, PTL DEF Spec
<1>3. QED
  BY <1>1, <1>2, PTL

-----------------------------------------------------------------------------
(* What done means.                                                         *)

\* A commit on top of one other, and what it changes of it.
StepFrom(g, p, c) == g[c].parents = <<p>> /\ Ancestors(g, c) = {c} \cup Ancestors(g, p)
ProductCommit(g, c) ==
    c \in DOMAIN g /\ \E p \in DOMAIN g : StepFrom(g, p, c) /\ ChangedFiles(Tree(g, p), Tree(g, c)) = {"product"}
DocumentCommit(g, c) ==
    c \in DOMAIN g /\ \E p \in DOMAIN g : StepFrom(g, p, c) /\ ChangedFiles(Tree(g, p), Tree(g, c)) \cap Documents # {}

\* A tree that records a merge has what the merge brought.
Records(g, t) ==
    t.backlog.merged # NoCommit =>
      /\ t.backlog.merged \in DOMAIN g /\ IsMerge(g, t.backlog.merged)
      /\ Tree(g, g[t.backlog.merged].parents[2]).product \subseteq t.product

\* A merge brings a product commit, and nothing that is on neither side.
ShipsAt(g, c) ==
    /\ g[c].parents = <<>> => c = 1
    /\ IsMerge(g, c) =>
         /\ ProductCommit(g, g[c].parents[2])
         /\ Tree(g, c).product \subseteq Tree(g, g[c].parents[1]).product \cup Tree(g, g[c].parents[2]).product
    /\ Records(g, Tree(g, c))
ShipGraph(g) == \A c \in 1..Len(g) : ShipsAt(g, c)

\* The Task branch ends in a commit that both heads have, in one of the product
\* or in one of documents, which no completion takes.
BranchIs(g, b, h, k) ==
    b # NoCommit => b \in Ancestors(g, h) \cap Ancestors(g, k) \/ ProductCommit(g, b) \/ DocumentCommit(g, b)

ShipEvidence ==
    /\ Tree(commits, op.before).product \subseteq Tree(commits, main).product
    /\ op.planning => worktree = "clean" /\ BranchIs(commits, op.branch, op.before, remote)

ShipGate ==
    /\ Records(commits, op.start) /\ Tree(commits, op.before).product \subseteq op.start.product
    /\ BranchIs(commits, branch, op.before, remote)

ShipMerging ==
    /\ ProductCommit(commits, op.cand)
    /\ work.product \subseteq Tree(commits, main).product \cup Tree(commits, op.cand).product

ShipOp ==
    /\ op.kind = "evidence" => ShipEvidence
    /\ op.kind \in {"merging", "publishing"} => ShipGate
    /\ op.kind = "merging" => ShipMerging

ShipInv ==
    /\ ShipGraph(commits)
    /\ Records(commits, work) /\ Tree(commits, main).product \subseteq work.product
    /\ BranchIs(commits, branch, main, remote)
    /\ request # NoCommit => ProductCommit(commits, request)
    /\ worktree \in DevChanges => worktree \notin Tree(commits, branch).product
    /\ ShipOp

LEMMA MergeParents ==
    ASSUME NEW g, GraphOk(g), NEW c \in 1..Len(g), IsMerge(g, c)
    PROVE  \A i \in {1, 2} : /\ g[c].parents[i] \in 1..Len(g) /\ g[c].parents[i] < c
                             /\ g[c].parents[i] \in Ancestors(g, c)
<1>1. {1, 2} \subseteq DOMAIN g[c].parents
  <2>1. g[c] \in Commit
    BY GraphFacts, ElementOfSeq
  <2>2. PICK p : p = g[c].parents
    OBVIOUS
  <2>3. p \in Seq(Nat) /\ Len(p) = 2
    BY <2>1, <2>2 DEF Commit, IsMerge
  <2>4. DOMAIN p = 1..2
    BY <2>3, LenProperties
  <2>5. QED
    BY <2>2, <2>4
<1>2. QED
  BY <1>1, ParentsFacts

LEMMA StepKeeps ==
    ASSUME NEW g, GraphOk(g), NEW h, GraphOk(h), Extends(g, h), NEW c \in 1..Len(g), NEW p \in 1..Len(g),
           StepFrom(g, p, c)
    PROVE  StepFrom(h, p, c)
<1>1. h[c] = g[c] /\ Ancestors(h, c) = Ancestors(g, c) /\ Ancestors(h, p) = Ancestors(g, p)
  BY ExtendsKeeps DEF Extends
<1>2. QED
  BY <1>1 DEF StepFrom

\* What a commit is, it remains.
LEMMA CommitsRemain ==
    ASSUME NEW g, GraphOk(g), NEW h, GraphOk(h), Extends(g, h)
    PROVE  /\ \A c : ProductCommit(g, c) => ProductCommit(h, c)
           /\ \A c : DocumentCommit(g, c) => DocumentCommit(h, c)
           /\ \A t : Records(g, t) => Records(h, t)
<1>1. DOMAIN g = 1..Len(g) /\ DOMAIN h = 1..Len(h) /\ 1..Len(g) \subseteq 1..Len(h)
  BY GraphFacts DEF Extends
<1>2. \A c \in 1..Len(g) : h[c] = g[c] /\ Tree(h, c) = Tree(g, c)
  BY ExtendsKeeps DEF Extends
<1>3. ASSUME NEW c, ProductCommit(g, c) PROVE ProductCommit(h, c)
  <2>1. PICK p \in 1..Len(g) : StepFrom(g, p, c) /\ ChangedFiles(Tree(g, p), Tree(g, c)) = {"product"}
    BY <1>1, <1>3 DEF ProductCommit
  <2>2. c \in 1..Len(g)
    BY <1>1, <1>3 DEF ProductCommit
  <2>3. StepFrom(h, p, c)
    BY <2>1, <2>2, StepKeeps
  <2>4. Tree(h, p) = Tree(g, p) /\ Tree(h, c) = Tree(g, c)
    BY <1>2, <2>2
  <2>5. QED
    BY <1>1, <2>1, <2>2, <2>3, <2>4 DEF ProductCommit
<1>4. ASSUME NEW c, DocumentCommit(g, c) PROVE DocumentCommit(h, c)
  <2>1. PICK p \in 1..Len(g) : StepFrom(g, p, c) /\ ChangedFiles(Tree(g, p), Tree(g, c)) \cap Documents # {}
    BY <1>1, <1>4 DEF DocumentCommit
  <2>2. c \in 1..Len(g)
    BY <1>1, <1>4 DEF DocumentCommit
  <2>3. StepFrom(h, p, c)
    BY <2>1, <2>2, StepKeeps
  <2>4. Tree(h, p) = Tree(g, p) /\ Tree(h, c) = Tree(g, c)
    BY <1>2, <2>2
  <2>5. QED
    BY <1>1, <2>1, <2>2, <2>3, <2>4 DEF DocumentCommit
<1>5. ASSUME NEW t, Records(g, t), t.backlog.merged # NoCommit PROVE Records(h, t)
  <2>1. PICK m : m = t.backlog.merged
    OBVIOUS
  <2>2. m \in 1..Len(g) /\ IsMerge(g, m) /\ Tree(g, g[m].parents[2]).product \subseteq t.product
    BY <1>1, <1>5, <2>1 DEF Records
  <2>3. PICK q : q = g[m].parents[2]
    OBVIOUS
  <2>4. q \in 1..Len(g)
    BY <2>2, <2>3, MergeParents
  <2>5. Tree(h, q) = Tree(g, q) /\ h[m] = g[m] /\ m \in 1..Len(h)
    BY <1>1, <1>2, <2>2, <2>4
  <2>6. IsMerge(h, m)
    BY <2>2, <2>5 DEF IsMerge
  <2>7. QED
    BY <1>1, <2>1, <2>2, <2>3, <2>5, <2>6 DEF Records
<1>6. QED
  BY <1>3, <1>4, <1>5 DEF Records

\* One commit more.
LEMMA ShipGrows ==
    ASSUME NEW g, GraphOk(g), ShipGraph(g), NEW h, GraphOk(h), Extends(g, h), Len(h) = Len(g) + 1,
           ShipsAt(h, Len(g) + 1)
    PROVE  ShipGraph(h)
<1>1. Len(g) \in Nat
  BY GraphFacts
<1>2. ASSUME NEW c \in 1..Len(g) PROVE ShipsAt(h, c)
  <2>1. h[c] = g[c] /\ Tree(h, c) = Tree(g, c) /\ ShipsAt(g, c)
    BY ExtendsKeeps DEF Extends, ShipGraph
  <2>2. Records(h, Tree(h, c))
    BY <2>1, CommitsRemain DEF ShipsAt
  <2>3. ASSUME IsMerge(h, c)
        PROVE  /\ ProductCommit(h, h[c].parents[2])
               /\ Tree(h, c).product \subseteq Tree(h, h[c].parents[1]).product \cup Tree(h, h[c].parents[2]).product
    <3>1. IsMerge(g, c)
      BY <2>1, <2>3 DEF IsMerge
    <3>2. PICK p, q : p = g[c].parents[1] /\ q = g[c].parents[2]
      OBVIOUS
    <3>3. p \in 1..Len(g) /\ q \in 1..Len(g)
      BY <3>1, <3>2, MergeParents
    <3>4. Tree(h, p) = Tree(g, p) /\ Tree(h, q) = Tree(g, q)
      BY <3>3, ExtendsKeeps
    <3>5. ProductCommit(g, q) /\ Tree(g, c).product \subseteq Tree(g, p).product \cup Tree(g, q).product
      BY <2>1, <3>1, <3>2 DEF ShipsAt
    <3>6. ProductCommit(h, q)
      BY <3>5, CommitsRemain
    <3>7. QED
      BY <2>1, <3>2, <3>4, <3>5, <3>6
  <2>4. QED
    BY <2>1, <2>2, <2>3 DEF ShipsAt
<1>3. \A c \in 1..Len(h) : c \in 1..Len(g) \/ c = Len(g) + 1
  BY <1>1
<1>4. QED
  BY <1>2, <1>3 DEF ShipGraph

\* A commit on one head, of a tree that has what it records.
LEMMA PlainShips ==
    ASSUME NEW g, GraphOk(g), ShipGraph(g), NEW h, GraphOk(h), Extends(g, h), Len(h) = Len(g) + 1,
           NEW a, h[Len(g) + 1].parents = <<a>>, Records(g, Tree(h, Len(g) + 1))
    PROVE  ShipGraph(h)
<1>1. PICK p : p = h[Len(g) + 1].parents
  OBVIOUS
<1>2. p = <<a>>
  BY <1>1
<1>3. Len(p) = 1 /\ p # <<>>
  BY <1>2
<1>4. ~IsMerge(h, Len(g) + 1) /\ h[Len(g) + 1].parents # <<>>
  BY <1>1, <1>3 DEF IsMerge
<1>5. Records(h, Tree(h, Len(g) + 1))
  BY CommitsRemain
<1>6. ShipsAt(h, Len(g) + 1)
  BY <1>4, <1>5 DEF ShipsAt
<1>7. QED
  BY <1>6, ShipGrows

\* A merge of a product commit.
LEMMA MergeShips ==
    ASSUME NEW g, GraphOk(g), ShipGraph(g), NEW h, GraphOk(h), Extends(g, h), Len(h) = Len(g) + 1,
           NEW a \in 1..Len(g), NEW b \in 1..Len(g), h[Len(g) + 1].parents = <<a, b>>,
           ProductCommit(g, b), Records(g, Tree(h, Len(g) + 1)),
           Tree(h, Len(g) + 1).product \subseteq Tree(g, a).product \cup Tree(g, b).product
    PROVE  ShipGraph(h)
<1>1. PICK p : p = h[Len(g) + 1].parents
  OBVIOUS
<1>2. p = <<a, b>>
  BY <1>1
<1>3. p # <<>> /\ p[1] = a /\ p[2] = b
  BY <1>2
<1>4. Records(h, Tree(h, Len(g) + 1)) /\ ProductCommit(h, b)
  BY CommitsRemain
<1>5. Tree(h, a) = Tree(g, a) /\ Tree(h, b) = Tree(g, b)
  BY ExtendsKeeps
<1>6. ShipsAt(h, Len(g) + 1)
  BY <1>1, <1>3, <1>4, <1>5 DEF ShipsAt
<1>7. QED
  BY <1>6, ShipGrows

\* More of the product is as good.
LEMMA RecordsMore ==
    ASSUME NEW g, NEW s, NEW t, Records(g, s), t.backlog.merged = s.backlog.merged, s.product \subseteq t.product
    PROVE  Records(g, t)
  BY DEF Records

\* Both heads have moved on, to commits that descend from one of the old.
LEMMA BranchRemains ==
    ASSUME NEW g, GraphOk(g), NEW f, GraphOk(f), Extends(g, f), NEW b,
           NEW h \in 1..Len(g), NEW k \in 1..Len(g), BranchIs(g, b, h, k),
           NEW i \in 1..Len(f), NEW j \in 1..Len(f),
           h \in Ancestors(f, i) \/ k \in Ancestors(f, i), h \in Ancestors(f, j) \/ k \in Ancestors(f, j)
    PROVE  BranchIs(f, b, i, j)
<1>1. CASE ProductCommit(g, b) \/ DocumentCommit(g, b)
  BY <1>1, CommitsRemain DEF BranchIs
<1>2. CASE b \in Ancestors(g, h) \cap Ancestors(g, k)
  <2>1. Ancestors(f, h) = Ancestors(g, h) /\ Ancestors(f, k) = Ancestors(g, k)
    BY ExtendsKeeps
  <2>2. \A x \in {i, j} : \A a \in Ancestors(f, x) : Ancestors(f, a) \subseteq Ancestors(f, x)
    BY GraphFacts
  <2>3. QED
    BY <1>2, <2>1, <2>2 DEF BranchIs
<1>3. QED
  BY <1>1, <1>2 DEF BranchIs

\* A commit that is applied again carries its product change over, and what it
\* records comes with the product that it had.
LEMMA PickShips ==
    ASSUME NEW g, GraphOk(g), NEW onto, NEW c \in 1..Len(g), NEW d, RebaseOk(d, g, onto), ShipGraph(d.graph),
           g[c].parents # <<>>,
           d.clean => Tree(g, g[c].parents[1]).product \subseteq Tree(d.graph, d.head).product
    PROVE  /\ ShipGraph(Pick(d, c).graph)
           /\ Pick(d, c).clean =>
                /\ d.clean
                /\ Tree(g, c).product \cup Tree(d.graph, d.head).product
                     \subseteq Tree(Pick(d, c).graph, Pick(d, c).head).product
<1> DEFINE old == Tree(d.graph, d.graph[c].parents[1])
           new == Tree(d.graph, c)
           here == Tree(d.graph, d.head)
           touched == ChangedFiles(old, new)
           result == [f \in Files |->
                        IF f = "product" THEN here.product \cup (new.product \ old.product)
                        ELSE IF f \in touched THEN new[f] ELSE here[f]]
           conflict == ~d.clean \/ (\E f \in touched \cap Documents : here[f] \notin {old[f], new[f]})
           h == Append(d.graph, Child(d.graph, <<d.head>>, result))
<1>1. Pick(d, c) = IF conflict THEN [d EXCEPT !.clean = FALSE]
                   ELSE IF d.graph[c].parents = <<d.head>> THEN [d EXCEPT !.head = c]
                   ELSE IF result = here THEN d
                   ELSE [clean |-> TRUE, head |-> Len(d.graph) + 1, graph |-> h]
  BY DEF Pick
<1>2. /\ d \in [clean: BOOLEAN, head: Nat, graph: Seq(Commit)] /\ GraphOk(d.graph) /\ Extends(g, d.graph)
      /\ d.head \in 1..Len(d.graph) /\ c \in 1..Len(d.graph)
  <2>1. Len(g) \in Nat /\ Len(d.graph) \in Nat
    BY GraphFacts DEF RebaseOk
  <2>2. QED
    BY <2>1 DEF RebaseOk, Extends
<1>3. new \in Trees /\ here \in Trees /\ Records(d.graph, new) /\ Records(d.graph, here)
  BY <1>2, GraphFacts DEF ShipGraph, ShipsAt
<1>4. new = Tree(g, c) /\ old = Tree(g, g[c].parents[1])
  <2>1. PICK p : p = g[c].parents[1]
    OBVIOUS
  <2>2. p \in 1..Len(g)
    BY <2>1, FirstParentBefore
  <2>3. Tree(d.graph, p) = Tree(g, p) /\ Tree(d.graph, c) = Tree(g, c)
    BY <1>2, <2>2, ExtendsKeeps
  <2>4. d.graph[c] = g[c]
    BY <1>2 DEF Extends
  <2>5. QED
    BY <2>1, <2>3, <2>4
<1>5. /\ result \in Trees /\ here.product \subseteq result.product
      /\ d.clean => new.product \subseteq result.product
      /\ result.backlog \in {new.backlog, here.backlog}
  <2>1. PICK t, u, o, w : t = new /\ u = here /\ o = old /\ w = touched
    OBVIOUS
  <2>2. t \in Trees /\ u \in Trees /\ (d.clean => o.product \subseteq u.product)
    BY <1>3, <1>4, <2>1
  <2> DEFINE r == [f \in Files |-> IF f = "product" THEN u.product \cup (t.product \ o.product)
                                   ELSE IF f \in w THEN t[f] ELSE u[f]]
  <2>3. r["product"] = u.product \cup (t.product \ o.product)
    BY DEF Files
  <2>4. \A f \in Documents : r[f] = t[f] \/ r[f] = u[f]
    BY DEF Files, Documents
  <2>5. r \in Trees
    BY <2>2, <2>3, <2>4 DEF Trees, Files, Documents
  <2>6. u.product \subseteq r.product /\ (d.clean => t.product \subseteq r.product)
    BY <2>2, <2>3
  <2>7. r["backlog"] = t["backlog"] \/ r["backlog"] = u["backlog"]
    BY <2>4 DEF Documents
  <2>8. r = result
    BY <2>1
  <2>9. QED
    BY <2>1, <2>5, <2>6, <2>7, <2>8
<1> HIDE DEF result
<1>6. CASE conflict
  <2>1. Pick(d, c) = [d EXCEPT !.clean = FALSE]
    BY <1>1, <1>6
  <2>2. Pick(d, c).graph = d.graph /\ Pick(d, c).clean = FALSE
    BY <1>2, <2>1
  <2>3. QED
    BY <2>2
<1>7. CASE ~conflict /\ d.graph[c].parents # <<d.head>> /\ result = here
  <2>1. Pick(d, c) = d
    BY <1>1, <1>7
  <2>2. d.clean
    BY <1>7
  <2>3. QED
    BY <1>4, <1>5, <1>7, <2>1, <2>2
<1>8. CASE ~conflict /\ d.graph[c].parents # <<d.head>> /\ result # here
  <2>1. Pick(d, c) = [clean |-> TRUE, head |-> Len(d.graph) + 1, graph |-> h]
    BY <1>1, <1>8
  <2>2. Pick(d, c).graph = h /\ Pick(d, c).head = Len(d.graph) + 1
    BY <2>1
  <2>3. d.clean
    BY <1>8
  <2>4. PICK e, k : e = d.head /\ k = d.graph
    OBVIOUS
  <2>5. h = Append(k, Child(k, <<e>>, result))
    BY <2>4
  <2>6. /\ GraphOk(h) /\ Extends(k, h) /\ Len(h) = Len(k) + 1 /\ Tree(h, Len(k) + 1) = result
        /\ h[Len(k) + 1] = Child(k, <<e>>, result)
    <3>1. GraphOk(k) /\ e \in 1..Len(k) /\ Tree(k, e).product \cup Tree(k, e).product \subseteq result.product
      BY <1>2, <1>5, <2>4
    <3> HIDE DEF h
    <3>2. QED
      BY <1>5, <2>5, <3>1, ChildOf
  <2>7. h[Len(k) + 1].parents = <<e>>
    BY <2>6 DEF Child
  <2>8. Records(k, result)
    BY <1>3, <1>5, <2>3, <2>4, RecordsMore
  <2> HIDE DEF h
  <2>9. ShipGraph(h)
    BY <1>2, <2>4, <2>6, <2>7, <2>8, PlainShips
  <2>10. QED
    BY <1>4, <1>5, <2>2, <2>3, <2>4, <2>6, <2>9
<1>9. CASE ~conflict /\ d.graph[c].parents = <<d.head>>
  <2>1. PICK e : e = [d EXCEPT !.head = c]
    OBVIOUS
  <2>2. Pick(d, c) = e /\ e.graph = d.graph /\ e.head = c /\ d.clean
    BY <1>1, <1>2, <1>9, <2>1
  <2>3. Descends(d.graph, c)
    BY <1>2 DEF GraphOk
  <2>4. d.head \in Ancestors(d.graph, c)
    BY <1>9, <2>3, OnlyParent DEF Descends
  <2>5. here.product \subseteq new.product
    BY <2>3, <2>4 DEF Descends
  <2>6. QED
    BY <1>4, <2>2, <2>5
<1>10. QED
  BY <1>6, <1>7, <1>8, <1>9

\* As far as n, a rebase has carried over the product of every commit that its
\* head descends from: those it stands on have it, those it applies again bring
\* it, and a merge has no product but that of its two sides.
CarriedOver(g, head, d, n) ==
    /\ ShipGraph(d.graph)
    /\ d.clean => \A c \in Ancestors(g, head) : c <= n => Tree(g, c).product \subseteq Tree(d.graph, d.head).product

LEMMA RecursionShips ==
    ASSUME NEW g, GraphOk(g), ShipGraph(g), NEW head \in 1..Len(g), NEW onto \in 1..Len(g),
           NEW mine, mine = {c \in Since(g, onto, head) : ~IsMerge(g, c)},
           NEW d, Recursion(g, mine, onto, Len(g), d), NEW n \in 0..Len(g)
    PROVE  CarriedOver(g, head, d[n], n)
<1>1. Len(g) \in Nat /\ mine \in SUBSET (1..Len(g)) /\ Ancestors(g, head) \subseteq 1..Len(g)
  BY GraphFacts DEF Since
<1>2. \A k \in 0..Len(g) : d[k] = Stepped(g, mine, onto, d, k)
  BY DEF Recursion
<1>3. \A k \in 0..Len(g) : RebaseOk(d[k], g, onto)
  BY <1>1, RecursionKeeps
<1> DEFINE Bad == {k \in 0..Len(g) : ~CarriedOver(g, head, d[k], k)}
<1>4. SUFFICES ASSUME Bad # {} PROVE FALSE
  OBVIOUS
<1>5. PICK m \in Bad : \A k \in Bad : m <= k
  <2>1. Bad \in SUBSET Nat
    BY <1>1
  <2> HIDE DEF Bad
  <2>2. QED
    BY <1>4, <2>1, Least
<1>6. CASE m = 0
  <2>1. d[0] = [clean |-> TRUE, head |-> onto, graph |-> g]
    <3>1. 0 \in 0..Len(g) /\ Stepped(g, mine, onto, d, 0) = [clean |-> TRUE, head |-> onto, graph |-> g]
      BY <1>1 DEF Stepped
    <3>2. QED
      BY <1>2, <3>1
  <2>2. \A c \in Ancestors(g, head) : ~(c <= 0)
    BY <1>1
  <2>3. d[0].graph = g
    BY <2>1
  <2>4. QED
    BY <1>5, <1>6, <2>2, <2>3 DEF CarriedOver
<1>7. CASE m # 0
  <2>1. m - 1 \in 0..Len(g) /\ ~(m <= m - 1) /\ m \in 1..Len(g) /\ m \in Nat
    BY <1>1, <1>5, <1>7
  <2>2. PICK e, f : e = d[m-1] /\ f = d[m]
    OBVIOUS
  <2>3. CarriedOver(g, head, e, m - 1)
    BY <1>5, <2>1, <2>2
  <2>4. RebaseOk(e, g, onto) /\ RebaseOk(f, g, onto)
    BY <1>3, <2>1, <2>2
  <2>5. f = IF m \in mine THEN Pick(e, m) ELSE e
    BY <1>2, <1>5, <1>7, <2>2 DEF Stepped
  <2>6. ASSUME NEW c \in Ancestors(g, onto) PROVE Tree(g, c).product \subseteq Tree(f.graph, f.head).product
    <3>1. Tree(g, c).product \subseteq Tree(g, onto).product
      BY GraphFacts
    <3>2. Tree(f.graph, onto) = Tree(g, onto)
      BY <2>4, ExtendsKeeps DEF RebaseOk
    <3>3. Tree(f.graph, onto).product \subseteq Tree(f.graph, f.head).product
      BY <2>4, GraphFacts DEF RebaseOk
    <3>4. QED
      BY <3>1, <3>2, <3>3
  <2>7. \A c \in Ancestors(g, head) : c <= m => c = m \/ c <= m - 1
    BY <1>1, <2>1
  <2>8. CASE m \in mine
    <3>1. m \in Ancestors(g, head) /\ m \notin Ancestors(g, onto) /\ f = Pick(e, m)
      BY <2>5, <2>8 DEF Since
    <3>2. g[m].parents # <<>>
      <4>1. 1 \in Ancestors(g, onto)
        BY GraphFacts
      <4>2. QED
        BY <2>1, <3>1, <4>1 DEF ShipGraph, ShipsAt
    <3>3. PICK p : p = g[m].parents[1]
      OBVIOUS
    <3>4. p < m /\ p \in Ancestors(g, m) /\ p \in 1..Len(g)
      BY <2>1, <3>2, <3>3, FirstParentBefore
    <3>5. p \in Ancestors(g, head) /\ p <= m - 1
      BY <1>1, <2>1, <3>1, <3>4, GraphFacts
    <3>6. e.clean => Tree(g, p).product \subseteq Tree(e.graph, e.head).product
      BY <2>3, <3>5 DEF CarriedOver
    <3>7. /\ ShipGraph(f.graph)
          /\ f.clean => /\ e.clean
                        /\ Tree(g, m).product \cup Tree(e.graph, e.head).product \subseteq Tree(f.graph, f.head).product
      BY <2>1, <2>3, <2>4, <3>1, <3>2, <3>3, <3>6, PickShips DEF CarriedOver
    <3>8. CarriedOver(g, head, f, m)
      BY <2>3, <2>7, <3>7 DEF CarriedOver
    <3>9. QED
      BY <1>5, <2>2, <3>8
  <2>9. CASE m \notin mine
    <3>1. f = e
      BY <2>5, <2>9
    <3>2. ASSUME m \in Ancestors(g, head), e.clean
          PROVE  Tree(g, m).product \subseteq Tree(f.graph, f.head).product
      <4>1. CASE m \in Ancestors(g, onto)
        BY <2>6, <4>1
      <4>2. CASE m \notin Ancestors(g, onto)
        <5>1. IsMerge(g, m)
          BY <2>9, <3>2, <4>2 DEF Since
        <5>2. PICK p, q : p = g[m].parents[1] /\ q = g[m].parents[2]
          OBVIOUS
        <5>3. \A x \in {p, q} : x < m /\ x \in Ancestors(g, m) /\ x \in 1..Len(g)
          BY <2>1, <5>1, <5>2, MergeParents
        <5>4. \A x \in {p, q} : x \in Ancestors(g, head) /\ x <= m - 1
          BY <1>1, <2>1, <3>2, <5>3, GraphFacts
        <5>5. \A x \in {p, q} : Tree(g, x).product \subseteq Tree(e.graph, e.head).product
          BY <2>3, <3>2, <5>4 DEF CarriedOver
        <5>6. Tree(g, m).product \subseteq Tree(g, p).product \cup Tree(g, q).product
          BY <2>1, <5>1, <5>2 DEF ShipGraph, ShipsAt
        <5>7. QED
          BY <3>1, <5>5, <5>6
      <4>3. QED
        BY <4>1, <4>2
    <3>3. CarriedOver(g, head, f, m)
      BY <2>3, <2>7, <3>1, <3>2 DEF CarriedOver
    <3>4. QED
      BY <1>5, <2>2, <3>3
  <2>10. QED
    BY <2>8, <2>9
<1>8. QED
  BY <1>6, <1>7

\* A rebase loses no product: not even that of a merge it flattens.
LEMMA RebaseShips ==
    ASSUME NEW g, GraphOk(g), ShipGraph(g), NEW head \in 1..Len(g), NEW onto \in 1..Len(g),
           NEW r, r = Rebase(g, head, onto)
    PROVE  ShipGraph(r.graph) /\ (r.clean => Tree(g, head).product \subseteq Tree(r.graph, r.head).product)
<1> DEFINE mine == {c \in Since(g, onto, head) : ~IsMerge(g, c)}
<1>1. mine \in SUBSET (1..Len(g)) /\ Len(g) \in Nat
  BY GraphFacts DEF Since
<1>2. PICK w : w = mine
  OBVIOUS
<1>3. w \in SUBSET (1..Len(g)) /\ w = {c \in Since(g, onto, head) : ~IsMerge(g, c)}
  BY <1>1, <1>2
<1>4. Recursion(g, w, onto, Len(g), CHOOSE d : Recursion(g, w, onto, Len(g), d))
  BY <1>1, <1>3, RecursionExists
<1>5. Rebase(g, head, onto) = (CHOOSE d : Recursion(g, w, onto, Len(g), d))[Len(g)]
  BY <1>2, Zenon DEF Rebase, Recursion, Stepped
<1>6. PICK e : e = CHOOSE d : Recursion(g, w, onto, Len(g), d)
  OBVIOUS
<1>7. Recursion(g, w, onto, Len(g), e) /\ r = e[Len(g)]
  BY <1>4, <1>5, <1>6
<1>8. Len(g) \in 0..Len(g)
  BY <1>1
<1>9. CarriedOver(g, head, e[Len(g)], Len(g))
  BY <1>3, <1>7, <1>8, RecursionShips
<1>10. head \in Ancestors(g, head) /\ head <= Len(g)
  BY <1>1, GraphFacts
<1>11. QED
  BY <1>7, <1>9, <1>10 DEF CarriedOver

\* What a completion or a pull request may take: of the commits that the branch
\* can end in, the candidate is one of the product.
LEMMA OneCandidateShips ==
    ASSUME NEW g, GraphOk(g), NEW a \in 1..Len(g), NEW k, NEW b \in Nat, NEW c,
           OneCandidate(g, a, b, c), BranchIs(g, b, a, k)
    PROVE  ProductCommit(g, c)
<1>1. PICK base : base = MergeBase(g, a, c)
  OBVIOUS
<1>2. /\ c = b /\ c # NoCommit /\ Cardinality(Since(g, base, c)) = 1
      /\ ChangedFiles(Tree(g, base), Tree(g, c)) \subseteq {"product"}
  BY <1>1 DEF OneCandidate
<1>3. c \notin Ancestors(g, a)
  BY <1>1, <1>2, MergeBaseOfAncestor
<1>4. ASSUME DocumentCommit(g, c) PROVE FALSE
  <2>1. DOMAIN g = 1..Len(g) /\ Len(g) \in Nat
    BY GraphFacts
  <2>2. PICK p \in 1..Len(g) : StepFrom(g, p, c) /\ ChangedFiles(Tree(g, p), Tree(g, c)) \cap Documents # {}
    BY <1>4, <2>1 DEF DocumentCommit
  <2>3. c \in 1..Len(g)
    BY <1>4, <2>1 DEF DocumentCommit
  <2>4. Ancestors(g, c) = {c} \cup Ancestors(g, p)
    BY <2>2 DEF StepFrom
  <2>5. p < c
    <3>1. PICK q : q = g[c].parents
      OBVIOUS
    <3>2. q = <<p>>
      BY <2>2, <3>1 DEF StepFrom
    <3>3. q # <<>> /\ q[1] = p
      BY <3>2
    <3>4. QED
      BY <2>3, <3>1, <3>3, FirstParentBefore
  <2>6. base \in Ancestors(g, a) \cap Ancestors(g, c)
    BY <1>1, <2>3, MergeBaseShared
  <2>7. base \in Ancestors(g, p)
    BY <1>3, <2>4, <2>6
  <2>8. base \in 1..Len(g) /\ Ancestors(g, base) \subseteq Ancestors(g, a) /\ Ancestors(g, base) \subseteq 1..base
        /\ base <= p /\ p \in Ancestors(g, p) /\ c \in Ancestors(g, c)
    <3>1. Ancestors(g, p) \subseteq 1..p /\ p \in Ancestors(g, p) /\ c \in Ancestors(g, c)
      BY <2>2, <2>3, GraphFacts
    <3>2. base \in 1..Len(g) /\ base <= p
      BY <2>1, <2>7, <3>1
    <3>3. Ancestors(g, base) \subseteq Ancestors(g, a) /\ Ancestors(g, base) \subseteq 1..base
      BY <2>6, <3>2, GraphFacts
    <3>4. QED
      BY <3>1, <3>2, <3>3
  <2>9. CASE p \in Ancestors(g, base)
    <3>1. p <= base
      BY <2>8, <2>9
    <3>2. p = base
      BY <2>8, <3>1
    <3>3. "product" \notin Documents
      BY DEF Documents
    <3>4. QED
      BY <1>2, <2>2, <3>2, <3>3
  <2>10. CASE p \notin Ancestors(g, base)
    <3>1. {p, c} \subseteq Since(g, base, c)
      BY <1>3, <2>4, <2>8, <2>10 DEF Since
    <3>2. IsFiniteSet(Since(g, base, c))
      <4>1. IsFiniteSet(1..Len(g))
        BY <2>1, FS_Interval
      <4>2. Since(g, base, c) \subseteq 1..Len(g)
        BY <2>1, <2>3, GraphFacts DEF Since
      <4>3. QED
        BY <4>1, <4>2, FS_Subset
    <3>3. PICK x : Since(g, base, c) = {x}
      BY <1>2, <3>2, FS_Singleton
    <3>4. p = x /\ c = x
      BY <3>1, <3>3
    <3>5. QED
      BY <2>5, <3>4
  <2>11. QED
    BY <2>9, <2>10
<1>5. QED
  BY <1>2, <1>3, <1>4 DEF BranchIs

-----------------------------------------------------------------------------
(* The steps.                                                               *)

\* Nothing has moved but the remote's head.
LEMMA RemoteShips ==
    ASSUME LifecycleInv, ShipInv, GraphOk(commits'), Extends(commits, commits'), ShipGraph(commits'),
           remote' \in 1..Len(commits'), remote \in Ancestors(commits', remote'),
           request' \in {request, NoCommit}, UNCHANGED <<main, work, branch, worktree, op>>
    PROVE  ShipInv'
<1>1. /\ GraphOk(commits) /\ DOMAIN commits = 1..Len(commits) /\ main \in 1..Len(commits) /\ remote \in 1..Len(commits)
      /\ branch \in 0..Len(commits)
  BY Parts
<1>2. PICK h, j : h = commits' /\ j = remote'
  OBVIOUS
<1>3. GraphOk(h) /\ Extends(commits, h) /\ j \in 1..Len(h) /\ remote \in Ancestors(h, j)
  BY <1>2
<1>4. /\ 1..Len(commits) \subseteq 1..Len(h)
      /\ \A c \in 1..Len(commits) : Tree(h, c) = Tree(commits, c) /\ c \in Ancestors(h, c)
  <2>1. 1..Len(commits) \subseteq 1..Len(h) /\ \A c \in 1..Len(commits) : Tree(h, c) = Tree(commits, c)
    BY <1>2, Grown
  <2>2. QED
    BY <1>3, <2>1, GraphFacts
<1>5. \A b, c : c \in 1..Len(commits) /\ BranchIs(commits, b, c, remote) => BranchIs(h, b, c, j)
  <2>1. ASSUME NEW b, NEW c \in 1..Len(commits), BranchIs(commits, b, c, remote) PROVE BranchIs(h, b, c, j)
    <3>1. c \in 1..Len(h) /\ c \in Ancestors(h, c)
      BY <1>4
    <3>2. QED
      BY <1>1, <1>3, <2>1, <3>1, BranchRemains
  <2>2. QED
    BY <2>1
<1>6. /\ Records(h, work) /\ BranchIs(h, branch, main, j)
      /\ request' # NoCommit => ProductCommit(h, request')
  BY <1>1, <1>3, <1>5, CommitsRemain DEF ShipInv
<1>7. worktree \in DevChanges => worktree \notin Tree(h, branch).product
  <2>1. worktree \in DevChanges => branch \in 1..Len(commits)
    BY <1>1 DEF LifecycleInv, HeadsInv, DevChanges, NoCommit
  <2>2. QED
    BY <1>4, <2>1 DEF ShipInv
<1>8. op.kind = "evidence" => ShipEvidence'
  <2>1. SUFFICES ASSUME op.kind = "evidence" PROVE ShipEvidence'
    OBVIOUS
  <2>2. op.before \in 1..Len(commits) /\ ShipEvidence
    BY <1>1, <2>1, OpIsOne DEF Evidence, Waiting, ShipInv, ShipOp
  <2>3. op.planning => BranchIs(h, op.branch, op.before, j)
    BY <1>5, <2>2 DEF ShipEvidence
  <2>4. QED
    BY <1>1, <1>2, <1>4, <2>2, <2>3 DEF ShipEvidence
<1>9. op.kind \in {"merging", "publishing"} => ShipGate'
  <2>1. SUFFICES ASSUME op.kind \in {"merging", "publishing"} PROVE ShipGate'
    OBVIOUS
  <2>2. op.before \in 1..Len(commits) /\ ShipGate
    BY <1>1, <2>1, OpIsOne DEF Merging, Publishing, Waiting, ShipInv, ShipOp
  <2>3. BranchIs(h, branch, op.before, j) /\ Records(h, op.start)
    BY <1>1, <1>3, <1>5, <2>2, CommitsRemain DEF ShipGate
  <2>4. QED
    BY <1>1, <1>2, <1>4, <2>2, <2>3 DEF ShipGate
<1>10. op.kind = "merging" => ShipMerging'
  <2>1. SUFFICES ASSUME op.kind = "merging" PROVE ShipMerging'
    OBVIOUS
  <2>2. op.cand \in 1..Len(commits) /\ ShipMerging
    BY <1>1, <2>1, OpIsOne DEF Merging, ShipInv, ShipOp
  <2>3. ProductCommit(h, op.cand)
    BY <1>1, <1>3, <2>2, CommitsRemain DEF ShipMerging
  <2>4. QED
    BY <1>1, <1>2, <1>4, <2>2, <2>3 DEF ShipMerging
<1>11. ShipOp'
  BY <1>8, <1>9, <1>10 DEF ShipOp
<1>12. Tree(h, main).product \subseteq work.product
  BY <1>1, <1>4 DEF ShipInv
<1>13. QED
  BY <1>2, <1>6, <1>7, <1>11, <1>12 DEF ShipInv

\* Agents write documents that say nothing of merges, and product changes that
\* the branch has not got.
LEMMA AgentsShip ==
    ASSUME LifecycleInv, ShipInv, Agents
    PROVE  ShipInv'
<1>1. UNCHANGED <<commits, main, remote, branch, request>> /\ op' = Idle
  BY DEF Agents, WritePlan, WriteStatus, WriteReview, WriteQaResult, WriteHandover, Write, Develop, atRemote
<1>2. work \in Trees
  BY Parts
<1>3. work'.backlog.merged = work.backlog.merged /\ work'.product = work.product
  <2>1. CASE \E class \in Classes, plan \in {"approved", "v2"}, status \in {"plan", "dev"} : WritePlan(class, plan, status)
    <3>1. PICK class \in Classes, plan \in {"approved", "v2"}, status \in {"plan", "dev"} : WritePlan(class, plan, status)
      BY <2>1
    <3>2. PICK w : w = [work EXCEPT !.backlog.class = class, !.backlog.status = status,
                                    !.PLAN = plan, !.QA_PLAN = "approved"]
      OBVIOUS
    <3>3. PICK b : b = [work.backlog EXCEPT !["class"] = class, !["status"] = status]
      OBVIOUS
    <3>4. w = [work EXCEPT !["backlog"] = b, !["PLAN"] = plan, !["QA_PLAN"] = "approved"]
      BY <1>2, <3>2, <3>3 DEF Trees, Backlog
    <3>5. b.merged = work.backlog.merged
      BY <1>2, <3>3 DEF Trees, Backlog
    <3>6. work' = w
      BY <3>1, <3>2 DEF WritePlan
    <3>7. QED
      BY <1>2, <3>4, <3>5, <3>6 DEF Trees
  <2>2. CASE \E status \in DOMAIN Phase : WriteStatus(status)
    <3>1. PICK status : work' = [work EXCEPT !["backlog"] = [work.backlog EXCEPT !.status = status]]
      BY <2>2 DEF WriteStatus, Write
    <3>2. PICK b : b = [work.backlog EXCEPT !.status = status]
      OBVIOUS
    <3>3. b.merged = work.backlog.merged
      BY <1>2, <3>2 DEF Trees, Backlog
    <3>4. QED
      BY <1>2, <3>1, <3>2, <3>3 DEF Trees
  <2>3. CASE \E result \in {"pass", "other"} : WriteReview(result)
    BY <1>2, <2>3 DEF WriteReview, Write, Trees
  <2>4. CASE \E result \in {"pass", "other"} : WriteQaResult(result)
    BY <1>2, <2>4 DEF WriteQaResult, Trees
  <2>5. CASE \E commit \in {branch, main} \ {NoCommit} : WriteHandover(commit)
    BY <1>2, <2>5 DEF WriteHandover, Write, Trees
  <2>6. CASE \E change \in Product : Develop(change)
    BY <2>6 DEF Develop
  <2>7. QED
    BY <2>1, <2>2, <2>3, <2>4, <2>5, <2>6 DEF Agents
<1>4. worktree' = worktree \/ worktree' \notin Tree(commits, branch).product
  BY DEF Agents, WritePlan, WriteStatus, WriteReview, WriteQaResult, WriteHandover, Write, Develop
<1>5. Records(commits, work')
  BY <1>3, RecordsMore DEF ShipInv
<1>6. ShipOp'
  BY <1>1 DEF ShipOp, Idle
<1>7. QED
  BY <1>1, <1>3, <1>4, <1>5, <1>6 DEF ShipInv

LEMMA TaskStartShips ==
    ASSUME LifecycleInv, ShipInv, NEW same, TaskStart(same)
    PROVE  ShipInv'
<1>1. /\ UNCHANGED <<commits, main, remote, request>> /\ op' = Idle /\ branch' = main /\ main = remote
      /\ worktree' = "clean"
  BY DEF TaskStart, atRemote
<1>2. main \in Ancestors(commits, main)
  BY Parts
<1>3. work' = [f \in Files |-> IF f = "product" THEN work.product ELSE Scaffold(same)[f]]
  BY DEF TaskStart
<1>4. work'["backlog"] = Scaffold(same)["backlog"] /\ work'["product"] = work.product
  BY <1>3 DEF Files, Documents
<1>5. Scaffold(same).backlog.merged = NoCommit
  BY DEF Scaffold
<1>6. Records(commits, work')
  BY <1>4, <1>5 DEF Records
<1>7. BranchIs(commits, branch', main', remote')
  BY <1>1, <1>2 DEF BranchIs
<1>8. ShipOp'
  BY <1>1 DEF ShipOp, Idle
<1>9. QED
  BY <1>1, <1>4, <1>6, <1>7, <1>8 DEF ShipInv, DevChanges

\* A commit of documents.  The planning gate moves the branch along, and onto
\* this commit.
LEMMA CommitShips ==
    ASSUME LifecycleInv, ShipInv, LifecycleInv', NEW tree \in Trees, tree.product = Tree(commits, main).product,
           Records(commits, tree), NEW planning \in BOOLEAN, NEW push \in BOOLEAN, NEW next,
           CommitEvidence(tree, planning, push, next), UNCHANGED <<remote, request>>,
           \/ planning /\ worktree = "clean" /\ worktree' = "clean" /\ branch' = Len(commits) + 1
                       /\ ChangedFiles(Tree(commits, main), tree) \cap Documents # {}
           \/ ~planning /\ UNCHANGED <<branch, worktree>>
           \/ ~planning /\ branch' = NoCommit /\ worktree' = "none"
    PROVE  ShipInv'
<1>1. /\ GraphOk(commits) /\ DOMAIN commits = 1..Len(commits) /\ Len(commits) \in Nat \ {0}
      /\ main \in 1..Len(commits) /\ remote \in 1..Len(commits) /\ branch \in 0..Len(commits)
  BY Parts
<1>2. PICK h, n : h = commits' /\ n = Len(commits) + 1
  OBVIOUS
<1>3. /\ h = Append(commits, Child(commits, <<main>>, tree)) /\ main' = n /\ work' = tree
      /\ op' = IF push THEN [kind |-> "evidence", planning |-> planning, retry |-> 0, outage |-> FALSE,
                             commit |-> n, before |-> main, branch |-> branch, next |-> next]
               ELSE Idle
  BY <1>2 DEF CommitEvidence, NextId
<1>4. /\ GraphOk(h) /\ Extends(commits, h) /\ Len(h) = n /\ Tree(h, n) = tree
      /\ h[n] = Child(commits, <<main>>, tree)
      /\ Ancestors(h, n) = {n} \cup Ancestors(commits, main)
  <2>1. Tree(commits, main).product \cup Tree(commits, main).product \subseteq tree.product
    OBVIOUS
  <2>2. PICK k, e : k = commits /\ e = main
    OBVIOUS
  <2> DEFINE made == Append(k, Child(k, <<e>>, tree))
  <2>3. /\ GraphOk(made) /\ Extends(k, made) /\ Len(made) = Len(k) + 1 /\ Tree(made, Len(k) + 1) = tree
        /\ made[Len(k) + 1] = Child(k, <<e>>, tree)
        /\ Ancestors(made, Len(k) + 1) = {Len(k) + 1} \cup Ancestors(k, e) \cup Ancestors(k, e)
    <3>1. GraphOk(k) /\ e \in 1..Len(k) /\ Tree(k, e).product \cup Tree(k, e).product \subseteq tree.product
      BY <1>1, <2>1, <2>2
    <3>2. QED
      BY <3>1, ChildOf
  <2>4. h = made
    BY <1>3, <2>2
  <2> HIDE DEF made
  <2>5. QED
    BY <1>2, <2>2, <2>3, <2>4
<1>5. h[n].parents = <<main>>
  BY <1>4 DEF Child
<1>6. /\ DOMAIN h = 1..n /\ n \in 1..n /\ main \in 1..n /\ remote \in 1..n /\ Tree(h, main) = Tree(commits, main)
      /\ Ancestors(h, main) = Ancestors(commits, main) /\ main \in Ancestors(h, n) /\ remote \in Ancestors(h, remote)
      /\ main \in Ancestors(h, main)
  <2>1. DOMAIN h = 1..n /\ n \in 1..n /\ main \in 1..n /\ remote \in 1..n
    BY <1>1, <1>2, <1>4, GraphFacts
  <2>2. Tree(h, main) = Tree(commits, main) /\ Ancestors(h, main) = Ancestors(commits, main)
    BY <1>1, <1>4, ExtendsKeeps
  <2>3. QED
    BY <1>1, <1>4, <2>1, <2>2, GraphFacts
<1>7. ShipGraph(h)
  BY <1>1, <1>2, <1>4, <1>5, PlainShips DEF ShipInv
<1>8. Records(h, tree) /\ (request # NoCommit => ProductCommit(h, request))
  BY <1>1, <1>4, CommitsRemain DEF ShipInv
<1>9. BranchIs(h, branch, n, remote) /\ BranchIs(h, branch, main, remote)
  BY <1>1, <1>4, <1>6, BranchRemains DEF ShipInv
<1>10. planning => DocumentCommit(h, n)
  <2>1. SUFFICES ASSUME planning PROVE DocumentCommit(h, n)
    OBVIOUS
  <2>2. StepFrom(h, main, n)
    BY <1>4, <1>5, <1>6 DEF StepFrom
  <2>3. ChangedFiles(Tree(h, main), Tree(h, n)) \cap Documents # {}
    BY <1>4, <1>6, <2>1
  <2>4. QED
    BY <1>6, <2>2, <2>3 DEF DocumentCommit
<1>11. BranchIs(h, branch', n, remote)
  BY <1>2, <1>9, <1>10 DEF BranchIs
<1>12. worktree' \in DevChanges => worktree' \notin Tree(h, branch').product
  <2>1. worktree' \in DevChanges => UNCHANGED <<branch, worktree>> /\ branch \in 1..Len(commits)
    BY <1>1 DEF DevChanges, LifecycleInv, HeadsInv, NoCommit
  <2>2. branch \in 1..Len(commits) => Tree(h, branch) = Tree(commits, branch)
    BY <1>1, <1>4, ExtendsKeeps
  <2>3. QED
    BY <2>1, <2>2 DEF ShipInv
<1>13. ShipOp'
  <2>1. CASE ~push
    BY <1>3, <2>1 DEF ShipOp, Idle
  <2>2. CASE push
    <3>1. op'.kind = "evidence" /\ op'.planning = planning /\ op'.before = main /\ op'.branch = branch
      BY <1>3, <2>2
    <3>2. ShipEvidence'
      BY <1>2, <1>3, <1>4, <1>6, <1>9, <3>1 DEF ShipEvidence
    <3>3. QED
      BY <3>1, <3>2 DEF ShipOp
  <2>3. QED
    BY <2>1, <2>2
<1>14. QED
  BY <1>2, <1>3, <1>4, <1>7, <1>8, <1>11, <1>12, <1>13 DEF ShipInv

LEMMA EvidenceShips ==
    ASSUME LifecycleInv, ShipInv, LifecycleInv', NEW action \in DOMAIN AllowedFor, NEW push \in BOOLEAN,
           EvidenceCommit(action, push)
    PROVE  ShipInv'
<1>1. work \in Trees /\ Tree(commits, main) \in Trees
  BY Parts
<1>2. work.product = Tree(commits, main).product
  <2>1. ChangedFiles(Tree(commits, main), work) \subseteq Documents
    BY AllowedAreDocuments DEF EvidenceCommit, Changed, HeadTree
  <2>2. QED
    BY <1>1, <2>1, SameProduct
<1>3. PICK planning \in BOOLEAN : planning = (action = "planning-gate")
  OBVIOUS
<1>4. CommitEvidence(work, planning, push, "end") /\ UNCHANGED <<remote, request, worktree>>
  BY <1>3 DEF EvidenceCommit, atRemote
<1>5. \/ planning /\ worktree = "clean" /\ branch' = Len(commits) + 1
                  /\ ChangedFiles(Tree(commits, main), work) \cap Documents # {}
      \/ ~planning /\ branch' = branch
  <2>1. CASE action = "planning-gate"
    <3>1. PlanningState(work, Changed) /\ FastForward
      BY <2>1 DEF EvidenceCommit
    <3>2. Changed \cap Documents # {}
      BY <3>1 DEF PlanningState, Documents
    <3>3. QED
      BY <1>3, <2>1, <3>1, <3>2 DEF FastForward, NextId, Changed, HeadTree
  <2>2. CASE action # "planning-gate"
    BY <1>3, <2>2 DEF EvidenceCommit
  <2>3. QED
    BY <2>1, <2>2
<1>6. Records(commits, work)
  BY DEF ShipInv
<1>7. QED
  BY <1>1, <1>2, <1>4, <1>5, <1>6, CommitShips

\* What can be written of the Task's entry once a merge is recorded.
LEMMA TransitionShips ==
    ASSUME LifecycleInv, ShipInv, LifecycleInv', NEW tree \in Trees, tree.product = work.product,
           Records(commits, tree), NEW push \in BOOLEAN, NEW next,
           \/ CommitEvidence(tree, FALSE, push, next) /\ work.product = Tree(commits, main).product
           \/ work' = tree /\ op' = Idle /\ UNCHANGED <<commits, main>>,
           UNCHANGED <<remote, request>>,
           UNCHANGED <<branch, worktree>> \/ (branch' = NoCommit /\ worktree' = "none")
    PROVE  ShipInv'
<1>1. CASE CommitEvidence(tree, FALSE, push, next) /\ work.product = Tree(commits, main).product
  BY <1>1, CommitShips
<1>2. CASE work' = tree /\ op' = Idle /\ UNCHANGED <<commits, main>>
  <2>1. BranchIs(commits, branch', main, remote)
    BY DEF ShipInv, BranchIs
  <2>2. worktree' \in DevChanges => worktree' \notin Tree(commits, branch').product
    BY DEF ShipInv, DevChanges
  <2>3. ShipOp'
    BY <1>2 DEF ShipOp, Idle
  <2>4. QED
    BY <1>2, <2>1, <2>2, <2>3 DEF ShipInv
<1>3. QED
  BY <1>1, <1>2

\* The merge that post-merge records is on main, which has all of its product.
LEMMA PostMergeShips ==
    ASSUME LifecycleInv, ShipInv, LifecycleInv', NEW merge, NEW push \in BOOLEAN, PostMerge(merge, push)
    PROVE  ShipInv'
<1>1. work \in Trees /\ op = Idle /\ GraphOk(commits) /\ main \in 1..Len(commits) /\ DOMAIN commits = 1..Len(commits)
      /\ Tree(commits, main) \in Trees /\ Len(commits) \in Nat
  BY Parts DEF PostMerge
<1>2. merge \in Ancestors(commits, main) /\ IsMerge(commits, merge)
  BY DEF PostMerge
<1>3. merge \in 1..Len(commits) /\ merge \in Nat
  <2>1. Ancestors(commits, main) \subseteq 1..main
    BY <1>1, GraphFacts
  <2>2. QED
    BY <1>1, <1>2, <2>1
<1>4. PICK b : b = [work.backlog EXCEPT !.merged = merge, !.status = "qa"]
  OBVIOUS
<1>5. b \in Backlog /\ b.merged = merge
  BY <1>1, <1>3, <1>4 DEF Trees, Backlog, Statuses
<1>6. PICK tree : tree = [work EXCEPT !.backlog.merged = merge, !.backlog.status = "qa"]
  OBVIOUS
<1>7. tree = [work EXCEPT !["backlog"] = b]
  BY <1>1, <1>4, <1>6 DEF Trees, Backlog
<1>8. tree \in Trees /\ tree.product = work.product
  BY <1>1, <1>5, <1>7, BacklogWritten
<1>9. tree.backlog = b
  BY <1>1, <1>7 DEF Trees
<1>10. Records(commits, tree)
  <2>1. PICK q : q = commits[merge].parents[2]
    OBVIOUS
  <2>2. q \in 1..Len(commits) /\ q \in Ancestors(commits, merge)
    BY <1>1, <1>2, <1>3, <2>1, MergeParents
  <2>3. Tree(commits, q).product \subseteq Tree(commits, merge).product
    BY <1>1, <1>3, <2>2, GraphFacts
  <2>4. Tree(commits, merge).product \subseteq Tree(commits, main).product
    BY <1>1, <1>2, GraphFacts
  <2>5. Tree(commits, main).product \subseteq work.product
    BY DEF ShipInv
  <2>6. Tree(commits, q).product \subseteq tree.product
    BY <1>8, <2>3, <2>4, <2>5
  <2>7. QED
    BY <1>1, <1>2, <1>3, <1>5, <1>9, <2>1, <2>6 DEF Records
<1>11. UNCHANGED <<remote, request, branch, worktree>>
  BY DEF PostMerge, atRemote
<1>12. \/ CommitEvidence(tree, FALSE, push, "end") /\ ChangedFiles(HeadTree, tree) \subseteq AllowedFor["main-transition"]
       \/ work' = tree /\ UNCHANGED <<commits, main, op>>
  BY <1>6, Zenon DEF PostMerge
<1>13. CASE CommitEvidence(tree, FALSE, push, "end") /\ ChangedFiles(HeadTree, tree) \subseteq AllowedFor["main-transition"]
  <2>1. "main-transition" \in DOMAIN AllowedFor
    BY DEF AllowedFor, EvidenceActions
  <2>2. ChangedFiles(Tree(commits, main), tree) \subseteq Documents
    BY <1>13, <2>1, AllowedAreDocuments DEF HeadTree
  <2>3. tree.product = Tree(commits, main).product
    BY <1>1, <1>8, <2>2, SameProduct
  <2>4. QED
    BY <1>8, <1>10, <1>11, <1>13, <2>3, TransitionShips
<1>14. CASE work' = tree /\ UNCHANGED <<commits, main, op>>
  BY <1>1, <1>8, <1>10, <1>11, <1>14, TransitionShips
<1>15. QED
  BY <1>12, <1>13, <1>14

LEMMA SyncDoneShips ==
    ASSUME LifecycleInv, ShipInv, LifecycleInv', NEW push \in BOOLEAN, SyncDone(push)
    PROVE  ShipInv'
<1>1. work \in Trees /\ work = Tree(commits, main) /\ op = Idle
  BY Parts, SyncIsClean DEF SyncDone, Synced
<1>2. PICK b : b = [work.backlog EXCEPT !.status = "done"]
  OBVIOUS
<1>3. b \in Backlog /\ b.merged = work.backlog.merged
  BY <1>1, <1>2 DEF Trees, Backlog, Statuses
<1>4. PICK tree : tree = [work EXCEPT !.backlog.status = "done"]
  OBVIOUS
<1>5. tree = [work EXCEPT !["backlog"] = b]
  BY <1>1, <1>2, <1>4 DEF Trees, Backlog
<1>6. tree \in Trees /\ tree.product = work.product
  BY <1>1, <1>3, <1>5, BacklogWritten
<1>7. tree.backlog = b
  BY <1>1, <1>5 DEF Trees
<1>8. Records(commits, tree)
  BY <1>3, <1>6, <1>7, RecordsMore DEF ShipInv
<1>9. \/ CommitEvidence(tree, FALSE, push, "cleanup")
      \/ work' = tree /\ UNCHANGED <<commits, main, op>>
  BY <1>4, Zenon DEF SyncDone
<1>10. UNCHANGED <<remote, request, branch, worktree>>
  BY DEF SyncDone, atRemote
<1>11. QED
  BY <1>1, <1>6, <1>8, <1>9, <1>10, TransitionShips

LEMMA SyncCleanupShips ==
    ASSUME LifecycleInv, ShipInv, LifecycleInv', NEW push \in BOOLEAN, SyncCleanup(push)
    PROVE  ShipInv'
<1>1. work \in Trees /\ work = Tree(commits, main)
  BY Parts, SyncIsClean DEF SyncCleanup
<1>2. PICK b : b = [work.backlog EXCEPT !.alloc = FALSE]
  OBVIOUS
<1>3. b \in Backlog /\ b.merged = work.backlog.merged
  BY <1>1, <1>2 DEF Trees, Backlog
<1>4. PICK tree : tree = [work EXCEPT !.backlog.alloc = FALSE]
  OBVIOUS
<1>5. tree = [work EXCEPT !["backlog"] = b]
  BY <1>1, <1>2, <1>4 DEF Trees, Backlog
<1>6. tree \in Trees /\ tree.product = work.product
  BY <1>1, <1>3, <1>5, BacklogWritten
<1>7. tree.backlog = b
  BY <1>1, <1>5 DEF Trees
<1>8. Records(commits, tree)
  BY <1>3, <1>6, <1>7, RecordsMore DEF ShipInv
<1>9. \/ CommitEvidence(tree, FALSE, push, "end")
      \/ work' = tree /\ op' = Idle /\ UNCHANGED <<commits, main>>
  BY <1>4, Zenon DEF SyncCleanup
<1>10. UNCHANGED <<remote, request>> /\ branch' = NoCommit /\ worktree' = "none"
  BY DEF SyncCleanup, atRemote
<1>11. QED
  BY <1>1, <1>6, <1>8, <1>9, <1>10, TransitionShips

\* The head that was pushed is the remote's now.
LEMMA PublishedShips ==
    ASSUME LifecycleInv, ShipInv, remote' = main, op'.kind \in {"idle", "cleanup"},
           UNCHANGED <<commits, main, work, branch, worktree, request>>
    PROVE  ShipInv'
<1>1. BranchIs(commits, branch, main, main)
  BY DEF ShipInv, BranchIs
<1>2. ShipOp'
  BY DEF ShipOp
<1>3. QED
  BY <1>1, <1>2 DEF ShipInv

\* A script that gives up: what main and the branch are put back to is as the
\* script found it, and a rebase has lost nothing of it.
LEMMA GiveUpShips ==
    ASSUME LifecycleInv, ShipInv, op.kind = "evidence", NEW graph, GraphOk(graph), Extends(commits, graph),
           ShipGraph(graph), NEW head \in 1..Len(graph),
           main \in Ancestors(graph, head) \/ remote \in Ancestors(graph, head),
           Tree(commits, main).product \subseteq Tree(graph, head).product,
           NEW onto \in 1..Len(commits), remote' = onto, remote \in Ancestors(commits, onto),
           UNCHANGED <<worktree, request>>, GiveUp(graph, head)
    PROVE  ShipInv'
<1>1. Evidence /\ ShipEvidence
  BY OpIsOne DEF ShipInv, ShipOp
<1>2. /\ commits' = graph /\ op' = Idle /\ work' = Tree(graph, head)
      /\ main' = (IF op.planning THEN op.before ELSE head) /\ branch' = (IF op.planning THEN op.branch ELSE branch)
  BY DEF GiveUp, Tree
<1>3. /\ GraphOk(commits) /\ DOMAIN commits = 1..Len(commits) /\ main \in 1..Len(commits)
      /\ remote \in 1..Len(commits) /\ branch \in 0..Len(commits)
  BY Parts
<1>4. op.before \in 1..Len(commits) /\ 1..Len(commits) \subseteq 1..Len(graph)
      /\ \A c \in 1..Len(commits) : Tree(graph, c) = Tree(commits, c) /\ Ancestors(graph, c) = Ancestors(commits, c)
  BY <1>1, <1>2, <1>3, Grown DEF Evidence, Waiting
<1>5. Records(graph, work')
  BY <1>2 DEF ShipGraph, ShipsAt
<1>6. request' # NoCommit => ProductCommit(graph, request')
  BY <1>3, CommitsRemain DEF ShipInv
<1>7. Tree(graph, main').product \subseteq work'.product
  BY <1>1, <1>2, <1>4 DEF ShipEvidence
<1>8. BranchIs(graph, branch', main', onto)
  <2>1. onto \in 1..Len(graph) /\ remote \in Ancestors(graph, onto)
    BY <1>4
  <2>2. CASE op.planning
    <3>1. PICK b, c : b = op.branch /\ c = op.before
      OBVIOUS
    <3>2. BranchIs(commits, b, c, remote) /\ c \in 1..Len(commits) /\ c \in 1..Len(graph) /\ c \in Ancestors(graph, c)
      BY <1>1, <1>3, <1>4, <2>2, <3>1, GraphFacts DEF ShipEvidence
    <3>3. BranchIs(graph, b, c, onto)
      BY <1>3, <2>1, <3>2, BranchRemains
    <3>4. QED
      BY <1>2, <2>2, <3>1, <3>3
  <2>3. CASE ~op.planning
    <3>1. BranchIs(commits, branch, main, remote)
      BY DEF ShipInv
    <3>2. BranchIs(graph, branch, head, onto)
      BY <1>3, <2>1, <3>1, BranchRemains
    <3>3. QED
      BY <1>2, <2>3, <3>2
  <2>4. QED
    BY <2>2, <2>3
<1>9. worktree' \in DevChanges => worktree' \notin Tree(graph, branch').product
  <2>1. SUFFICES ASSUME worktree \in DevChanges PROVE worktree \notin Tree(graph, branch').product
    OBVIOUS
  <2>2. ~op.planning
    BY <1>1, <2>1 DEF ShipEvidence, DevChanges
  <2>3. branch' = branch /\ branch \in 1..Len(commits)
    BY <1>2, <1>3, <2>1, <2>2 DEF LifecycleInv, HeadsInv, DevChanges, NoCommit
  <2>4. QED
    BY <1>4, <2>1, <2>3 DEF ShipInv
<1>10. ShipOp'
  BY <1>2 DEF ShipOp, Idle
<1>11. QED
  BY <1>2, <1>5, <1>6, <1>7, <1>8, <1>9, <1>10 DEF ShipInv

LEMMA GoOnShips ==
    ASSUME LifecycleInv, ShipInv, op.kind = "evidence", NEW graph, GraphOk(graph), Extends(commits, graph),
           ShipGraph(graph), NEW head \in 1..Len(graph),
           main \in Ancestors(graph, head) \/ remote \in Ancestors(graph, head),
           Tree(commits, main).product \subseteq Tree(graph, head).product,
           NEW onto \in 1..Len(commits), remote' = onto, remote \in Ancestors(commits, onto),
           UNCHANGED <<branch, worktree, request>>, commits' = graph, main' = head, work' = Tree(graph, head),
           op'.kind = "evidence", op'.planning = op.planning, op'.before = op.before, op'.branch = op.branch
    PROVE  ShipInv'
<1>1. Evidence /\ ShipEvidence
  BY OpIsOne DEF ShipInv, ShipOp
<1>2. /\ GraphOk(commits) /\ DOMAIN commits = 1..Len(commits) /\ main \in 1..Len(commits)
      /\ remote \in 1..Len(commits) /\ branch \in 0..Len(commits)
  BY Parts
<1>3. op.before \in 1..Len(commits) /\ 1..Len(commits) \subseteq 1..Len(graph)
      /\ \A c \in 1..Len(commits) : Tree(graph, c) = Tree(commits, c) /\ Ancestors(graph, c) = Ancestors(commits, c)
  BY <1>1, <1>2, Grown DEF Evidence, Waiting
<1>4. Records(graph, work')
  BY DEF ShipGraph, ShipsAt
<1>5. request' # NoCommit => ProductCommit(graph, request')
  BY <1>2, CommitsRemain DEF ShipInv
<1>6. onto \in 1..Len(graph) /\ remote \in Ancestors(graph, onto)
  BY <1>3
<1>7. BranchIs(graph, branch, head, onto)
  BY <1>2, <1>6, BranchRemains DEF ShipInv
<1>8. worktree \in DevChanges => worktree \notin Tree(graph, branch).product
  <2>1. worktree \in DevChanges => branch \in 1..Len(commits)
    BY <1>2 DEF LifecycleInv, HeadsInv, DevChanges, NoCommit
  <2>2. QED
    BY <1>3, <2>1 DEF ShipInv
<1>9. ShipEvidence'
  <2>1. op.planning => BranchIs(graph, op.branch, op.before, onto)
    <3>1. SUFFICES ASSUME op.planning PROVE BranchIs(graph, op.branch, op.before, onto)
      OBVIOUS
    <3>2. PICK b, c : b = op.branch /\ c = op.before
      OBVIOUS
    <3>3. BranchIs(commits, b, c, remote) /\ c \in 1..Len(commits) /\ c \in 1..Len(graph) /\ c \in Ancestors(graph, c)
      BY <1>1, <1>2, <1>3, <3>1, <3>2, GraphFacts DEF ShipEvidence
    <3>4. BranchIs(graph, b, c, onto)
      BY <1>2, <1>6, <3>3, BranchRemains
    <3>5. QED
      BY <3>2, <3>4
  <2>2. QED
    BY <1>1, <1>3, <2>1 DEF ShipEvidence
<1>10. ShipOp'
  BY <1>9 DEF ShipOp
<1>11. QED
  BY <1>4, <1>5, <1>7, <1>8, <1>10 DEF ShipInv

LEMMA PushFailedShips ==
    ASSUME LifecycleInv, ShipInv, PushFailed
    PROVE  ShipInv'
<1>1. Evidence /\ op.kind = "evidence"
  BY OpIsOne DEF PushFailed
<1>2. PICK onto : onto = remote'
  OBVIOUS
<1>3. /\ GraphOk(commits) /\ main \in 1..Len(commits) /\ remote \in 1..Len(commits)
      /\ main \in Ancestors(commits, main) /\ remote \in Ancestors(commits, remote) /\ Extends(commits, commits)
      /\ ShipGraph(commits)
  BY Parts DEF Extends, ShipInv
<1>4. onto \in {main, remote} /\ onto \in 1..Len(commits) /\ remote \in Ancestors(commits, onto)
  BY <1>2, <1>3, Landing DEF PushFailed, Land
<1>5. PICK r : r = Rebase(commits, main, onto)
  OBVIOUS
<1>6. /\ GraphOk(r.graph) /\ Extends(commits, r.graph) /\ r.head \in 1..Len(r.graph)
      /\ onto \in Ancestors(r.graph, r.head)
  BY <1>3, <1>4, <1>5, RebaseGoesOn DEF RebaseOk
<1>7. ShipGraph(r.graph) /\ (r.clean => Tree(commits, main).product \subseteq Tree(r.graph, r.head).product)
  BY <1>3, <1>4, <1>5, RebaseShips
<1>8. UNCHANGED <<worktree, request>>
  BY DEF PushFailed
<1>9. \/ GiveUp(commits, main)
      \/ r.clean /\ GiveUp(r.graph, r.head)
      \/ /\ r.clean /\ commits' = r.graph /\ main' = r.head /\ work' = r.graph[r.head].tree
         /\ \E o : op' = [op EXCEPT !.retry = @ + 1, !.outage = @ \/ o, !.commit = r.head]
         /\ branch' = branch
  BY <1>2, <1>5, PushFailedOutcome DEF GoesOn
<1>10. CASE GiveUp(commits, main)
  BY <1>1, <1>2, <1>3, <1>4, <1>8, <1>10, GiveUpShips
<1>11. CASE r.clean /\ GiveUp(r.graph, r.head)
  BY <1>1, <1>2, <1>4, <1>6, <1>7, <1>8, <1>11, GiveUpShips
<1>12. CASE /\ r.clean /\ commits' = r.graph /\ main' = r.head /\ work' = r.graph[r.head].tree
            /\ \E o : op' = [op EXCEPT !.retry = @ + 1, !.outage = @ \/ o, !.commit = r.head]
            /\ branch' = branch
  <2>1. PICK n, o : op' = [op EXCEPT !.retry = n, !.outage = o, !.commit = r.head]
    BY <1>12
  <2>2. op \in EvidenceOps
    BY <1>1 DEF Evidence
  <2>3. op'.kind = "evidence" /\ op'.planning = op.planning /\ op'.before = op.before /\ op'.branch = op.branch
    BY <1>1, <2>1, <2>2 DEF EvidenceOps
  <2>4. work' = Tree(r.graph, r.head)
    BY <1>12 DEF Tree
  <2>5. UNCHANGED <<branch, worktree, request>>
    BY <1>8, <1>12
  <2>6. main \in Ancestors(r.graph, r.head) \/ remote \in Ancestors(r.graph, r.head)
    BY <1>4, <1>6
  <2>7. QED
    BY <1>1, <1>2, <1>4, <1>6, <1>7, <1>12, <2>3, <2>4, <2>5, <2>6, GoOnShips
<1>13. QED
  BY <1>9, <1>10, <1>11, <1>12

\* The candidate is one change of the product, which the branch did not have.
LEMMA CandidateShips ==
    ASSUME LifecycleInv, ShipInv, CandidateCommit
    PROVE  ShipInv'
<1>1. /\ GraphOk(commits) /\ Len(commits) \in Nat \ {0} /\ DOMAIN commits = 1..Len(commits)
      /\ main \in 1..Len(commits) /\ remote \in 1..Len(commits) /\ branch \in 0..Len(commits)
  BY Parts
<1>2. branch \in 1..Len(commits) /\ worktree \in Changes /\ worktree \in DevChanges
  BY <1>1 DEF CandidateCommit, DevChanges, Changes, LifecycleInv, HeadsInv, NoCommit
<1>3. PICK s : s = Tree(commits, branch)
  OBVIOUS
<1>4. s \in Trees /\ worktree \notin s.product /\ Records(commits, s)
  BY <1>1, <1>2, <1>3, GraphFacts DEF ShipInv, ShipGraph, ShipsAt
<1>5. PICK t : t = [s EXCEPT !.product = @ \cup {worktree}]
  OBVIOUS
<1>6. t \in Trees /\ t.product = s.product \cup {worktree} /\ t.backlog = s.backlog
  BY <1>2, <1>4, <1>5 DEF Trees
<1>7. ChangedFiles(s, t) = {"product"}
  <2>1. \A f \in Documents : t[f] = s[f]
    BY <1>4, <1>5 DEF Trees, Documents
  <2>2. t["product"] # s["product"]
    BY <1>4, <1>6
  <2>3. QED
    BY <2>1, <2>2 DEF ChangedFiles, Files
<1>8. PICK h, n : h = commits' /\ n = Len(commits) + 1
  OBVIOUS
<1>9. h = Append(commits, Child(commits, <<branch>>, t)) /\ branch' = n
  BY <1>3, <1>5, <1>8 DEF CandidateCommit, NextId
<1>10. /\ GraphOk(h) /\ Extends(commits, h) /\ Len(h) = n /\ Tree(h, n) = t
       /\ h[n] = Child(commits, <<branch>>, t)
       /\ Ancestors(h, n) = {n} \cup Ancestors(commits, branch)
  <2>1. Tree(commits, branch).product \cup Tree(commits, branch).product \subseteq t.product
    BY <1>3, <1>6
  <2>2. PICK p : p = <<branch>>
    OBVIOUS
  <2>3. h = Append(commits, Child(commits, p, t))
    BY <1>9, <2>2
  <2>4. LET k == Append(commits, Child(commits, p, t)) IN
        /\ GraphOk(k) /\ Extends(commits, k) /\ Len(k) = Len(commits) + 1
        /\ Tree(k, Len(commits) + 1) = t /\ k[Len(commits) + 1] = Child(commits, p, t)
        /\ Ancestors(k, Len(commits) + 1) = {Len(commits) + 1} \cup Ancestors(commits, branch) \cup Ancestors(commits, branch)
    BY <1>1, <1>2, <1>6, <2>1, <2>2, ChildOf
  <2>5. QED
    BY <1>8, <2>2, <2>3, <2>4
<1>11. h[n].parents = <<branch>>
  BY <1>10 DEF Child
<1>12. /\ DOMAIN h = 1..n /\ n \in 1..n /\ branch \in 1..n /\ Tree(h, branch) = s /\ Tree(h, main) = Tree(commits, main)
       /\ Ancestors(h, branch) = Ancestors(commits, branch)
  <2>1. DOMAIN h = 1..n /\ n \in 1..n /\ branch \in 1..n
    BY <1>1, <1>2, <1>8, <1>10, GraphFacts
  <2>2. Tree(h, branch) = s /\ Tree(h, main) = Tree(commits, main) /\ Ancestors(h, branch) = Ancestors(commits, branch)
    BY <1>1, <1>2, <1>3, <1>10, ExtendsKeeps
  <2>3. QED
    BY <2>1, <2>2
<1>13. ProductCommit(h, n)
  <2>1. StepFrom(h, branch, n)
    BY <1>10, <1>11, <1>12 DEF StepFrom
  <2>2. QED
    BY <1>7, <1>10, <1>12, <2>1 DEF ProductCommit
<1>14. ShipGraph(h)
  <2>1. Records(commits, t)
    BY <1>4, <1>6, RecordsMore
  <2>2. QED
    BY <1>1, <1>8, <1>10, <1>11, <2>1, PlainShips DEF ShipInv
<1>15. UNCHANGED <<main, remote, work, request>> /\ op' = Idle /\ worktree' = "clean"
  BY DEF CandidateCommit, atRemote
<1>16. Records(h, work) /\ (request # NoCommit => ProductCommit(h, request))
  BY <1>1, <1>10, CommitsRemain DEF ShipInv
<1>17. BranchIs(h, branch', main, remote)
  BY <1>9, <1>13 DEF BranchIs
<1>18. ShipOp'
  BY <1>15 DEF ShipOp, Idle
<1>19. QED
  BY <1>8, <1>12, <1>14, <1>15, <1>16, <1>17, <1>18 DEF ShipInv, DevChanges

LEMMA CompletionMergeShips ==
    ASSUME LifecycleInv, ShipInv, NEW push, NEW validate, CompletionMerge(push, validate)
    PROVE  ShipInv'
<1>1. /\ GraphOk(commits) /\ main \in 1..Len(commits) /\ branch \in 0..Len(commits) /\ branch \in Nat
      /\ work \in Trees /\ Tree(commits, main) \in Trees
  BY Parts
<1>2. PICK cand : cand = work.HANDOVER.cand
  OBVIOUS
<1>3. ProductCommit(commits, cand)
  <2>1. OneCandidate(commits, main, branch, cand)
    BY <1>2 DEF CompletionMerge, CompletionReady
  <2>2. QED
    BY <1>1, <2>1, OneCandidateShips DEF ShipInv
<1>4. work.product = Tree(commits, main).product
  <2>1. ChangedFiles(Tree(commits, main), work) \subseteq Documents
    BY DEF CompletionMerge, Changed, HeadTree, CompletionAllowed
  <2>2. QED
    BY <1>1, <2>1, SameProduct
<1>5. PICK new : new = Introduced(commits, MergeBase(commits, main, cand), cand)
  OBVIOUS
<1>6. /\ work' = [work EXCEPT !.product = @ \cup new]
      /\ op' = [kind |-> "merging", cand |-> cand, before |-> main, start |-> work, push |-> push,
                validate |-> validate]
      /\ UNCHANGED <<commits, main, remote, branch, worktree, request>>
  BY <1>2, <1>5 DEF CompletionMerge, atRemote
<1>7. work'.product = work.product \cup new /\ work'.backlog = work.backlog
  BY <1>1, <1>6 DEF Trees
<1>8. new \subseteq Tree(commits, cand).product
  BY <1>5 DEF Introduced
<1>9. Records(commits, work')
  BY <1>7, RecordsMore DEF ShipInv
<1>10. op'.kind = "merging" /\ op'.cand = cand /\ op'.before = main /\ op'.start = work
  BY <1>6
<1>11. ShipGate' /\ ShipMerging'
  <2>1. ShipGate'
    BY <1>6, <1>10 DEF ShipGate, ShipInv
  <2>2. ShipMerging'
    BY <1>3, <1>4, <1>6, <1>7, <1>8, <1>10 DEF ShipMerging
  <2>3. QED
    BY <2>1, <2>2
<1>12. ShipOp'
  BY <1>10, <1>11 DEF ShipOp
<1>13. QED
  BY <1>6, <1>7, <1>9, <1>12 DEF ShipInv

LEMMA CompletionCommitShips ==
    ASSUME LifecycleInv, ShipInv, CompletionCommit
    PROVE  ShipInv'
<1>1. Merging /\ ShipGate /\ ShipMerging /\ op.kind = "merging"
  BY OpIsOne DEF CompletionCommit, ShipInv, ShipOp
<1>2. /\ GraphOk(commits) /\ Len(commits) \in Nat \ {0} /\ DOMAIN commits = 1..Len(commits)
      /\ main \in 1..Len(commits) /\ remote \in 1..Len(commits) /\ work \in Trees /\ branch \in 0..Len(commits)
  BY Parts
<1>3. PICK c : c = op.cand
  OBVIOUS
<1>4. /\ c \in 1..Len(commits) /\ Tree(commits, main).product \cup Tree(commits, c).product \subseteq work.product
      /\ ProductCommit(commits, c) /\ work.product \subseteq Tree(commits, main).product \cup Tree(commits, c).product
      /\ op.before = main
  BY <1>1, <1>2, <1>3 DEF Merging, ShipMerging
<1>5. PICK p : p = <<main, c>>
  OBVIOUS
<1>6. PICK h, n : h = commits' /\ n = Len(commits) + 1
  OBVIOUS
<1>7. /\ h = Append(commits, Child(commits, p, work)) /\ main' = n
      /\ op' = IF op.push THEN [op EXCEPT !.kind = "publishing"] ELSE Idle
      /\ UNCHANGED <<remote, work, branch, worktree, request>>
  BY <1>3, <1>5, <1>6 DEF CompletionCommit, NextId, atRemote
<1>8. /\ GraphOk(h) /\ Extends(commits, h) /\ Len(h) = n /\ Tree(h, n) = work
      /\ h[n] = Child(commits, p, work)
      /\ Ancestors(h, n) = {n} \cup Ancestors(commits, main) \cup Ancestors(commits, c)
  <2>1. LET k == Append(commits, Child(commits, p, work)) IN
        /\ GraphOk(k) /\ Extends(commits, k) /\ Len(k) = Len(commits) + 1
        /\ Tree(k, Len(commits) + 1) = work /\ k[Len(commits) + 1] = Child(commits, p, work)
        /\ Ancestors(k, Len(commits) + 1) = {Len(commits) + 1} \cup Ancestors(commits, main) \cup Ancestors(commits, c)
    BY <1>2, <1>4, <1>5, ChildOf
  <2>2. QED
    BY <1>6, <1>7, <2>1
<1>9. h[n].parents = <<main, c>>
  BY <1>5, <1>8 DEF Child
<1>10. /\ n \in 1..n /\ remote \in 1..n /\ main \in 1..n /\ main \in Ancestors(h, n) /\ remote \in Ancestors(h, remote)
       /\ main \in Ancestors(h, main) /\ \A x \in 1..Len(commits) : Tree(h, x) = Tree(commits, x)
  <2>1. n \in 1..n /\ remote \in 1..n /\ main \in 1..n
    BY <1>2, <1>6
  <2>2. main \in Ancestors(commits, main)
    BY Parts
  <2>3. \A x \in 1..Len(commits) : Tree(h, x) = Tree(commits, x)
    BY <1>2, <1>8, ExtendsKeeps
  <2>4. QED
    BY <1>8, <2>1, <2>2, <2>3, GraphFacts
<1>11. ShipGraph(h)
  <2>1. Records(commits, work) /\ ShipGraph(commits)
    BY DEF ShipInv
  <2>2. Tree(h, Len(commits) + 1) = work /\ h[Len(commits) + 1].parents = <<main, c>> /\ Len(h) = Len(commits) + 1
    BY <1>6, <1>8, <1>9
  <2>3. QED
    BY <1>2, <1>4, <1>8, <2>1, <2>2, MergeShips
<1>12. Records(h, work) /\ (request # NoCommit => ProductCommit(h, request)) /\ Records(h, op.start)
  BY <1>1, <1>2, <1>8, CommitsRemain DEF ShipInv, ShipGate
<1>13. BranchIs(h, branch, n, remote) /\ BranchIs(h, branch, main, remote)
  BY <1>2, <1>8, <1>10, BranchRemains DEF ShipInv
<1>14. worktree \in DevChanges => worktree \notin Tree(h, branch).product
  <2>1. worktree \in DevChanges => branch \in 1..Len(commits)
    BY <1>2 DEF LifecycleInv, HeadsInv, DevChanges, NoCommit
  <2>2. QED
    BY <1>10, <2>1 DEF ShipInv
<1>15. ShipOp'
  <2>1. CASE ~op.push
    BY <1>7, <2>1 DEF ShipOp, Idle
  <2>2. CASE op.push
    <3>1. op' = [op EXCEPT !.kind = "publishing"] /\ op \in GateOps
      BY <1>1, <1>7, <2>2 DEF Merging
    <3>2. op'.kind = "publishing" /\ op'.before = op.before /\ op'.start = op.start
      BY <3>1 DEF GateOps
    <3>3. ShipGate'
      BY <1>1, <1>2, <1>4, <1>6, <1>7, <1>10, <1>12, <1>13, <3>2 DEF ShipGate
    <3>4. QED
      BY <3>2, <3>3 DEF ShipOp
  <2>3. QED
    BY <2>1, <2>2
<1>16. QED
  BY <1>6, <1>7, <1>8, <1>11, <1>12, <1>13, <1>14, <1>15 DEF ShipInv

\* What a completion puts back is as it found it.
LEMMA PutBackShips ==
    ASSUME LifecycleInv, ShipInv, op.kind \in {"merging", "publishing"}, main' = op.before, work' = op.start,
           op' = Idle, remote' = remote \/ (Accepts /\ remote' = main),
           UNCHANGED <<commits, branch, worktree, request>>
    PROVE  ShipInv'
<1>1. ShipGate
  BY DEF ShipInv, ShipOp
<1>2. \A a \in Ancestors(commits, remote) : a \in Ancestors(commits, remote')
  BY Landing
<1>3. BranchIs(commits, branch, op.before, remote')
  BY <1>1, <1>2 DEF ShipGate, BranchIs
<1>4. ShipOp'
  BY DEF ShipOp, Idle
<1>5. QED
  BY <1>1, <1>3, <1>4 DEF ShipInv, ShipGate

LEMMA CompletionPushFailedShips ==
    ASSUME LifecycleInv, ShipInv, NEW seen \in {remote, NoCommit}, CompletionPushFailed(seen)
    PROVE  ShipInv'
<1>1. op.kind = "publishing" /\ op' = Idle /\ UNCHANGED <<commits, branch, worktree, request>>
      /\ (remote' = remote \/ (Accepts /\ remote' = main))
  BY DEF CompletionPushFailed, Land
<1>2. work = Tree(commits, main)
  BY <1>1, OpIsOne DEF Publishing
<1>3. CASE main' = main /\ work' = Tree(commits, main)
  <2>1. \A a \in Ancestors(commits, remote) : a \in Ancestors(commits, remote')
    BY <1>1, Landing
  <2>2. BranchIs(commits, branch, main, remote')
    BY <2>1 DEF ShipInv, BranchIs
  <2>3. ShipOp'
    BY <1>1 DEF ShipOp, Idle
  <2>4. QED
    BY <1>1, <1>2, <1>3, <2>2, <2>3 DEF ShipInv
<1>4. CASE main' = op.before /\ work' = op.start
  BY <1>1, <1>4, PutBackShips
<1>5. QED
  BY <1>3, <1>4, ResetPutsBack

LEMMA TaskPrShips ==
    ASSUME LifecycleInv, ShipInv, TaskPr
    PROVE  ShipInv'
<1>1. GraphOk(commits) /\ main \in 1..Len(commits) /\ branch \in Nat
  BY Parts
<1>2. UNCHANGED <<commits, main, remote, work, branch, worktree, op>> /\ op = Idle /\ request' = branch
  BY DEF TaskPr, atRemote
<1>3. OneCandidate(commits, main, branch, work.HANDOVER.cand)
  BY DEF TaskPr, CompositeReady
<1>4. PICK cand : cand = work.HANDOVER.cand
  OBVIOUS
<1>5. ProductCommit(commits, cand)
  BY <1>1, <1>3, <1>4, OneCandidateShips DEF ShipInv
<1>6. branch = cand
  BY <1>3, <1>4 DEF OneCandidate
<1>7. ShipOp'
  BY <1>2 DEF ShipOp, Idle
<1>8. QED
  BY <1>2, <1>5, <1>6, <1>7 DEF ShipInv

LEMMA SyncFastForwardShips ==
    ASSUME LifecycleInv, ShipInv, SyncFastForward
    PROVE  ShipInv'
<1>1. remote \in 1..Len(commits)
  BY Parts
<1>2. main' = remote /\ work' = Tree(commits, remote)
  BY DEF SyncFastForward, SyncedHead, SyncedTree
<1>3. UNCHANGED <<commits, remote, branch, worktree, request>> /\ op' = Idle
  BY DEF SyncFastForward, atRemote, Synced
<1>4. Records(commits, work')
  BY <1>1, <1>2 DEF ShipInv, ShipGraph, ShipsAt
<1>5. BranchIs(commits, branch, remote, remote)
  BY DEF ShipInv, BranchIs
<1>6. ShipOp'
  BY <1>3 DEF ShipOp, Idle
<1>7. QED
  BY <1>2, <1>3, <1>4, <1>5, <1>6 DEF ShipInv

LEMMA MergeRequestShips ==
    ASSUME LifecycleInv, ShipInv, LifecycleInv', MergeRequest
    PROVE  ShipInv'
<1>1. /\ GraphOk(commits) /\ Len(commits) \in Nat \ {0} /\ remote \in 1..Len(commits) /\ request \in 0..Len(commits)
      /\ remote \in Ancestors(commits, remote) /\ Tree(commits, remote) \in Trees
  BY Parts
<1>2. UNCHANGED <<main, work, branch, worktree, op>> /\ request' = NoCommit
  BY DEF MergeRequest
<1>3. CASE UNCHANGED <<commits, remote, ci>>
  <2>1. /\ GraphOk(commits') /\ Extends(commits, commits') /\ remote' \in 1..Len(commits')
        /\ remote \in Ancestors(commits', remote') /\ ShipGraph(commits')
    BY <1>1, <1>3, GraphStays DEF ShipInv
  <2>2. QED
    BY <1>2, <2>1, RemoteShips
<1>4. CASE ~UNCHANGED <<commits, remote, ci>>
  <2>1. request \in 1..Len(commits)
    BY <1>1 DEF MergeRequest, NoCommit
  <2>2. PICK new : new = Introduced(commits, MergeBase(commits, remote, request), request)
    OBVIOUS
  <2>3. new \subseteq Tree(commits, request).product
    BY <2>2 DEF Introduced
  <2>4. PICK s : s = Tree(commits, remote)
    OBVIOUS
  <2>5. PICK t : t = [s EXCEPT !.product = @ \cup new]
    OBVIOUS
  <2>6. t.product = s.product \cup new /\ t.backlog = s.backlog
    BY <1>1, <2>4, <2>5 DEF Trees
  <2>7. PICK p : p = <<remote, request>>
    OBVIOUS
  <2>8. PICK h, n : h = commits' /\ n = Len(commits) + 1
    OBVIOUS
  <2>9. h = Append(commits, Child(commits, p, t)) /\ remote' = n
    BY <1>4, <2>2, <2>4, <2>5, <2>7, <2>8 DEF MergeRequest, NextId
  <2>10. Extends(commits, h) /\ Len(h) = Len(commits) + 1 /\ h[Len(commits) + 1] = Child(commits, p, t)
    BY <2>8, <2>9, OneMore
  <2>11. h[Len(commits) + 1].parents = <<remote, request>> /\ Tree(h, Len(commits) + 1) = t
    BY <2>7, <2>10 DEF Child, Tree
  <2>12. Records(commits, t)
    <3>1. Records(commits, s)
      BY <1>1, <2>4 DEF ShipInv, ShipGraph, ShipsAt
    <3>2. QED
      BY <2>6, <3>1, RecordsMore
  <2>13. GraphOk(h)
    BY <2>8 DEF LifecycleInv
  <2>14. ShipGraph(h)
    <3>1. ShipGraph(commits) /\ ProductCommit(commits, request)
      BY <1>1, <2>1 DEF ShipInv, NoCommit
    <3>2. t.product \subseteq Tree(commits, remote).product \cup Tree(commits, request).product
      BY <2>3, <2>4, <2>6
    <3>3. QED
      BY <1>1, <2>1, <2>10, <2>11, <2>12, <2>13, <3>1, <3>2, MergeShips
  <2>15. n \in 1..Len(h) /\ remote \in Ancestors(h, n)
    <3>1. n \in 1..Len(h)
      BY <1>1, <2>8, <2>10
    <3>2. PICK q : q = h[n].parents
      OBVIOUS
    <3>3. q = <<remote, request>>
      BY <2>8, <2>11, <3>2
    <3>4. q # <<>> /\ q[1] = remote
      BY <3>3
    <3>5. QED
      BY <2>13, <3>1, <3>2, <3>4, FirstParentBefore
  <2>16. QED
    BY <1>2, <2>8, <2>9, <2>10, <2>13, <2>14, <2>15, RemoteShips
<1>5. QED
  BY <1>3, <1>4

LEMMA ForeignPushShips ==
    ASSUME LifecycleInv, ShipInv, LifecycleInv', NEW file \in {"product", "REVIEW_RESULT"}, ForeignPush(file)
    PROVE  ShipInv'
<1>1. /\ GraphOk(commits) /\ Len(commits) \in Nat \ {0} /\ remote \in 1..Len(commits)
      /\ Tree(commits, remote) \in Trees
  BY Parts
<1>2. PICK s : s = Tree(commits, remote)
  OBVIOUS
<1>3. PICK t : t = IF file = "product" THEN [s EXCEPT !.product = @ \cup {"foreign"}] ELSE [s EXCEPT ![file] = "foreign"]
  OBVIOUS
<1>4. t.backlog = s.backlog /\ s.product \subseteq t.product
  BY <1>1, <1>2, <1>3 DEF Trees
<1>5. PICK h, n : h = commits' /\ n = Len(commits) + 1
  OBVIOUS
<1>6. h = Append(commits, Child(commits, <<remote>>, t)) /\ remote' = n
  BY <1>2, <1>3, <1>5 DEF ForeignPush, NextId
<1>7. Extends(commits, h) /\ Len(h) = Len(commits) + 1 /\ h[Len(commits) + 1] = Child(commits, <<remote>>, t)
  BY <1>5, <1>6, OneMore
<1>8. h[Len(commits) + 1].parents = <<remote>> /\ Tree(h, Len(commits) + 1) = t
  BY <1>7 DEF Child, Tree
<1>9. Records(commits, t)
  <2>1. Records(commits, s)
    BY <1>1, <1>2 DEF ShipInv, ShipGraph, ShipsAt
  <2>2. QED
    BY <1>4, <2>1, RecordsMore
<1>10. GraphOk(h)
  BY <1>5 DEF LifecycleInv
<1>11. ShipGraph(h)
  BY <1>1, <1>7, <1>8, <1>9, <1>10, PlainShips DEF ShipInv
<1>12. n \in 1..Len(h) /\ remote \in Ancestors(h, n)
  <2>1. n \in 1..Len(h)
    BY <1>1, <1>5, <1>7
  <2>2. PICK q : q = h[n].parents
    OBVIOUS
  <2>3. q = <<remote>>
    BY <1>5, <1>8, <2>2
  <2>4. q # <<>> /\ q[1] = remote
    BY <2>3
  <2>5. QED
    BY <1>10, <2>1, <2>2, <2>4, FirstParentBefore
<1>13. UNCHANGED <<main, work, branch, worktree, op, request>>
  BY DEF ForeignPush
<1>14. QED
  BY <1>5, <1>6, <1>7, <1>10, <1>11, <1>12, <1>13, RemoteShips

LEMMA InitShips == Init => ShipInv
<1> SUFFICES ASSUME Init PROVE ShipInv
  OBVIOUS
<1> DEFINE first == [parents |-> <<>>, tree |-> Absent, ancestors |-> {1}]
<1>1. commits = <<first>>
  BY DEF Init
<1> HIDE DEF first
<1>2. Len(commits) = 1 /\ commits[1] = first
  BY <1>1
<1>3. Tree(commits, 1) = Absent /\ commits[1].parents = <<>>
  BY <1>2 DEF Tree, first
<1>4. ~IsMerge(commits, 1)
  <2>1. PICK p : p = commits[1].parents
    OBVIOUS
  <2>2. p = <<>>
    BY <1>3, <2>1
  <2>3. Len(p) = 0
    BY <2>2
  <2>4. QED
    BY <2>1, <2>3 DEF IsMerge
<1>5. Records(commits, Absent)
  BY DEF Records, Absent, Scaffold
<1>6. ShipGraph(commits)
  BY <1>2, <1>3, <1>4, <1>5 DEF ShipGraph, ShipsAt
<1>7. ShipOp
  BY DEF Init, ShipOp, Idle
<1>8. QED
  BY <1>3, <1>5, <1>6, <1>7 DEF Init, ShipInv, BranchIs, DevChanges

LEMMA NextShips == LifecycleInv /\ ShipInv /\ LifecycleInv' /\ [Next]_vars => ShipInv'
<1> SUFFICES ASSUME LifecycleInv, ShipInv, LifecycleInv', [Next]_vars PROVE ShipInv'
  OBVIOUS
<1>1. CASE Agents
  BY <1>1, AgentsShip
<1>2. CASE Scripts
  BY <1>2, PushIsChoice, TaskStartShips, EvidenceShips, CandidateShips, CompletionMergeShips, TaskPrShips,
     PostMergeShips, SyncFastForwardShips, SyncDoneShips, SyncCleanupShips DEF Scripts
<1>3. CASE Continuations
  <2>1. CASE PushAccepted
    BY <2>1, PublishedShips DEF PushAccepted, Land, Idle
  <2>2. CASE PushFailed
    BY <2>2, PushFailedShips
  <2>3. CASE CompletionCommit
    BY <2>3, CompletionCommitShips
  <2>4. CASE CompletionInvalid \/ CompletionHookRefuses
    <3>1. PICK staged : "product" \in staged /\ CompletionAbort(staged) /\ op.kind = "merging"
      BY <2>4 DEF CompletionInvalid, CompletionHookRefuses, Files
    <3>2. main' = op.before /\ work' = op.start
      BY <3>1, AbortPutsBack
    <3>3. QED
      BY <3>1, <3>2, PutBackShips DEF CompletionAbort, atRemote
  <2>5. CASE CompletionPushed \/ CompletionReconciled
    BY <2>5, PublishedShips DEF CompletionPushed, CompletionReconciled, Land, Idle
  <2>6. CASE \E seen \in {remote, NoCommit} : CompletionPushFailed(seen)
    BY <2>6, CompletionPushFailedShips
  <2>7. CASE SyncStops
    <3>1. UNCHANGED <<commits, main, remote, work, branch, worktree, request>> /\ op' = Idle
      BY <2>7 DEF SyncStops, atRemote
    <3>2. ShipOp'
      BY <3>1 DEF ShipOp, Idle
    <3>3. QED
      BY <3>1, <3>2 DEF ShipInv
  <2>8. QED
    BY <1>3, <2>1, <2>2, <2>3, <2>4, <2>5, <2>6, <2>7 DEF Continuations
<1>4. CASE Elsewhere
  BY <1>4, MergeRequestShips, ForeignPushShips DEF Elsewhere
<1>5. CASE UNCHANGED vars
  <2>1. /\ GraphOk(commits') /\ Extends(commits, commits') /\ remote' \in 1..Len(commits')
        /\ remote \in Ancestors(commits', remote') /\ ShipGraph(commits')
    BY <1>5, Parts, GraphStays DEF vars, ShipInv
  <2>2. QED
    BY <1>5, <2>1, RemoteShips DEF vars
<1>6. QED
  BY <1>1, <1>2, <1>3, <1>4, <1>5 DEF Next

\* The merge by which the candidate came to main: the one that is recorded, or
\* the one that the check has found or that was made without it.
LEMMA DoneShips ==
    ASSUME LifecycleInv, ValidInv, ShipInv
    PROVE  DoneShipsCandidate
<1>1. GraphOk(commits) /\ DOMAIN commits = 1..Len(commits) /\ Len(commits) \in Nat /\ remote \in 1..Len(commits)
  BY Parts
<1>2. PICK tree : tree = Tree(commits, remote)
  OBVIOUS
<1>3. PICK merged : merged = tree.backlog.merged
  OBVIOUS
<1>4. PICK cand : cand = IF merged = NoCommit THEN tree.HANDOVER.cand ELSE commits[merged].parents[2]
  OBVIOUS
<1>5. SUFFICES ASSUME tree.backlog.status = "done"
               PROVE  /\ cand # NoCommit
                      /\ ChangedFiles(Tree(commits, commits[cand].parents[1]), Tree(commits, cand)) = {"product"}
                      /\ Tree(commits, cand).product \subseteq tree.product
                      /\ merged = NoCommit => Cardinality(MergesOf(commits, remote, cand)) = 1
  BY <1>2, <1>3, <1>4, Zenon DEF DoneShipsCandidate
<1>6. ASSUME ProductCommit(commits, cand)
      PROVE  /\ cand # NoCommit
             /\ ChangedFiles(Tree(commits, commits[cand].parents[1]), Tree(commits, cand)) = {"product"}
  <2>1. cand # NoCommit
    BY <1>1, <1>6 DEF ProductCommit, NoCommit
  <2>2. PICK p : commits[cand].parents = <<p>> /\ ChangedFiles(Tree(commits, p), Tree(commits, cand)) = {"product"}
    BY <1>6 DEF ProductCommit, StepFrom
  <2>3. PICK q : q = commits[cand].parents
    OBVIOUS
  <2>4. q = <<p>>
    BY <2>2, <2>3
  <2>5. q[1] = p
    BY <2>4
  <2>6. QED
    BY <2>1, <2>2, <2>3, <2>5
<1>7. CASE merged # NoCommit
  <2>1. Records(commits, tree)
    BY <1>1, <1>2 DEF ShipInv, ShipGraph, ShipsAt
  <2>2. merged \in 1..Len(commits) /\ IsMerge(commits, merged) /\ Tree(commits, cand).product \subseteq tree.product
    BY <1>1, <1>3, <1>4, <1>7, <2>1 DEF Records
  <2>3. ProductCommit(commits, cand)
    BY <1>4, <1>7, <2>2 DEF ShipInv, ShipGraph, ShipsAt
  <2>4. QED
    BY <1>6, <1>7, <2>2, <2>3
<1>8. CASE merged = NoCommit
  <2>5. cand = tree.HANDOVER.cand
    BY <1>4, <1>8
  <2>6. Cardinality(MergesOf(commits, remote, cand)) = 1
    BY <1>2, <1>3, <1>5, <1>8, <2>5, Zenon DEF ValidInv, SoundAt, BoundAt
  <2>7. PICK m : m \in MergesOf(commits, remote, cand)
    <3>1. MergesOf(commits, remote, cand) # {}
      BY <2>6, FS_EmptySet
    <3>2. QED
      BY <3>1
  <2>8. /\ m \in 1..Len(commits) /\ IsMerge(commits, m) /\ commits[m].parents[2] = cand
        /\ cand \in Ancestors(commits, remote)
    BY <1>1, <2>7, MergesBelow
  <2>9. ProductCommit(commits, cand)
    BY <2>8 DEF ShipInv, ShipGraph, ShipsAt
  <2>10. Tree(commits, cand).product \subseteq tree.product
    BY <1>1, <1>2, <2>8, GraphFacts
  <2>11. QED
    BY <1>6, <2>6, <2>9, <2>10
<1>9. QED
  BY <1>7, <1>8

\* A Task that is published as done has shipped: its candidate is one commit of
\* the product and its change is in the published product, brought by the one
\* merge of it on main or by the one that post-merge has recorded.
THEOREM DoneShipsCandidateHolds == Spec => []DoneShipsCandidate
<1>1. LifecycleInv /\ ValidInv /\ ShipInv => DoneShipsCandidate
  BY DoneShips
<1>2. Spec => [](LifecycleInv /\ ValidInv /\ ShipInv)
  BY InitLifecycle, InitValid, InitShips, NextLifecycle, NextIsValid, NextShips, PTL DEF Spec
<1>3. QED
  BY <1>1, <1>2, PTL
=============================================================================
