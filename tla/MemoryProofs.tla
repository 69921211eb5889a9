---------------------------- MODULE MemoryProofs ----------------------------
(***************************************************************************)
(* What Memory promises for every number of tasks, pages and addresses and *)
(* every mix of fork, exec, faults, sharing, exit and lack of memory.      *)
(*                                                                         *)
(* The inductive invariant counts the places that refer to a page (Counted)*)
(* and adds what each label relies on (Control) and which places must be   *)
(* the only user of their page (Sole); WritableUnshared is a part of that. *)
(***************************************************************************)
EXTENDS Memory, FiniteSetTheorems, NaturalsInduction, WellFoundedInduction, TLAPS

\* The task has no address space and no page on its way into one.
Empty(t) ==
    /\ held[t] = NULL
    /\ \A d \in Dirs : dir[t][d] = NULL
    /\ \A a \in Addrs : pte[t][a] = NULL

\* The task sleeps with a page it has not yet mapped.
Loading(t) == pc[t][1] \in {"load", "kernel_load", "exec"}

\* What the label of a task says of its variables.
ControlOf(t) ==
    /\ Loading(t) <=> held[t] # NULL
    /\ Loading(t) => executable[t] # NULL
    /\ pc[t][1] \in {"load", "kernel_load"} => pte[t][pc[t][2]] = NULL
    /\ struct[t] = NULL => pc[t] = User /\ Empty(t)
    /\ pc[t][1] = "zombie" => Empty(t)
    /\ pc[t][1] = "exec" => dir[t][DirOf[Stack]] # NULL
    /\ \A a \in Addrs : pte[t][a] # NULL => dir[t][DirOf[a]] # NULL

Control == \A t \in Tasks : ControlOf(t)

\* m[g] is the number of places that refer to page g, f giving the page of
\* each place.
Counts(f, m) == \A g \in Pages : m[g] = Cardinality({y \in Places : f[y] = g})

\* The page of each place.
Map == [x \in Places |-> PageAt(x)]

Counted == Counts(Map, mem_map)

\* Page tables, task structures, pages being loaded and writable pages have no
\* other user.
Exclusive(x) == x[1] = "pte" => pte[x[2]][x[3]].rw
Sole == \A x \in Places : Map[x] # NULL /\ Exclusive(x) => mem_map[Map[x]] = 1

IInv == TypeOK /\ Control /\ Counted /\ Sole

\* Task t finds at address a what it must, or has yet to get a page of zeroes
\* there, and what verify_area has made writable is still so.
Own(t, a) ==
    /\ pte[t][a] # NULL => contents[pte[t][a].page] = mem[t][a]
    /\ pte[t][a] = NULL => mem[t][a] = "zero"
    /\ pc[t] \in {<<"verified", a>>, <<"retry", a>>} /\ pte[t][a] # NULL => pte[t][a].rw

\* ForkIsolation as an inductive invariant, together with IInv.
Isolated ==
    ~execed => /\ \A t \in Tasks : executable[t] = NULL /\ held[t] = NULL
               /\ \A t \in Tasks, a \in Addrs : Own(t, a)
-----------------------------------------------------------------------------
\* A set of naturals that has an element has a least one.
LEMMA LeastNatural ==
    ASSUME NEW T \in SUBSET Nat, T # {}
    PROVE  \E x \in T : \A y \in T : x <= y
  <1>1. PICK x \in T : \A y \in T : ~(<<y, x>> \in OpToRel(<, Nat))
    BY NatLessThanWellFounded, WFMin
  <1>2. ASSUME NEW y \in T, ~(x <= y) PROVE FALSE
    <2>1. x \in Nat /\ y \in Nat /\ y < x
      BY <1>2
    <2>2. <<y, x>> \in OpToRel(<, Nat)
      BY <2>1 DEF OpToRel
    <2> QED BY <2>2, <1>1
  <1> QED BY <1>2

\* A finite set of naturals with at least n elements has an n-th one from
\* above.  (The element with the fewest above it, of those with n - 1 or more:
\* the next one up would otherwise do, too.)
LEMMA NthFromAbove ==
    ASSUME NEW F \in SUBSET Nat, IsFiniteSet(F), NEW n \in Nat \ {0}, Cardinality(F) >= n
    PROVE  \E g \in F : Cardinality({h \in F : h > g}) = n - 1
  <1> DEFINE Above(g) == {h \in F : h > g}
             T == {g \in F : Cardinality(Above(g)) >= n - 1}
             C == {k \in Nat : \E g \in T : k = Cardinality(Above(g))}
  <1>0. \A y \in F : y \in Nat
    OBVIOUS
  <1>1. ASSUME NEW g PROVE IsFiniteSet(Above(g)) /\ Cardinality(Above(g)) \in Nat
    BY FS_Subset, FS_CardinalityType
  <1>2. Cardinality(F) \in Nat
    BY FS_CardinalityType
  <1>3. T # {}
    <2>1. F # {}
      BY <1>2, FS_EmptySet
    <2>2. PICK g \in F : \A y \in F : g <= y
      BY <2>1, LeastNatural
    <2>3. Above(g) = F \ {g}
      <3>1. \A y \in F : y > g <=> y # g
        BY <1>0, <2>2
      <3> QED BY <3>1
    <2>4. Cardinality(F \ {g}) = Cardinality(F) - 1
      BY <2>2, FS_RemoveElement
    <2>5. Cardinality(Above(g)) >= n - 1
      BY <1>2, <2>3, <2>4
    <2> QED BY <2>2, <2>5
  <1>4. PICK k \in C : \A j \in C : k <= j
    <2>1. C # {} /\ C \in SUBSET Nat
      BY <1>1, <1>3
    <2> QED BY <2>1, LeastNatural
  <1>5. PICK g \in T : k = Cardinality(Above(g))
    BY <1>4
  <1>6. k >= n - 1 /\ k \in Nat
    BY <1>4, <1>5
  <1>7. CASE k = n - 1
    BY <1>5, <1>7
  <1>8. CASE k > n - 1
    <2>1. Above(g) # {} /\ Above(g) \in SUBSET Nat
      <3>1. k # 0
        BY <1>6, <1>8
      <3> QED BY <3>1, <1>5, FS_EmptySet
    <2>2. PICK h \in Above(g) : \A y \in Above(g) : h <= y
      BY <2>1, LeastNatural
    <2>3. Above(h) = Above(g) \ {h} /\ h \in F
      <3>1. h \in F /\ g \in F /\ h > g
        BY <2>2
      <3>2. \A y \in F : y > h <=> y > g /\ y # h
        BY <1>0, <2>2, <3>1
      <3> QED BY <3>1, <3>2
    <2>4. Cardinality(Above(h)) = k - 1
      <3> HIDE DEF Above
      <3>1. Cardinality(Above(g) \ {h}) = Cardinality(Above(g)) - 1
        BY <2>2, <1>1, FS_RemoveElement
      <3> QED BY <2>3, <1>5, <3>1
    <2>5. h \in T /\ k - 1 \in C
      <3>1. k - 1 >= n - 1 /\ k - 1 \in Nat
        BY <1>6, <1>8
      <3> HIDE DEF Above
      <3> QED BY <2>3, <2>4, <3>1
    <2>6. k <= k - 1
      BY <2>5, <1>4
    <2> QED BY <2>6, <1>6
  <1> QED BY <1>6, <1>7, <1>8

\* get_free_page finds a page while there is one, and different ones in a row.
LEMMA FreePageIs ==
    ASSUME NEW n \in Nat \ {0}, Available(n)
    PROVE  /\ FreePage(n) \in FreePages
           /\ Cardinality({h \in FreePages : h > FreePage(n)}) = n - 1
  <1>1. FreePages \in SUBSET Nat /\ IsFiniteSet(FreePages)
    BY MemoryConstants, FS_Subset DEF FreePages
  <1>2. \E g \in FreePages : Cardinality({h \in FreePages : h > g}) = n - 1
    BY <1>1, NthFromAbove DEF Available
  <1> QED BY <1>2 DEF FreePage

\* What was available is when fewer pages are asked for.
LEMMA FewerAvailable ==
    ASSUME NEW n \in Nat, NEW k \in Nat, Available(n), k <= n
    PROVE  Available(k)
  <1>1. Cardinality(FreePages) \in Nat
    BY MemoryConstants, FS_Subset, FS_CardinalityType DEF FreePages
  <1> QED BY <1>1 DEF Available
-----------------------------------------------------------------------------
\* The triples of three finite sets are finitely many.
LEMMA FiniteTriples ==
    ASSUME NEW A, NEW B, NEW C, IsFiniteSet(A), IsFiniteSet(B), IsFiniteSet(C)
    PROVE  IsFiniteSet(A \X B \X C)
  <1> DEFINE f == [x \in A \X B \X C |-> <<x[1], <<x[2], x[3]>>>>]
  <1>1. f \in Injection(A \X B \X C, A \X (B \X C))
    BY DEF Injection, IsInjective
  <1>2. IsFiniteSet(A \X (B \X C))
    BY FS_Product
  <1> QED BY <1>1, <1>2, FS_Injection

\* There are finitely many places.
LEMMA FinitePlaces ==
    ASSUME NEW S \in SUBSET Places
    PROVE  IsFiniteSet(S) /\ Cardinality(S) \in Nat
  <1>1. IsFiniteSet(Places)
    <2>1. /\ IsFiniteSet({"pte"}) /\ IsFiniteSet({"dir"}) /\ IsFiniteSet({NULL})
          /\ IsFiniteSet({"struct"} \cup {"held"})
      BY FS_Singleton, FS_Union
    <2>2. {"struct", "held"} = {"struct"} \cup {"held"}
      OBVIOUS
    <2>3. /\ IsFiniteSet({"pte"} \X Tasks \X Addrs) /\ IsFiniteSet({"dir"} \X Tasks \X Dirs)
          /\ IsFiniteSet({"struct", "held"} \X Tasks \X {NULL})
      BY <2>1, <2>2, FiniteTriples, MemoryConstants
    <2> QED BY <2>3, FS_Union DEF Places
  <1> QED BY <1>1, FS_Subset, FS_CardinalityType

\* What the places are.
LEMMA PlaceForms ==
    ASSUME NEW x
    PROVE  x \in Places <=>
             \/ \E t \in Tasks, a \in Addrs : x = <<"pte", t, a>>
             \/ \E t \in Tasks, d \in Dirs : x = <<"dir", t, d>>
             \/ \E t \in Tasks : x = <<"struct", t, NULL>>
             \/ \E t \in Tasks : x = <<"held", t, NULL>>
  BY DEF Places

\* The page of each place, before and after a step.
LEMMA MapIs ==
    /\ \A t \in Tasks, a \in Addrs :
          /\ <<"pte", t, a>> \in Places
          /\ Map[<<"pte", t, a>>] = IF pte[t][a] # NULL THEN pte[t][a].page ELSE NULL
          /\ Map'[<<"pte", t, a>>] = IF pte'[t][a] # NULL THEN pte'[t][a].page ELSE NULL
    /\ \A t \in Tasks, d \in Dirs :
          /\ <<"dir", t, d>> \in Places
          /\ Map[<<"dir", t, d>>] = dir[t][d] /\ Map'[<<"dir", t, d>>] = dir'[t][d]
    /\ \A t \in Tasks :
          /\ <<"struct", t, NULL>> \in Places /\ <<"held", t, NULL>> \in Places
          /\ Map[<<"struct", t, NULL>>] = struct[t] /\ Map'[<<"struct", t, NULL>>] = struct'[t]
          /\ Map[<<"held", t, NULL>>] = held[t] /\ Map'[<<"held", t, NULL>>] = held'[t]
  <1>1. ASSUME NEW t \in Tasks, NEW a \in Addrs
        PROVE  /\ <<"pte", t, a>> \in Places
               /\ Map[<<"pte", t, a>>] = IF pte[t][a] # NULL THEN pte[t][a].page ELSE NULL
               /\ Map'[<<"pte", t, a>>] = IF pte'[t][a] # NULL THEN pte'[t][a].page ELSE NULL
    <2>1. <<"pte", t, a>> \in Places
      BY PlaceForms
    <2> QED BY <2>1 DEF Map, PageAt, Present
  <1>2. ASSUME NEW t \in Tasks, NEW d \in Dirs
        PROVE  /\ <<"dir", t, d>> \in Places
               /\ Map[<<"dir", t, d>>] = dir[t][d] /\ Map'[<<"dir", t, d>>] = dir'[t][d]
    <2>1. <<"dir", t, d>> \in Places
      BY PlaceForms
    <2> QED BY <2>1 DEF Map, PageAt
  <1>3. ASSUME NEW t \in Tasks
        PROVE  /\ <<"struct", t, NULL>> \in Places /\ <<"held", t, NULL>> \in Places
               /\ Map[<<"struct", t, NULL>>] = struct[t] /\ Map'[<<"struct", t, NULL>>] = struct'[t]
               /\ Map[<<"held", t, NULL>>] = held[t] /\ Map'[<<"held", t, NULL>>] = held'[t]
    <2>1. <<"struct", t, NULL>> \in Places /\ <<"held", t, NULL>> \in Places
      BY PlaceForms
    <2> QED BY <2>1 DEF Map, PageAt
  <1> QED BY <1>1, <1>2, <1>3

\* A place that referred to no page now refers to g.
LEMMA CountOneMore ==
    ASSUME NEW f, NEW h, NEW m, NEW n, NEW x \in Places, NEW g \in Pages,
           Counts(f, m), f[x] \notin Pages, h[x] = g, \A y \in Places \ {x} : h[y] = f[y],
           n[g] = m[g] + 1, \A k \in Pages \ {g} : n[k] = m[k]
    PROVE  Counts(h, n)
  <1> SUFFICES ASSUME NEW k \in Pages
               PROVE  n[k] = Cardinality({y \in Places : h[y] = k})
    BY DEF Counts
  <1> DEFINE S == {y \in Places : f[y] = k}
  <1>1. m[k] = Cardinality(S) /\ IsFiniteSet(S)
    <2>1. m[k] = Cardinality(S)
      BY DEF Counts
    <2>2. IsFiniteSet(S) /\ Cardinality(S) \in Nat
      BY FinitePlaces
    <2> QED BY <2>1, <2>2
  <1>2. CASE k = g
    <2>1. {y \in Places : h[y] = k} = S \cup {x} /\ x \notin S
      BY <1>2
    <2>2. Cardinality(S \cup {x}) = Cardinality(S) + 1
      BY <1>1, <2>1, FS_AddElement
    <2> QED BY <1>1, <1>2, <2>1, <2>2
  <1>3. CASE k # g
    <2>1. {y \in Places : h[y] = k} = S
      BY <1>3
    <2> QED BY <1>1, <1>3, <2>1
  <1> QED BY <1>2, <1>3

\* A place that referred to g now refers to no page.
LEMMA CountOneLess ==
    ASSUME NEW f, NEW h, NEW m, NEW n, NEW x \in Places, NEW g \in Pages,
           Counts(f, m), f[x] = g, h[x] \notin Pages, \A y \in Places \ {x} : h[y] = f[y],
           n[g] = m[g] - 1, \A k \in Pages \ {g} : n[k] = m[k]
    PROVE  Counts(h, n)
  <1> SUFFICES ASSUME NEW k \in Pages
               PROVE  n[k] = Cardinality({y \in Places : h[y] = k})
    BY DEF Counts
  <1> DEFINE S == {y \in Places : f[y] = k}
  <1>1. m[k] = Cardinality(S) /\ IsFiniteSet(S)
    <2>1. m[k] = Cardinality(S)
      BY DEF Counts
    <2>2. IsFiniteSet(S) /\ Cardinality(S) \in Nat
      BY FinitePlaces
    <2> QED BY <2>1, <2>2
  <1>2. CASE k = g
    <2>1. {y \in Places : h[y] = k} = S \ {x} /\ x \in S
      BY <1>2
    <2>2. Cardinality(S \ {x}) = Cardinality(S) - 1
      BY <1>1, <2>1, FS_RemoveElement
    <2> QED BY <1>1, <1>2, <2>1, <2>2
  <1>3. CASE k # g
    <2>1. {y \in Places : h[y] = k} = S
      BY <1>3
    <2> QED BY <1>1, <1>3, <2>1
  <1> QED BY <1>2, <1>3

\* Counts depend on the page of each place only.
LEMMA CountsSame ==
    ASSUME NEW f, NEW h, NEW m, NEW n, Counts(f, m),
           \A x \in Places : h[x] = f[x], \A g \in Pages : n[g] = m[g]
    PROVE  Counts(h, n)
  <1> SUFFICES ASSUME NEW k \in Pages
               PROVE  n[k] = Cardinality({y \in Places : h[y] = k})
    BY DEF Counts
  <1>1. {y \in Places : h[y] = k} = {y \in Places : f[y] = k}
    OBVIOUS
  <1>2. m[k] = Cardinality({y \in Places : f[y] = k})
    BY DEF Counts
  <1> QED BY <1>1, <1>2

\* What exact counts say of the users of a page.
LEMMA CountsSay ==
    ASSUME NEW f, NEW m, Counts(f, m), NEW g \in Pages
    PROVE  /\ m[g] \in Nat
           /\ \A x \in Places : f[x] = g => m[g] >= 1
           /\ m[g] = 1 => \A x, y \in Places : f[x] = g /\ f[y] = g => x = y
  <1> DEFINE S == {y \in Places : f[y] = g}
  <1>1. m[g] = Cardinality(S) /\ IsFiniteSet(S) /\ Cardinality(S) \in Nat
    <2>1. m[g] = Cardinality(S)
      BY DEF Counts
    <2>2. IsFiniteSet(S) /\ Cardinality(S) \in Nat
      BY FinitePlaces
    <2> QED BY <2>1, <2>2
  <1>2. S # {} => Cardinality(S) # 0
    BY <1>1, FS_EmptySet
  <1>3. Cardinality(S) = 1 => \E z : S = {z}
    BY <1>1, FS_Singleton
  <1>4. \A x \in Places : f[x] = g => m[g] >= 1
    BY <1>1, <1>2
  <1>5. m[g] = 1 => \A x, y \in Places : f[x] = g /\ f[y] = g => x = y
    BY <1>1, <1>3
  <1> QED BY <1>1, <1>4, <1>5
\* As many places as there are addresses in them.
LEMMA PlacesOfTask ==
    ASSUME NEW tag, NEW t, NEW A, IsFiniteSet(A), NEW P,
           \A y : y \in P <=> \E a \in A : y = <<tag, t, a>>
    PROVE  IsFiniteSet(P) /\ Cardinality(P) = Cardinality(A) /\ Cardinality(A) \in Nat
  <1> DEFINE f == [a \in A |-> <<tag, t, a>>]
  <1>1. f \in Bijection(A, P)
    <2>1. f \in [A -> P]
      OBVIOUS
    <2>2. \A a, b \in A : f[a] = f[b] => a = b
      OBVIOUS
    <2>3. \A y \in P : \E a \in A : f[a] = y
      OBVIOUS
    <2> QED BY <2>1, <2>2, <2>3 DEF Bijection, Injection, Surjection, IsInjective
  <1>2. ExistsBijection(A, P)
    BY <1>1 DEF ExistsBijection
  <1> QED BY <1>2, FS_Bijection, FS_CardinalityType

\* The places of t's address space.
Space(t) == {x \in Places : x[1] \in {"pte", "dir"} /\ x[2] = t}

\* How often t's address space refers to a page is a natural number, the
\* number of its places that do.
LEMMA RefsIs ==
    ASSUME NEW t \in Tasks, NEW g \in Pages
    PROVE  /\ Refs(t, g) = Cardinality({x \in Space(t) : Map[x] = g})
           /\ Refs(t, g) \in Nat
  <1> DEFINE A == {a \in Addrs : Present(t, a) /\ pte[t][a].page = g}
             D == {d \in Dirs : dir[t][d] = g}
             P == {x \in Space(t) : x[1] = "pte" /\ Map[x] = g}
             Q == {x \in Space(t) : x[1] = "dir" /\ Map[x] = g}
             T == {x \in Space(t) : Map[x] = g}
  <1>1. IsFiniteSet(A) /\ IsFiniteSet(D)
    BY MemoryConstants, FS_Subset
  <1>2. ASSUME NEW y PROVE y \in P <=> \E a \in A : y = <<"pte", t, a>>
    <2>1. ASSUME y \in P PROVE \E a \in A : y = <<"pte", t, a>>
      <3>1. PICK a \in Addrs : y = <<"pte", t, a>>
        BY <2>1, PlaceForms DEF Space
      <3>2. Present(t, a) /\ pte[t][a].page = g
        BY <2>1, <3>1, MapIs, MemoryConstants DEF Present
      <3> QED BY <3>1, <3>2
    <2>2. ASSUME NEW a \in A, y = <<"pte", t, a>> PROVE y \in P
      <3>1. y \in Places /\ Map[y] = g
        BY <2>2, MapIs DEF Present
      <3> QED BY <2>2, <3>1 DEF Space
    <2> QED BY <2>1, <2>2
  <1>3. ASSUME NEW y PROVE y \in Q <=> \E d \in D : y = <<"dir", t, d>>
    <2>1. ASSUME y \in Q PROVE \E d \in D : y = <<"dir", t, d>>
      <3>1. PICK d \in Dirs : y = <<"dir", t, d>>
        BY <2>1, PlaceForms DEF Space
      <3>2. dir[t][d] = g
        BY <2>1, <3>1, MapIs
      <3> QED BY <3>1, <3>2
    <2>2. ASSUME NEW d \in D, y = <<"dir", t, d>> PROVE y \in Q
      <3>1. y \in Places /\ Map[y] = g
        BY <2>2, MapIs
      <3> QED BY <2>2, <3>1 DEF Space
    <2> QED BY <2>1, <2>2
  <1>4. Refs(t, g) = Cardinality(A) + Cardinality(D)
    BY DEF Refs
  <1>5. T = P \cup Q /\ P \cap Q = {}
    BY DEF Space
  <1> HIDE DEF A, D, P, Q
  <1>6. IsFiniteSet(P) /\ Cardinality(P) = Cardinality(A) /\ Cardinality(A) \in Nat
    BY <1>1, <1>2, PlacesOfTask
  <1>7. IsFiniteSet(Q) /\ Cardinality(Q) = Cardinality(D) /\ Cardinality(D) \in Nat
    BY <1>1, <1>3, PlacesOfTask
  <1>8. Cardinality(P \cup Q) = Cardinality(P) + Cardinality(Q) - Cardinality({})
    BY <1>5, <1>6, <1>7, FS_Union
  <1>9. Cardinality({}) = 0
    BY FS_EmptySet
  <1>10. Refs(t, g) = Cardinality(T) /\ Refs(t, g) \in Nat
    <2> HIDE DEF T
    <2> QED BY <1>4, <1>5, <1>6, <1>7, <1>8, <1>9
  <1> QED BY <1>10

\* free_page_tables on all of t's space takes its references off the counts.
LEMMA CountWithoutSpace ==
    ASSUME NEW t \in Tasks, Counted, NEW h, NEW n,
           \A x \in Places : h[x] = IF x \in Space(t) THEN NULL ELSE Map[x],
           \A g \in Pages : n[g] = mem_map[g] - Refs(t, g)
    PROVE  Counts(h, n)
  <1> SUFFICES ASSUME NEW g \in Pages
               PROVE  n[g] = Cardinality({x \in Places : h[x] = g})
    BY DEF Counts
  <1> DEFINE S == {x \in Places : Map[x] = g}
             T == {x \in Space(t) : Map[x] = g}
  <1>1. mem_map[g] = Cardinality(S)
    BY DEF Counted, Counts
  <1>2. Refs(t, g) = Cardinality(T)
    BY RefsIs
  <1>3. S \cap T = T
    BY DEF Space
  <1>4. {x \in Places : h[x] = g} = S \ T
    BY MemoryConstants DEF Space
  <1>5. IsFiniteSet(S)
    BY FinitePlaces
  <1> HIDE DEF S, T
  <1>6. Cardinality(S \ T) = Cardinality(S) - Cardinality(S \cap T)
    BY <1>5, FS_Difference
  <1> QED BY <1>1, <1>2, <1>3, <1>4, <1>6

-----------------------------------------------------------------------------
\* The variables of a task that its label speaks of; of another task's entries
\* it matters only whether they are present.
SameFor(t) ==
    /\ held'[t] = held[t] /\ executable'[t] = executable[t] /\ pc'[t] = pc[t]
    /\ struct'[t] = struct[t] /\ dir'[t] = dir[t]
    /\ \A a \in Addrs : pte'[t][a] = NULL <=> pte[t][a] = NULL

\* The entries of a page table are taken by the label's address.
LEMMA LabelAddress ==
    ASSUME NEW l \in Labels
    PROVE  /\ l[1] \in {"load", "kernel_load", "verified", "retry"} => l[2] \in Addrs /\ l = <<l[1], l[2]>>
           /\ l[1] = "exec" => l = <<"exec", NULL>>
           /\ l[1] = "zombie" => l = <<"zombie", NULL>>
           /\ l[1] = "user" => l = User
           /\ l[1] \in {"load", "kernel_load", "verified", "retry", "exec", "zombie", "user"}
  BY DEF Labels, User

\* What a label says of a task changes with that task only.
LEMMA LocalControl ==
    ASSUME TypeOK, Control, NEW t \in Tasks, \A q \in Tasks \ {t} : SameFor(q), ControlOf(t)'
    PROVE  Control'
  <1> SUFFICES ASSUME NEW q \in Tasks, q # t
               PROVE  ControlOf(q)'
    BY DEF Control
  <1>1. ControlOf(q) /\ SameFor(q)
    BY DEF Control
  <1>2. Empty(q) <=> Empty(q)'
    BY <1>1 DEF SameFor, Empty
  <1>3. pc[q][1] \in {"load", "kernel_load"} => pc[q][2] \in Addrs
    BY LabelAddress DEF TypeOK
  <1> QED
    BY <1>1, <1>2, <1>3 DEF SameFor, ControlOf, Loading

\* Every place refers to a page or to none.
LEMMA MapType ==
    /\ TypeOK => \A x \in Places : Map[x] \in Pages \cup {NULL}
    /\ TypeOK' => \A x \in Places : Map'[x] \in Pages \cup {NULL}
  <1>1. ASSUME TypeOK, NEW x \in Places PROVE Map[x] \in Pages \cup {NULL}
    <2>1. CASE \E t \in Tasks, a \in Addrs : x = <<"pte", t, a>>
      BY <1>1, <2>1, MapIs DEF TypeOK, Entries
    <2>2. CASE \E t \in Tasks, d \in Dirs : x = <<"dir", t, d>>
      BY <1>1, <2>2, MapIs DEF TypeOK
    <2>3. CASE \E t \in Tasks : x = <<"struct", t, NULL>>
      <3>1. PICK t \in Tasks : x = <<"struct", t, NULL>>
        BY <2>3
      <3>2. Map[x] = struct[t]
        BY <3>1, MapIs
      <3> QED BY <1>1, <3>2 DEF TypeOK
    <2>4. CASE \E t \in Tasks : x = <<"held", t, NULL>>
      <3>1. PICK t \in Tasks : x = <<"held", t, NULL>>
        BY <2>4
      <3>2. Map[x] = held[t]
        BY <3>1, MapIs
      <3> QED BY <1>1, <3>2 DEF TypeOK
    <2> QED BY <2>1, <2>2, <2>3, <2>4, PlaceForms
  <1>2. ASSUME TypeOK', NEW x \in Places PROVE Map'[x] \in Pages \cup {NULL}
    <2>1. CASE \E t \in Tasks, a \in Addrs : x = <<"pte", t, a>>
      BY <1>2, <2>1, MapIs DEF TypeOK, Entries
    <2>2. CASE \E t \in Tasks, d \in Dirs : x = <<"dir", t, d>>
      BY <1>2, <2>2, MapIs DEF TypeOK
    <2>3. CASE \E t \in Tasks : x = <<"struct", t, NULL>>
      <3>1. PICK t \in Tasks : x = <<"struct", t, NULL>>
        BY <2>3
      <3>2. Map'[x] = struct'[t]
        BY <3>1, MapIs
      <3> QED BY <1>2, <3>2 DEF TypeOK
    <2>4. CASE \E t \in Tasks : x = <<"held", t, NULL>>
      <3>1. PICK t \in Tasks : x = <<"held", t, NULL>>
        BY <2>4
      <3>2. Map'[x] = held'[t]
        BY <3>1, MapIs
      <3> QED BY <1>2, <3>2 DEF TypeOK
    <2> QED BY <2>1, <2>2, <2>3, <2>4, PlaceForms
  <1> QED BY <1>1, <1>2

\* A place that was the only user of its page is so still, unless the page is
\* used more.
LEMMA SoleKept ==
    ASSUME TypeOK', Counted', Sole,
           \A x \in Places : Map'[x] # NULL /\ Exclusive(x)' =>
              \/ mem_map'[Map'[x]] = 1
              \/ Map'[x] = Map[x] /\ Exclusive(x) /\ mem_map'[Map[x]] <= mem_map[Map[x]]
    PROVE  Sole'
  <1> SUFFICES ASSUME NEW x \in Places, Map'[x] # NULL, Exclusive(x)', mem_map'[Map'[x]] # 1
               PROVE  FALSE
    BY DEF Sole
  <1>1. Map'[x] = Map[x] /\ mem_map[Map[x]] = 1 /\ mem_map'[Map[x]] <= 1
    BY DEF Sole
  <1>2. Map'[x] \in Pages
    BY MapType
  <1>3. mem_map'[Map'[x]] >= 1 /\ mem_map'[Map'[x]] \in Nat
    BY <1>2, CountsSay DEF Counted
  <1> QED BY <1>1, <1>3

\* What do_exit leaves: no task of memory's but the structure.
LEMMA ExitKeeps ==
    ASSUME IInv, NEW t \in Tasks, struct[t] # NULL, NEW also,
           also = IF held[t] = NULL THEN {} ELSE {held[t]}, DoExit(t, also)
    PROVE  IInv'
  <1> DEFINE hp == <<"held", t, NULL>>
             h == [x \in Places |-> IF x \in Space(t) THEN NULL ELSE Map[x]]
             n == [g \in Pages |-> mem_map[g] - Refs(t, g)]
  <1>1. TypeOK /\ Control /\ Counted /\ Sole
    BY DEF IInv
  <1>2. ASSUME NEW x \in Places
        PROVE  Map'[x] = IF x \in Space(t) \/ x = hp THEN NULL ELSE Map[x]
    <2>1. CASE \E q \in Tasks, a \in Addrs : x = <<"pte", q, a>>
      BY <1>1, <2>1, MapIs DEF TypeOK, DoExit, Space
    <2>2. CASE \E q \in Tasks, d \in Dirs : x = <<"dir", q, d>>
      BY <1>1, <2>2, MapIs DEF TypeOK, DoExit, Space
    <2>3. CASE \E q \in Tasks : x = <<"struct", q, NULL>>
      <3>1. PICK q \in Tasks : x = <<"struct", q, NULL>>
        BY <2>3
      <3>2. x \notin Space(t) /\ x # hp
        BY <3>1 DEF Space
      <3>3. struct'[q] = struct[q]
        BY DEF DoExit
      <3> QED BY <3>1, <3>2, <3>3, MapIs
    <2>4. CASE \E q \in Tasks : x = <<"held", q, NULL>>
      <3>1. PICK q \in Tasks : x = <<"held", q, NULL>>
        BY <2>4
      <3>2. x \notin Space(t) /\ (x = hp <=> q = t)
        BY <3>1 DEF Space
      <3>3. held'[q] = IF q = t THEN NULL ELSE held[q]
        BY <1>1 DEF DoExit, TypeOK
      <3> QED BY <3>1, <3>2, <3>3, MapIs
    <2> QED BY <2>1, <2>2, <2>3, <2>4, PlaceForms
  <1>3. hp \in Places /\ hp \notin Space(t) /\ Map[hp] = held[t] /\ NULL \notin Pages
    BY MapIs, MemoryConstants DEF Space
  <1>4. Counts(h, n)
    BY <1>1, CountWithoutSpace
  <1>5. \A g \in Pages : mem_map'[g] = n[g] - (IF g \in also THEN 1 ELSE 0)
    BY DEF DoExit, MapWithout
  <1>6. Counts(Map', mem_map')
    <2>1. CASE held[t] = NULL
      <3>1. \A x \in Places : Map'[x] = h[x]
        BY <1>2, <1>3, <2>1
      <3>2. \A g \in Pages : n[g] \in Nat
        BY <1>4, CountsSay
      <3>3. \A g \in Pages : mem_map'[g] = n[g]
        BY <1>5, <2>1, <3>2
      <3> HIDE DEF h, n
      <3> QED BY <1>4, <3>1, <3>3, CountsSame
    <2>2. CASE held[t] # NULL
      <3>1. held[t] \in Pages /\ also = {held[t]}
        BY <1>1, <2>2 DEF TypeOK
      <3>2. h[hp] = held[t] /\ Map'[hp] \notin Pages
        BY <1>2, <1>3
      <3>3. \A y \in Places \ {hp} : Map'[y] = h[y]
        BY <1>2
      <3>4. \A g \in Pages : n[g] \in Nat
        BY <1>4, CountsSay
      <3>5. mem_map'[held[t]] = n[held[t]] - 1 /\ \A g \in Pages \ {held[t]} : mem_map'[g] = n[g]
        BY <1>5, <3>1, <3>4
      <3> HIDE DEF h, n, hp
      <3> QED BY <1>3, <1>4, <3>1, <3>2, <3>3, <3>5, CountOneLess
    <2> QED BY <2>1, <2>2
  <1>7. Counted'
    BY <1>6 DEF Counted
  <1>8. TypeOK'
    <2>1. mem_map' \in [Pages -> Nat]
      <3>1. \A g \in Pages : mem_map'[g] \in Nat
        BY <1>6, CountsSay
      <3> QED BY <3>1 DEF DoExit, MapWithout
    <2>2. dir' \in [Tasks -> [Dirs -> Pages \cup {NULL}]] /\ pte' \in [Tasks -> [Addrs -> Entries \cup {NULL}]]
      BY <1>1 DEF TypeOK, DoExit
    <2>3. executable' \in [Tasks -> Execs \cup {NULL}] /\ held' \in [Tasks -> Pages \cup {NULL}]
      BY <1>1 DEF TypeOK, DoExit
    <2>4. pc' \in [Tasks -> Labels]
      BY <1>1 DEF TypeOK, DoExit, Labels
    <2>5. mem' \in [Tasks -> [Addrs -> Values]]
      <3>1. Zeroes \in [Addrs -> Values]
        BY DEF Zeroes, Values
      <3> QED BY <1>1, <3>1 DEF TypeOK, DoExit
    <2> QED BY <1>1, <2>1, <2>2, <2>3, <2>4, <2>5 DEF TypeOK, DoExit
  <1>9. Control'
    <2>1. ControlOf(t)'
      BY <1>1 DEF TypeOK, DoExit, ControlOf, Empty, Loading
    <2>2. \A q \in Tasks \ {t} : SameFor(q)
      BY <1>1 DEF TypeOK, DoExit, SameFor
    <2> QED BY <1>1, <2>1, <2>2, LocalControl
  <1>10. Sole'
    <2>1. \A g \in Pages : mem_map'[g] <= mem_map[g]
      <3>1. \A g \in Pages : n[g] \in Nat /\ mem_map[g] \in Nat /\ Refs(t, g) \in Nat
        BY <1>1, <1>4, CountsSay, RefsIs DEF TypeOK
      <3> QED BY <1>5, <3>1
    <2>2. ASSUME NEW x \in Places, Map'[x] # NULL, Exclusive(x)'
          PROVE  Map'[x] = Map[x] /\ Exclusive(x) /\ mem_map'[Map[x]] <= mem_map[Map[x]]
      <3>1. x \notin Space(t) /\ x # hp /\ Map'[x] = Map[x]
        BY <1>2, <2>2
      <3>2. Map[x] \in Pages
        BY <1>1, <2>2, <3>1, MapType
      <3>3. Exclusive(x)
        <4>1. CASE \E q \in Tasks, a \in Addrs : x = <<"pte", q, a>>
          BY <1>1, <2>2, <3>1, <4>1 DEF Space, Exclusive, DoExit, TypeOK
        <4>2. CASE ~\E q \in Tasks, a \in Addrs : x = <<"pte", q, a>>
          BY <4>2, PlaceForms DEF Exclusive
        <4> QED BY <4>1, <4>2
      <3> QED BY <3>1, <3>2, <3>3, <2>1
    <2> QED BY <1>1, <1>7, <1>8, <2>2, SoleKept
  <1> QED BY <1>7, <1>8, <1>9, <1>10 DEF IInv

-----------------------------------------------------------------------------
\* Entries and what is done to their bits.
LEMMA EntryBits ==
    ASSUME NEW e \in Entries
    PROVE  /\ e # NULL /\ e.page \in Pages /\ e.rw \in BOOLEAN
           /\ [e EXCEPT !.rw = TRUE] \in Entries /\ [e EXCEPT !.rw = TRUE] # NULL
           /\ [e EXCEPT !.rw = TRUE].page = e.page
           /\ [e EXCEPT !.rw = FALSE] \in Entries /\ [e EXCEPT !.rw = FALSE] # NULL
           /\ [e EXCEPT !.rw = FALSE].page = e.page /\ ~[e EXCEPT !.rw = FALSE].rw
           /\ [e EXCEPT !.dirty = TRUE] \in Entries /\ [e EXCEPT !.dirty = TRUE] # NULL
           /\ [e EXCEPT !.dirty = TRUE].page = e.page /\ [e EXCEPT !.dirty = TRUE].rw = e.rw
  BY NullIsNoEntry DEF Entries

\* A new entry is writable and clean.
LEMMA NewEntry ==
    ASSUME NEW g \in Pages, NEW e, e = [page |-> g, rw |-> TRUE, dirty |-> FALSE]
    PROVE  e \in Entries /\ e # NULL /\ e.page = g /\ e.rw
  <1>1. e \in Entries
    BY DEF Entries
  <1>2. e # NULL
    BY <1>1, NullIsNoEntry
  <1> QED BY <1>1, <1>2

\* The places outside X refer to the pages they referred to.
LEMMA MapOutside ==
    ASSUME NEW X,
           \A q \in Tasks, a \in Addrs : <<"pte", q, a>> \notin X =>
              /\ pte'[q][a] = NULL <=> pte[q][a] = NULL
              /\ pte[q][a] # NULL => pte'[q][a].page = pte[q][a].page,
           \A q \in Tasks, d \in Dirs : <<"dir", q, d>> \notin X => dir'[q][d] = dir[q][d],
           \A q \in Tasks : <<"struct", q, NULL>> \notin X => struct'[q] = struct[q],
           \A q \in Tasks : <<"held", q, NULL>> \notin X => held'[q] = held[q]
    PROVE  \A x \in Places \ X : Map'[x] = Map[x]
  <1> SUFFICES ASSUME NEW x \in Places, x \notin X
               PROVE  Map'[x] = Map[x]
    OBVIOUS
  <1>1. CASE \E t \in Tasks, a \in Addrs : x = <<"pte", t, a>>
    <2>1. PICK t \in Tasks, a \in Addrs : x = <<"pte", t, a>>
      BY <1>1
    <2> QED BY <2>1, MapIs
  <1>2. CASE \E t \in Tasks, d \in Dirs : x = <<"dir", t, d>>
    <2>1. PICK t \in Tasks, d \in Dirs : x = <<"dir", t, d>>
      BY <1>2
    <2> QED BY <2>1, MapIs
  <1>3. CASE \E t \in Tasks : x = <<"struct", t, NULL>>
    <2>1. PICK t \in Tasks : x = <<"struct", t, NULL>>
      BY <1>3
    <2> QED BY <2>1, MapIs
  <1>4. CASE \E t \in Tasks : x = <<"held", t, NULL>>
    <2>1. PICK t \in Tasks : x = <<"held", t, NULL>>
      BY <1>4
    <2> QED BY <2>1, MapIs
  <1> QED BY <1>1, <1>2, <1>3, <1>4, PlaceForms

\* Only the places in X and the pages that are used more can break Sole.
LEMMA SoleOutside ==
    ASSUME IInv, TypeOK', Counted', NEW X,
           \A x \in Places \ X : Map'[x] = Map[x],
           \A q \in Tasks, a \in Addrs :
              <<"pte", q, a>> \notin X /\ pte[q][a] # NULL /\ pte'[q][a].rw /\ ~pte[q][a].rw
                 => mem_map'[pte[q][a].page] = 1,
           \A x \in Places \ X : Map[x] # NULL /\ mem_map[Map[x]] = 1 => mem_map'[Map[x]] <= 1,
           \A x \in X : x \in Places /\ Map'[x] # NULL /\ Exclusive(x)' => mem_map'[Map'[x]] = 1
    PROVE  Sole'
  <1>1. ASSUME NEW x \in Places, Map'[x] # NULL, Exclusive(x)'
        PROVE  \/ mem_map'[Map'[x]] = 1
               \/ Map'[x] = Map[x] /\ Exclusive(x) /\ mem_map'[Map[x]] <= mem_map[Map[x]]
    <2>1. CASE x \in X
      BY <1>1, <2>1
    <2>2. CASE x \notin X
      <3>1. Map'[x] = Map[x]
        BY <2>2
      <3>2. CASE Exclusive(x)
        <4>1. mem_map[Map[x]] = 1
          BY <1>1, <3>1, <3>2 DEF IInv, Sole
        <4>2. mem_map'[Map[x]] <= 1
          BY <1>1, <2>2, <3>1, <4>1
        <4> QED BY <3>1, <3>2, <4>1, <4>2
      <3>3. CASE ~Exclusive(x)
        <4>1. PICK q \in Tasks, a \in Addrs : x = <<"pte", q, a>>
          BY <3>3, PlaceForms DEF Exclusive
        <4>2. pte'[q][a].rw /\ ~pte[q][a].rw
          BY <1>1, <3>3, <4>1 DEF Exclusive
        <4>3. pte[q][a] # NULL /\ Map[x] = pte[q][a].page
          BY <1>1, <3>1, <4>1, MapIs
        <4> QED BY <2>2, <3>1, <4>1, <4>2, <4>3
      <3> QED BY <3>2, <3>3
    <2> QED BY <2>1, <2>2
  <1> QED BY <1>1, SoleKept DEF IInv

\* A step that moves no page keeps the counts; it may make a page writable
\* that has one user.
LEMMA QuietStep ==
    ASSUME IInv, TypeOK', UNCHANGED <<mem_map, dir, struct, held>>,
           \A q \in Tasks, a \in Addrs :
              /\ pte'[q][a] = NULL <=> pte[q][a] = NULL
              /\ pte[q][a] # NULL =>
                   /\ pte'[q][a].page = pte[q][a].page
                   /\ pte'[q][a].rw /\ ~pte[q][a].rw => mem_map[pte[q][a].page] = 1
    PROVE  Counted' /\ Sole'
  <1> DEFINE X == {}
  <1>1. \A x \in Places \ X : Map'[x] = Map[x]
    BY MapOutside
  <1>2. Counted'
    BY <1>1, CountsSame DEF IInv, Counted
  <1>3. \A x \in Places \ X : Map[x] # NULL /\ mem_map[Map[x]] = 1 => mem_map'[Map[x]] <= 1
    OBVIOUS
  <1>4. \A q \in Tasks, a \in Addrs :
          <<"pte", q, a>> \notin X /\ pte[q][a] # NULL /\ pte'[q][a].rw /\ ~pte[q][a].rw
             => mem_map'[pte[q][a].page] = 1
    OBVIOUS
  <1>5. \A x \in X : x \in Places /\ Map'[x] # NULL /\ Exclusive(x)' => mem_map'[Map'[x]] = 1
    OBVIOUS
  <1> HIDE DEF X
  <1>6. Sole'
    BY <1>1, <1>2, <1>3, <1>4, <1>5, SoleOutside
  <1> QED BY <1>2, <1>6

-----------------------------------------------------------------------------
\* release() gives back the page of a zombie's task structure.
LEMMA ReleaseKeeps == ASSUME IInv, NEW t \in Tasks, Release(t) PROVE IInv'
  <1> DEFINE z == <<"struct", t, NULL>>
             g == struct[t]
             X == {z}
  <1>1. TypeOK /\ Control /\ Counted /\ Sole
    BY DEF IInv
  <1>2. /\ g \in Pages /\ g # NULL /\ pc[t] = <<"zombie", NULL>>
        /\ mem_map' = [mem_map EXCEPT ![g] = @ - 1] /\ struct' = [struct EXCEPT ![t] = NULL]
        /\ pc' = [pc EXCEPT ![t] = User]
        /\ UNCHANGED <<contents, dir, pte, executable, held, mem, execed>>
    BY <1>1 DEF Release, At, MayRun, TypeOK
  <1>3. \A x \in Places \ X : Map'[x] = Map[x]
    <2>1. \A q \in Tasks : <<"struct", q, NULL>> \notin X => struct'[q] = struct[q]
      BY <1>1, <1>2 DEF TypeOK
    <2>2. \A q \in Tasks : <<"held", q, NULL>> \notin X => held'[q] = held[q]
      BY <1>2
    <2> HIDE DEF X
    <2> QED BY <1>2, <2>1, <2>2, MapOutside
  <1>4. z \in Places /\ Map[z] = g /\ Map'[z] = NULL /\ NULL \notin Pages
    BY <1>1, <1>2, MapIs, MemoryConstants DEF TypeOK
  <1>5. mem_map'[g] = mem_map[g] - 1 /\ \A k \in Pages \ {g} : mem_map'[k] = mem_map[k]
    BY <1>1, <1>2 DEF TypeOK
  <1>6. Counts(Map', mem_map')
    <2>1. \A x \in Places \ {z} : Map'[x] = Map[x]
      BY <1>3
    <2>2. g \in Pages /\ Counts(Map, mem_map)
      BY <1>1, <1>2 DEF Counted
    <2> HIDE DEF z, g
    <2> QED BY <1>4, <1>5, <2>1, <2>2, CountOneLess
  <1>7. TypeOK'
    <2>1. mem_map' \in [Pages -> Nat]
      <3>1. \A k \in Pages : mem_map'[k] \in Nat
        BY <1>6, CountsSay
      <3>2. mem_map' = [k \in Pages |-> mem_map'[k]]
        BY <1>1, <1>2 DEF TypeOK
      <3> QED BY <3>1, <3>2
    <2>2. pc' \in [Tasks -> Labels] /\ struct' \in [Tasks -> Pages \cup {NULL}]
      BY <1>1, <1>2 DEF TypeOK, Labels
    <2> QED BY <1>1, <1>2, <2>1, <2>2 DEF TypeOK
  <1>8. Control'
    <2>1. ControlOf(t)
      BY <1>1 DEF Control
    <2>2. ControlOf(t)'
      BY <1>1, <1>2, <2>1 DEF TypeOK, ControlOf, Empty, Loading, User
    <2>3. \A q \in Tasks \ {t} : SameFor(q)
      BY <1>1, <1>2 DEF TypeOK, SameFor
    <2> QED BY <1>1, <2>2, <2>3, LocalControl
  <1>9. Counted'
    BY <1>6 DEF Counted
  <1>10. Sole'
    <2>1. \A x \in Places \ X : Map[x] # NULL /\ mem_map[Map[x]] = 1 => mem_map'[Map[x]] <= 1
      <3>1. \A x \in Places : Map[x] # NULL => Map[x] \in Pages
        BY <1>1, MapType
      <3> QED BY <3>1, <1>5
    <2>2. \A x \in X : x \in Places /\ Map'[x] # NULL /\ Exclusive(x)' => mem_map'[Map'[x]] = 1
      BY <1>4
    <2>3. \A q \in Tasks, a \in Addrs : ~(pte'[q][a].rw /\ ~pte[q][a].rw)
      BY <1>2
    <2> HIDE DEF X
    <2> QED BY <1>3, <1>7, <1>9, <2>1, <2>2, <2>3, SoleOutside
  <1> QED BY <1>7, <1>8, <1>9, <1>10 DEF IInv

\* A task that got from the program to a place in the kernel, or back, without
\* a page in its hands.
LEMMA PlainControl ==
    ASSUME IInv, NEW t \in Tasks, pc[t][1] \in {"user", "verified", "retry"},
           struct[t] # NULL, UNCHANGED <<struct, executable, held>>,
           pc'[t][1] \in {"user", "verified", "retry"},
           \A q \in Tasks \ {t} : pc'[q] = pc[q] /\ dir'[q] = dir[q] /\ \A a \in Addrs : pte'[q][a] = NULL <=> pte[q][a] = NULL,
           \A a \in Addrs : pte'[t][a] # NULL => dir'[t][DirOf[a]] # NULL
    PROVE  Control'
  <1>1. TypeOK /\ Control
    BY DEF IInv
  <1>2. ControlOf(t)
    BY <1>1 DEF Control
  <1>3. ControlOf(t)'
    BY <1>2 DEF ControlOf, Loading
  <1>4. \A q \in Tasks \ {t} : SameFor(q)
    BY DEF SameFor
  <1> QED BY <1>1, <1>3, <1>4, LocalControl

\* A store moves no page.
LEMMA StoreKeeps ==
    ASSUME IInv, NEW t \in Tasks, NEW a \in Addrs, pte[t][a] # NULL, struct[t] # NULL, Store(t, a),
           pc[t][1] \in {"user", "verified", "retry"}, pc' \in [Tasks -> Labels],
           pc'[t] = User, \A q \in Tasks \ {t} : pc'[q] = pc[q]
    PROVE  IInv'
  <1>1. TypeOK /\ Control
    BY DEF IInv
  <1>2. pte[t][a] \in Entries
    BY <1>1 DEF TypeOK
  <1>3. \A q \in Tasks, b \in Addrs :
          /\ pte'[q][b] \in Entries \cup {NULL}
          /\ pte'[q][b] = NULL <=> pte[q][b] = NULL
          /\ pte[q][b] # NULL => pte'[q][b].page = pte[q][b].page /\ pte'[q][b].rw = pte[q][b].rw
    <2>1. pte'[t][a] = [pte[t][a] EXCEPT !.dirty = TRUE]
      BY <1>1 DEF Store, TypeOK
    <2>2. \A q \in Tasks, b \in Addrs : q # t \/ b # a => pte'[q][b] = pte[q][b]
      BY <1>1 DEF Store, TypeOK
    <2>3. \A q \in Tasks, b \in Addrs : pte[q][b] \in Entries \cup {NULL}
      BY <1>1 DEF TypeOK
    <2>4. pte'[t][a] \in Entries /\ pte'[t][a] # NULL /\ pte'[t][a].page = pte[t][a].page /\ pte'[t][a].rw = pte[t][a].rw
      BY <1>2, <2>1, EntryBits
    <2> QED BY <2>2, <2>3, <2>4
  <1>4. TypeOK'
    <2>1. pte' \in [Tasks -> [Addrs -> Entries \cup {NULL}]]
      <3>1. pte' = [q \in Tasks |-> [b \in Addrs |-> pte'[q][b]]]
        BY <1>1 DEF Store, TypeOK
      <3> QED BY <1>3, <3>1
    <2>2. contents' \in [Pages -> Values] /\ mem' \in [Tasks -> [Addrs -> Values]]
      BY <1>1 DEF Store, TypeOK, Values
    <2> QED BY <1>1, <2>1, <2>2 DEF TypeOK, Store
  <1>5. Control'
    <2>1. pc'[t][1] \in {"user", "verified", "retry"}
      BY DEF User
    <2>2. \A b \in Addrs : pte'[t][b] # NULL => dir'[t][DirOf[b]] # NULL
      BY <1>1, <1>3 DEF Control, ControlOf, Store
    <2>3. UNCHANGED <<struct, executable, held, dir>>
      BY DEF Store
    <2> QED BY <1>3, <2>1, <2>2, <2>3, PlainControl
  <1>6. Counted' /\ Sole'
    <2>1. UNCHANGED <<mem_map, dir, struct, held>>
      BY DEF Store
    <2> QED BY <1>3, <1>4, <2>1, QuietStep
  <1> QED BY <1>4, <1>5, <1>6 DEF IInv

\* A store of the program moves no page.
LEMMA UserWriteKeeps == ASSUME IInv, NEW t \in Tasks, NEW a \in Addrs, UserWrite(t, a) PROVE IInv'
  <1>1. pc[t] = User /\ struct[t] # NULL /\ pte[t][a] # NULL /\ Store(t, a) /\ pc' = pc
    BY DEF UserWrite, At, MayRun, Present
  <1>2. pc[t][1] \in {"user", "verified", "retry"} /\ pc' \in [Tasks -> Labels]
    BY <1>1 DEF IInv, TypeOK, User
  <1> QED BY <1>1, <1>2, StoreKeeps

\* Neither does one of the kernel.
LEMMA KernelWriteKeeps == ASSUME IInv, NEW t \in Tasks, NEW a \in Addrs, KernelWrite(t, a) PROVE IInv'
  <1>1. pc[t][1] \in {"verified", "retry"} /\ struct[t] # NULL /\ pte[t][a] # NULL /\ Store(t, a)
    BY DEF KernelWrite, At, MayRun, Present
  <1>2. pc' = [pc EXCEPT ![t] = User]
    BY DEF KernelWrite
  <1>3. pc' \in [Tasks -> Labels] /\ pc'[t] = User /\ \A q \in Tasks \ {t} : pc'[q] = pc[q]
    BY <1>2 DEF IInv, TypeOK, Labels
  <1> QED BY <1>1, <1>3, StoreKeeps

\* exit gives back every page of the space.
LEMMA ExitCallKeeps == ASSUME IInv, NEW t \in Tasks, Exit(t) PROVE IInv'
  <1>1. struct[t] # NULL /\ pc[t] = User /\ DoExit(t, {})
    BY DEF Exit, At, MayRun
  <1>2. held[t] = NULL
    BY <1>1 DEF IInv, Control, ControlOf, Loading, User
  <1> QED BY <1>1, <1>2, ExitKeeps

\* Write-protecting entries moves no page.
LEMMA ProtectedIs ==
    ASSUME TypeOK, NEW t \in Tasks, NEW ds
    PROVE  /\ Protected(t, ds) \in [Addrs -> Entries \cup {NULL}]
           /\ \A a \in Addrs :
                /\ Protected(t, ds)[a] = NULL <=> pte[t][a] = NULL
                /\ pte[t][a] # NULL =>
                     /\ Protected(t, ds)[a].page = pte[t][a].page
                     /\ Protected(t, ds)[a].rw => pte[t][a].rw /\ DirOf[a] \notin ds
  <1>1. ASSUME NEW a \in Addrs
        PROVE  /\ Protected(t, ds)[a] \in Entries \cup {NULL}
               /\ Protected(t, ds)[a] = NULL <=> pte[t][a] = NULL
               /\ pte[t][a] # NULL =>
                     /\ Protected(t, ds)[a].page = pte[t][a].page
                     /\ Protected(t, ds)[a].rw => pte[t][a].rw /\ DirOf[a] \notin ds
    <2>1. pte[t][a] \in Entries \cup {NULL}
      BY DEF TypeOK
    <2>2. CASE pte[t][a] # NULL /\ DirOf[a] \in ds
      <3>1. Protected(t, ds)[a] = [pte[t][a] EXCEPT !.rw = FALSE]
        BY <2>2 DEF Protected, Present
      <3> QED BY <2>1, <2>2, <3>1, EntryBits
    <2>3. CASE ~(pte[t][a] # NULL /\ DirOf[a] \in ds)
      <3>1. Protected(t, ds)[a] = pte[t][a]
        BY <2>3 DEF Protected, Present
      <3> QED BY <2>1, <2>3, <3>1
    <2> QED BY <2>2, <2>3
  <1>2. Protected(t, ds) = [a \in Addrs |-> Protected(t, ds)[a]]
    BY DEF Protected
  <1> QED BY <1>1, <1>2

\* A fork that fails leaves the counts as they were.
LEMMA ForkFailsKeeps ==
    ASSUME IInv, NEW t \in Tasks, NEW u \in Tasks, ForkFails(t, u)
    PROVE  IInv'
  <1>1. TypeOK /\ Control
    BY DEF IInv
  <1>2. PICK ds : /\ pc[t] = User /\ struct[t] # NULL
                  /\ pte' = [pte EXCEPT ![t] = Protected(t, ds)]
                  /\ UNCHANGED <<mem_map, contents, dir, struct, executable, held, pc, mem, execed>>
    BY DEF ForkFails, At, MayRun
  <1>3. pte'[t] = Protected(t, ds) /\ \A q \in Tasks \ {t} : pte'[q] = pte[q]
    BY <1>1, <1>2 DEF TypeOK
  <1>4. \A q \in Tasks, a \in Addrs :
           /\ pte'[q][a] = NULL <=> pte[q][a] = NULL
           /\ pte[q][a] # NULL => pte'[q][a].page = pte[q][a].page /\ (pte'[q][a].rw => pte[q][a].rw)
    BY <1>1, <1>3, ProtectedIs
  <1>5. TypeOK'
    <2>1. pte' \in [Tasks -> [Addrs -> Entries \cup {NULL}]]
      <3>1. Protected(t, ds) \in [Addrs -> Entries \cup {NULL}]
        BY <1>1, ProtectedIs
      <3> QED BY <1>1, <1>2, <3>1 DEF TypeOK
    <2> QED BY <1>1, <1>2, <2>1 DEF TypeOK
  <1>6. Control'
    <2>1. \A b \in Addrs : pte'[t][b] # NULL => dir'[t][DirOf[b]] # NULL
      BY <1>1, <1>2, <1>4 DEF Control, ControlOf
    <2>2. pc[t][1] \in {"user", "verified", "retry"}
      BY <1>2 DEF User
    <2> QED BY <1>2, <1>4, <2>1, <2>2, PlainControl
  <1>7. Counted' /\ Sole'
    BY <1>2, <1>4, <1>5, QuietStep
  <1> QED BY <1>5, <1>6, <1>7 DEF IInv

\* A free page is a page, of no place.
LEMMA FreePageUnused ==
    ASSUME IInv, NEW g \in FreePages
    PROVE  g \in Pages /\ mem_map[g] = 0 /\ \A x \in Places : Map[x] # g
  <1>1. g \in Pages /\ mem_map[g] = 0
    BY DEF FreePages
  <1>2. \A x \in Places : Map[x] = g => mem_map[g] >= 1
    BY <1>1, CountsSay DEF IInv, Counted
  <1> QED BY <1>1, <1>2

\* The page that one call of get_free_page returns.
LEMMA FirstFree ==
    ASSUME IInv, Available(1), NEW g, g = FreePage(1)
    PROVE  g \in FreePages /\ g \in Pages /\ mem_map[g] = 0 /\ \A x \in Places : Map[x] # g
  <1>1. 1 \in Nat \ {0}
    OBVIOUS
  <1>2. g \in FreePages
    BY <1>1, FreePageIs
  <1> QED BY <1>2, FreePageUnused

\* un_wp_page keeps the invariant, whichever label the task goes on with.
LEMMA UnWpKeeps ==
    ASSUME IInv, NEW t \in Tasks, NEW a \in Addrs, pte[t][a] # NULL, struct[t] # NULL, pc[t] = User,
           NEW l \in Labels, l[1] \in {"user", "verified"}, UnWp(t, a, l)
    PROVE  IInv'
  <1> DEFINE old == pte[t][a].page
             z == <<"pte", t, a>>
  <1>1. TypeOK /\ Control /\ Counted /\ Sole
    BY DEF IInv
  <1>2. pte[t][a] \in Entries /\ old \in Pages
    <2>1. pte[t][a] \in Entries
      BY <1>1 DEF TypeOK
    <2> QED BY <2>1, EntryBits
  <1>3. pc[t][1] \in {"user", "verified", "retry"} /\ held[t] = NULL
    BY <1>1 DEF User, Control, ControlOf, Loading
  <1>4. ASSUME pc' = [pc EXCEPT ![t] = l], UNCHANGED <<struct, executable, held, dir>>,
               \A q \in Tasks, b \in Addrs : pte'[q][b] = NULL <=> pte[q][b] = NULL
        PROVE  Control' /\ pc' \in [Tasks -> Labels]
    <2>1. pc'[t] = l /\ \A q \in Tasks \ {t} : pc'[q] = pc[q]
      BY <1>1, <1>4 DEF TypeOK
    <2>2. \A b \in Addrs : pte'[t][b] # NULL => dir'[t][DirOf[b]] # NULL
      BY <1>1, <1>4 DEF Control, ControlOf
    <2>3. pc' \in [Tasks -> Labels]
      BY <1>1, <1>4 DEF TypeOK
    <2> QED BY <1>3, <1>4, <2>1, <2>2, <2>3, PlainControl
  <1>5. CASE /\ mem_map[old] = 1
             /\ pte' = [pte EXCEPT ![t][a].rw = TRUE]
             /\ pc' = [pc EXCEPT ![t] = l]
             /\ UNCHANGED <<mem_map, contents, dir, struct, executable, held, mem, execed>>
    <2>1. pte'[t][a] = [pte[t][a] EXCEPT !.rw = TRUE]
      BY <1>1, <1>5 DEF TypeOK
    <2>2. \A q \in Tasks, b \in Addrs : q # t \/ b # a => pte'[q][b] = pte[q][b]
      BY <1>1, <1>5 DEF TypeOK
    <2>3. pte'[t][a] \in Entries /\ pte'[t][a] # NULL /\ pte'[t][a].page = old
      BY <1>2, <2>1, EntryBits
    <2>4. \A q \in Tasks, b \in Addrs :
              /\ pte'[q][b] \in Entries \cup {NULL}
              /\ pte'[q][b] = NULL <=> pte[q][b] = NULL
              /\ pte[q][b] # NULL =>
                   /\ pte'[q][b].page = pte[q][b].page
                   /\ pte'[q][b].rw /\ ~pte[q][b].rw => mem_map[pte[q][b].page] = 1
      <3>1. \A q \in Tasks, b \in Addrs : pte[q][b] \in Entries \cup {NULL}
        BY <1>1 DEF TypeOK
      <3> SUFFICES ASSUME NEW q \in Tasks, NEW b \in Addrs
                   PROVE  /\ pte'[q][b] \in Entries \cup {NULL}
                          /\ pte'[q][b] = NULL <=> pte[q][b] = NULL
                          /\ pte[q][b] # NULL =>
                               /\ pte'[q][b].page = pte[q][b].page
                               /\ pte'[q][b].rw /\ ~pte[q][b].rw => mem_map[pte[q][b].page] = 1
        OBVIOUS
      <3>2. CASE q = t /\ b = a
        BY <1>5, <2>3, <3>2
      <3>3. CASE q # t \/ b # a
        BY <2>2, <3>1, <3>3
      <3> QED BY <3>2, <3>3
    <2>5. TypeOK'
      <3>1. pte' = [q \in Tasks |-> [b \in Addrs |-> pte'[q][b]]]
        BY <1>1, <1>5 DEF TypeOK
      <3>2. pte' \in [Tasks -> [Addrs -> Entries \cup {NULL}]]
        BY <2>4, <3>1
      <3> QED BY <1>1, <1>4, <1>5, <2>4, <3>2 DEF TypeOK
    <2> QED BY <1>4, <1>5, <2>4, <2>5, QuietStep DEF IInv
  <1>6. CASE /\ mem_map[old] # 1
             /\ Available(1)
             /\ CopyOnWrite(t, a, old)
             /\ pc' = [pc EXCEPT ![t] = l]
             /\ UNCHANGED <<dir, struct, executable, held, mem, execed>>
    <2> DEFINE g == FreePage(1)
               e == [page |-> g, rw |-> TRUE, dirty |-> FALSE]
    <2>1. g \in Pages /\ mem_map[g] = 0 /\ \A x \in Places : Map[x] # g
      BY <1>6, FirstFree
    <2>2. z \in Places /\ Map[z] = old /\ old # g
      BY <2>1, MapIs
    <2>3. /\ mem_map' = [mem_map EXCEPT ![old] = @ - 1, ![g] = 1]
          /\ contents' = [contents EXCEPT ![g] = contents[old]]
          /\ pte' = [pte EXCEPT ![t][a] = e]
      BY <1>6 DEF CopyOnWrite
    <2>4. e \in Entries /\ e # NULL /\ e.page = g /\ e.rw
      BY <2>1, NewEntry
    <2> HIDE DEF g, e
    <2>5. pte'[t][a] = e /\ \A q \in Tasks, b \in Addrs : q # t \/ b # a => pte'[q][b] = pte[q][b]
      BY <1>1, <2>3 DEF TypeOK
    <2>6. /\ mem_map'[old] = mem_map[old] - 1 /\ mem_map'[g] = 1
          /\ \A k \in Pages \ {old, g} : mem_map'[k] = mem_map[k]
      BY <1>1, <1>2, <2>1, <2>2, <2>3 DEF TypeOK
    <2>7. \A x \in Places \ {z} : Map'[x] = Map[x]
      <3> DEFINE X == {z}
      <3>1. \A q \in Tasks, b \in Addrs : <<"pte", q, b>> \notin X => pte'[q][b] = pte[q][b]
        BY <2>5
      <3> HIDE DEF X
      <3>2. \A x \in Places \ X : Map'[x] = Map[x]
        BY <1>6, <3>1, MapOutside
      <3> QED BY <3>2 DEF X
    <2>8. Map'[z] = g
      BY <2>4, <2>5, MapIs
    <2>9. Counts(Map', mem_map')
      <3> DEFINE h == [x \in Places |-> IF x = z THEN NULL ELSE Map[x]]
                 n == [k \in Pages |-> IF k = old THEN mem_map[k] - 1 ELSE mem_map[k]]
      <3>0. NULL \notin Pages
        BY MemoryConstants
      <3>1. h[z] = NULL /\ \A y \in Places \ {z} : h[y] = Map[y]
        BY <2>2
      <3>2. n[old] = mem_map[old] - 1 /\ \A k \in Pages \ {old} : n[k] = mem_map[k]
        BY <1>2
      <3>3. n[g] = 0
        BY <2>1, <2>2
      <3>4. Counts(Map, mem_map)
        BY <1>1 DEF Counted
      <3> HIDE DEF h, n, z, old
      <3>5. Counts(h, n)
        BY <1>2, <2>2, <3>0, <3>1, <3>2, <3>4, CountOneLess
      <3>6. \A y \in Places \ {z} : Map'[y] = h[y]
        BY <2>7, <3>1
      <3>7. mem_map'[g] = n[g] + 1 /\ \A k \in Pages \ {g} : mem_map'[k] = n[k]
        BY <2>6, <3>2, <3>3
      <3> QED BY <2>1, <2>2, <2>8, <3>0, <3>1, <3>5, <3>6, <3>7, CountOneMore
    <2>10. Counted'
      BY <2>9 DEF Counted
    <2>11. pte'[t][a] # NULL
      BY <2>4, <2>5
    <2>12. Control' /\ pc' \in [Tasks -> Labels]
      BY <1>4, <1>6, <2>5, <2>11
    <2>13. TypeOK'
      <3>1. mem_map' \in [Pages -> Nat]
        <4>1. \A k \in Pages : mem_map'[k] \in Nat
          BY <2>9, CountsSay
        <4>2. mem_map' = [k \in Pages |-> mem_map'[k]]
          BY <1>1, <2>3 DEF TypeOK
        <4> QED BY <4>1, <4>2
      <3>2. contents' \in [Pages -> Values]
        BY <1>1, <1>2, <2>1, <2>3 DEF TypeOK
      <3>3. pte' \in [Tasks -> [Addrs -> Entries \cup {NULL}]]
        BY <1>1, <2>3, <2>4 DEF TypeOK
      <3> QED BY <1>1, <1>6, <2>12, <3>1, <3>2, <3>3 DEF TypeOK
    <2>14. Sole'
      <3> DEFINE X == {z}
      <3>1. \A x \in Places \ X : Map'[x] = Map[x]
        BY <2>7
      <3>2. \A x \in Places \ X : Map[x] # NULL /\ mem_map[Map[x]] = 1 => mem_map'[Map[x]] <= 1
        <4>1. \A x \in Places : Map[x] # NULL => Map[x] \in Pages
          BY <1>1, MapType
        <4> QED BY <2>1, <2>6, <4>1
      <3>3. \A x \in X : x \in Places /\ Map'[x] # NULL /\ Exclusive(x)' => mem_map'[Map'[x]] = 1
        BY <2>6, <2>8
      <3>4. \A q \in Tasks, b \in Addrs : <<"pte", q, b>> \notin X => pte'[q][b] = pte[q][b]
        BY <2>5
      <3> HIDE DEF X
      <3> QED BY <2>10, <2>13, <3>1, <3>2, <3>3, <3>4, SoleOutside
    <2> QED BY <2>10, <2>12, <2>13, <2>14 DEF IInv
  <1>7. CASE DoExit(t, {})
    BY <1>3, <1>7, ExitKeeps
  <1> QED BY <1>5, <1>6, <1>7 DEF UnWp

\* A write fault takes at most one page, for the copy.
LEMMA DoWpPageKeeps == ASSUME IInv, NEW t \in Tasks, NEW a \in Addrs, DoWpPage(t, a) PROVE IInv'
  <1>1. pte[t][a] # NULL /\ struct[t] # NULL /\ pc[t] = User /\ UnWp(t, a, User)
    BY DEF DoWpPage, At, MayRun, Present
  <1>2. User \in Labels /\ User[1] \in {"user", "verified"}
    BY DEF Labels, User
  <1> QED BY <1>1, <1>2, UnWpKeeps

\* verify_area does what the write fault would.
LEMMA VerifyAreaKeeps == ASSUME IInv, NEW t \in Tasks, NEW a \in Addrs, VerifyArea(t, a) PROVE IInv'
  <1> DEFINE l == <<"verified", a>>
  <1>1. struct[t] # NULL /\ pc[t] = User
    BY DEF VerifyArea, At, MayRun
  <1>2. l \in Labels /\ l[1] \in {"user", "verified"}
    BY DEF Labels
  <1>3. CASE pte[t][a] # NULL /\ UnWp(t, a, l)
    BY <1>1, <1>2, <1>3, UnWpKeeps
  <1>4. CASE /\ pc' = [pc EXCEPT ![t] = l]
             /\ UNCHANGED <<mem_map, contents, dir, pte, struct, executable, held, mem, execed>>
    <2>1. TypeOK /\ Control
      BY DEF IInv
    <2>2. TypeOK'
      BY <1>2, <1>4, <2>1 DEF TypeOK
    <2>3. Counted' /\ Sole'
      BY <1>4, <2>2, QuietStep
    <2>4. pc'[t] = l /\ \A q \in Tasks \ {t} : pc'[q] = pc[q]
      BY <1>4, <2>1 DEF TypeOK
    <2>5. pc[t][1] \in {"user", "verified", "retry"}
      BY <1>1 DEF User
    <2>6. \A b \in Addrs : pte'[t][b] # NULL => dir'[t][DirOf[b]] # NULL
      BY <1>4, <2>1 DEF Control, ControlOf
    <2>7. Control'
      BY <1>1, <1>2, <1>4, <2>4, <2>5, <2>6, PlainControl
    <2> QED BY <2>2, <2>3, <2>7 DEF IInv
  <1> QED BY <1>3, <1>4 DEF VerifyArea, Present

-----------------------------------------------------------------------------
\* A task takes a free page in its hands.
LEMMA HoldKeeps ==
    ASSUME IInv, TypeOK', NEW t \in Tasks, held[t] = NULL, Available(1),
           NEW g, g = FreePage(1), held'[t] = g, \A q \in Tasks \ {t} : held'[q] = held[q],
           mem_map'[g] = 1, \A k \in Pages \ {g} : mem_map'[k] = mem_map[k],
           UNCHANGED <<dir, pte, struct>>
    PROVE  Counted' /\ Sole'
  <1> DEFINE z == <<"held", t, NULL>>
             X == {z}
  <1>1. TypeOK /\ Counted /\ Sole
    BY DEF IInv
  <1>2. g \in Pages /\ mem_map[g] = 0 /\ \A x \in Places : Map[x] # g
    BY FirstFree
  <1>3. \A q \in Tasks : <<"held", q, NULL>> \notin X => held'[q] = held[q]
    OBVIOUS
  <1>4. mem_map'[g] = 1 /\ \A k \in Pages \ {g} : mem_map'[k] = mem_map[k]
    OBVIOUS
  <1>5. z \in Places /\ Map[z] = NULL /\ Map'[z] = g /\ NULL \notin Pages
    BY MapIs, MemoryConstants
  <1>6. \A x \in Places \ X : Map'[x] = Map[x]
    <2> HIDE DEF X
    <2> QED BY <1>3, MapOutside
  <1>7. Counted'
    <2>1. \A x \in Places \ {z} : Map'[x] = Map[x]
      BY <1>6
    <2>2. mem_map'[g] = mem_map[g] + 1 /\ Counts(Map, mem_map)
      BY <1>1, <1>2, <1>4 DEF Counted
    <2>3. z \in Places /\ g \in Pages /\ Map[z] \notin Pages /\ Map'[z] = g
      BY <1>2, <1>5
    <2>4. \A k \in Pages \ {g} : mem_map'[k] = mem_map[k]
      BY <1>4
    <2> HIDE DEF z, X
    <2>5. Counts(Map', mem_map')
      BY <2>1, <2>2, <2>3, <2>4, CountOneMore
    <2> QED BY <2>5 DEF Counted
  <1>8. \A x \in Places \ X : Map[x] # NULL /\ mem_map[Map[x]] = 1 => mem_map'[Map[x]] <= 1
    <2>1. \A x \in Places : Map[x] # NULL => Map[x] \in Pages
      BY <1>1, MapType
    <2> QED BY <1>2, <1>4, <2>1
  <1>9. \A x \in X : x \in Places /\ Map'[x] # NULL /\ Exclusive(x)' => mem_map'[Map'[x]] = 1
    BY <1>4, <1>5
  <1>10. Sole'
    <2> HIDE DEF X
    <2> QED BY <1>6, <1>7, <1>8, <1>9, SoleOutside
  <1> QED BY <1>7, <1>10

\* The labels at which a fault of t at a may happen.
LEMMA FaultingIs ==
    ASSUME IInv, NEW t \in Tasks, NEW a \in Addrs, Faulting(t, a)
    PROVE  /\ struct[t] # NULL /\ pte[t][a] = NULL /\ held[t] = NULL
           /\ pc[t] \in {User, <<"verified", a>>} /\ pc[t][1] \in {"user", "verified"}
           /\ ControlOf(t)
  <1>1. struct[t] # NULL /\ pte[t][a] = NULL /\ pc[t] \in {User, <<"verified", a>>}
    BY DEF Faulting, MayRun, Present
  <1>2. pc[t][1] \in {"user", "verified"}
    BY <1>1 DEF User
  <1>3. ControlOf(t)
    BY DEF IInv, Control
  <1> QED BY <1>1, <1>2, <1>3 DEF ControlOf, Loading

\* do_no_page holds the page it reads the executable into.
LEMMA LoadPageKeeps == ASSUME IInv, NEW t \in Tasks, NEW a \in Addrs, LoadPage(t, a) PROVE IInv'
  <1>1. TypeOK /\ Control
    BY DEF IInv
  <1>2. /\ struct[t] # NULL /\ pte[t][a] = NULL /\ held[t] = NULL
        /\ pc[t] \in {User, <<"verified", a>>} /\ ControlOf(t) /\ executable[t] # NULL
    BY FaultingIs DEF LoadPage, FromFile
  <1>3. CASE DoExit(t, {})
    BY <1>2, <1>3, ExitKeeps
  <1>4. CASE ~DoExit(t, {})
    <2> DEFINE g == FreePage(1)
               l == <<IF pc[t] = User THEN "load" ELSE "kernel_load", a>>
    <2>1. /\ Available(1)
          /\ mem_map' = [mem_map EXCEPT ![g] = 1]
          /\ contents' = [contents EXCEPT ![g] = "zero"]
          /\ held' = [held EXCEPT ![t] = g]
          /\ pc' = [pc EXCEPT ![t] = l]
          /\ UNCHANGED <<dir, pte, struct, executable, mem, execed>>
      BY <1>1, <1>4 DEF LoadPage, TypeOK
    <2>2. g \in Pages
      BY <2>1, FirstFree
    <2>3. l \in Labels /\ l[1] \in {"load", "kernel_load"} /\ l[2] = a
      BY DEF Labels
    <2> HIDE DEF l
    <2>4. TypeOK'
      <3>1. mem_map' \in [Pages -> Nat] /\ held' \in [Tasks -> Pages \cup {NULL}]
        BY <1>1, <2>1, <2>2 DEF TypeOK
      <3>2. contents' \in [Pages -> Values]
        BY <1>1, <2>1, <2>2 DEF TypeOK, Values
      <3>3. pc' \in [Tasks -> Labels]
        BY <1>1, <2>1, <2>3 DEF TypeOK
      <3> QED BY <1>1, <2>1, <3>1, <3>2, <3>3 DEF TypeOK
    <2>5. Counted' /\ Sole'
      <3>1. held'[t] = g /\ \A q \in Tasks \ {t} : held'[q] = held[q]
        BY <1>1, <2>1 DEF TypeOK
      <3>2. mem_map'[g] = 1 /\ \A k \in Pages \ {g} : mem_map'[k] = mem_map[k]
        BY <1>1, <2>1, <2>2 DEF TypeOK
      <3> QED BY <1>2, <2>1, <2>4, <3>1, <3>2, HoldKeeps
    <2>6. Control'
      <3>0. g # NULL
        BY <2>2, MemoryConstants
      <3>1. pc'[t] = l /\ held'[t] = g
        BY <1>1, <2>1 DEF TypeOK
      <3>2. ControlOf(t)'
        BY <1>2, <2>1, <2>3, <3>0, <3>1 DEF ControlOf, Loading
      <3>3. \A q \in Tasks \ {t} : SameFor(q)
        BY <1>1, <2>1 DEF TypeOK, SameFor
      <3> QED BY <1>1, <3>2, <3>3, LocalControl
    <2> QED BY <2>4, <2>5, <2>6 DEF IInv
  <1> QED BY <1>3, <1>4

\* do_execve holds the page of the arguments.
LEMMA ExecBeginKeeps == ASSUME IInv, NEW t \in Tasks, NEW e \in Execs, ExecBegin(t, e) PROVE IInv'
  <1> DEFINE g == FreePage(1)
             l == <<"exec", NULL>>
  <1>1. TypeOK /\ Control
    BY DEF IInv
  <1>2. /\ struct[t] # NULL /\ pc[t] = User /\ pte[t][Stack] # NULL /\ Available(1)
        /\ mem_map' = [mem_map EXCEPT ![g] = 1]
        /\ contents' = [contents EXCEPT ![g] = t]
        /\ held' = [held EXCEPT ![t] = g]
        /\ executable' = [executable EXCEPT ![t] = e]
        /\ execed' = TRUE
        /\ pc' = [pc EXCEPT ![t] = l]
        /\ UNCHANGED <<dir, pte, struct, mem>>
    BY DEF ExecBegin, At, MayRun, Present
  <1>3. ControlOf(t) /\ held[t] = NULL
    BY <1>1, <1>2 DEF Control, ControlOf, Loading, User
  <1>4. g \in Pages /\ g # NULL
    BY <1>2, FirstFree, MemoryConstants
  <1>5. l \in Labels /\ l[1] = "exec"
    BY DEF Labels
  <1>6. TypeOK'
    <2>1. mem_map' \in [Pages -> Nat] /\ held' \in [Tasks -> Pages \cup {NULL}]
      BY <1>1, <1>2, <1>4 DEF TypeOK
    <2>2. contents' \in [Pages -> Values]
      BY <1>1, <1>2, <1>4 DEF TypeOK, Values
    <2>3. pc' \in [Tasks -> Labels] /\ executable' \in [Tasks -> Execs \cup {NULL}] /\ execed' \in BOOLEAN
      BY <1>1, <1>2, <1>5 DEF TypeOK
    <2> QED BY <1>1, <1>2, <2>1, <2>2, <2>3 DEF TypeOK
  <1>7. Counted' /\ Sole'
    <2>1. held'[t] = g /\ \A q \in Tasks \ {t} : held'[q] = held[q]
      BY <1>1, <1>2 DEF TypeOK
    <2>2. mem_map'[g] = 1 /\ \A k \in Pages \ {g} : mem_map'[k] = mem_map[k]
      BY <1>1, <1>2, <1>4 DEF TypeOK
    <2> QED BY <1>2, <1>3, <1>6, <2>1, <2>2, HoldKeeps
  <1>8. Control'
    <2>1. pc'[t] = l /\ held'[t] = g /\ executable'[t] = e /\ e # NULL
      BY <1>1, <1>2, MemoryConstants DEF TypeOK
    <2>2. dir'[t][DirOf[Stack]] # NULL
      BY <1>2, <1>3, MemoryConstants DEF ControlOf
    <2>3. ControlOf(t)'
      BY <1>2, <1>3, <1>4, <1>5, <2>1, <2>2 DEF ControlOf, Loading
    <2>4. \A q \in Tasks \ {t} : SameFor(q)
      BY <1>1, <1>2 DEF TypeOK, SameFor
    <2> QED BY <1>1, <2>3, <2>4, LocalControl
  <1> QED BY <1>6, <1>7, <1>8 DEF IInv

\* The count of the page table that mapping a may need.
LEMMA TableCounts ==
    ASSUME IInv, TypeOK', NEW t \in Tasks, NEW a \in Addrs, NEW dz, dz = <<"dir", t, DirOf[a]>>,
           NEW f, NEW m \in [Pages -> Nat], Counts(f, m), NEW g,
           f[dz] = Map[dz], \A y \in Places \ {dz} : Map'[y] = f[y],
           \/ HasTable(t, a) /\ dir' = dir /\ mem_map' = m
           \/ /\ ~HasTable(t, a) /\ g \in Pages /\ m[g] = 0
              /\ dir' = [dir EXCEPT ![t][DirOf[a]] = g] /\ mem_map' = [m EXCEPT ![g] = 1]
    PROVE  Counted' /\ dz \in Places /\ Map'[dz] = dir'[t][DirOf[a]]
  <1>0. DirOf[a] \in Dirs /\ NULL \notin Pages
    BY MemoryConstants
  <1>1. dz \in Places /\ Map[dz] = dir[t][DirOf[a]] /\ Map'[dz] = dir'[t][DirOf[a]]
    BY <1>0, MapIs
  <1>2. CASE HasTable(t, a)
    <2>1. dir' = dir /\ mem_map' = m
      BY <1>2
    <2>2. \A y \in Places : Map'[y] = f[y]
      BY <1>1, <2>1
    <2>3. Counts(Map', mem_map')
      BY <2>1, <2>2, CountsSame
    <2> QED BY <1>1, <2>3 DEF Counted
  <1>3. CASE ~HasTable(t, a)
    <2>1. /\ g \in Pages /\ m[g] = 0
          /\ dir' = [dir EXCEPT ![t][DirOf[a]] = g] /\ mem_map' = [m EXCEPT ![g] = 1]
      BY <1>3
    <2>2. f[dz] = NULL
      BY <1>1, <1>3 DEF HasTable
    <2>3. Map'[dz] = g
      BY <1>0, <1>1, <2>1 DEF IInv, TypeOK
    <2>4. mem_map'[g] = m[g] + 1 /\ \A k \in Pages \ {g} : mem_map'[k] = m[k]
      BY <2>1
    <2>5. dz \in Places /\ g \in Pages /\ f[dz] \notin Pages
      BY <1>0, <1>1, <2>1, <2>2
    <2>6. Counts(Map', mem_map')
      BY <2>3, <2>4, <2>5, CountOneMore
    <2> QED BY <1>1, <2>6 DEF Counted
  <1> QED BY <1>2, <1>3

\* After the fault the page is mapped, its table is there and nothing is in
\* the task's hands.
LEMMA ResumeControl ==
    ASSUME IInv, NEW t \in Tasks, NEW a \in Addrs, struct[t] # NULL, pc' = Resume(t, a), held'[t] = NULL,
           UNCHANGED <<struct, executable>>, dir'[t][DirOf[a]] # NULL,
           \A d \in Dirs : dir[t][d] # NULL => dir'[t][d] # NULL,
           \A b \in Addrs : b # a /\ pte'[t][b] # NULL => pte[t][b] # NULL,
           \A q \in Tasks \ {t} : held'[q] = held[q] /\ dir'[q] = dir[q] /\ \A b \in Addrs : pte'[q][b] = NULL <=> pte[q][b] = NULL
    PROVE  Control' /\ pc' \in [Tasks -> Labels]
  <1>1. TypeOK /\ Control
    BY DEF IInv
  <1>2. pc'[t] \in {User, <<"retry", a>>} /\ \A q \in Tasks \ {t} : pc'[q] = pc[q]
    BY <1>1 DEF TypeOK, Resume
  <1>3. pc' \in [Tasks -> Labels]
    BY <1>1 DEF TypeOK, Resume, Labels
  <1>4. pc'[t][1] \in {"user", "retry"}
    BY <1>2 DEF User
  <1>5. ControlOf(t)
    BY <1>1 DEF Control
  <1>6. \A b \in Addrs : pte'[t][b] # NULL => dir'[t][DirOf[b]] # NULL
    BY <1>5, MemoryConstants DEF ControlOf
  <1>7. ControlOf(t)'
    BY <1>4, <1>6 DEF ControlOf, Loading
  <1>8. \A q \in Tasks \ {t} : SameFor(q)
    BY <1>2 DEF SameFor
  <1> QED BY <1>1, <1>3, <1>7, <1>8, LocalControl

\* Mapping a page at a keeps Sole if the new users of pages are the only ones.
LEMMA PutSole ==
    ASSUME IInv, TypeOK', Counted', NEW t \in Tasks, NEW a \in Addrs,
           NEW pz, pz = <<"pte", t, a>>, NEW dz, dz = <<"dir", t, DirOf[a]>>,
           NEW hz, hz = <<"held", t, NULL>>,
           \A y \in Places \ {pz, dz, hz} : Map'[y] = Map[y],
           \A q \in Tasks, b \in Addrs :
              (q # t \/ b # a) /\ pte[q][b] # NULL /\ pte'[q][b].rw => pte[q][b].rw,
           held'[t] = NULL,
           dir'[t][DirOf[a]] = dir[t][DirOf[a]] \/ mem_map'[dir'[t][DirOf[a]]] = 1,
           pte'[t][a] # NULL /\ pte'[t][a].rw => mem_map'[pte'[t][a].page] = 1,
           \A x \in Places \ {pz, hz} : Map[x] # NULL /\ Exclusive(x) /\ Exclusive(x)' => mem_map'[Map[x]] <= 1
    PROVE  Sole'
  <1>1. ASSUME NEW x \in Places, Map'[x] # NULL, Exclusive(x)'
        PROVE  \/ mem_map'[Map'[x]] = 1
               \/ Map'[x] = Map[x] /\ Exclusive(x) /\ mem_map'[Map[x]] <= mem_map[Map[x]]
    <2>1. CASE x = pz
      <3>1. Map'[x] = IF pte'[t][a] # NULL THEN pte'[t][a].page ELSE NULL
        BY <2>1, MapIs
      <3>2. pte'[t][a].rw
        BY <1>1, <2>1 DEF Exclusive
      <3> QED BY <1>1, <3>1, <3>2
    <2>2. CASE x = hz
      BY <1>1, <2>2, MapIs
    <2>3. ASSUME x # pz, x # hz, Map'[x] = Map[x], Exclusive(x)
          PROVE  mem_map'[Map[x]] <= mem_map[Map[x]]
      <3>1. mem_map[Map[x]] = 1
        BY <1>1, <2>3 DEF IInv, Sole
      <3>2. mem_map'[Map[x]] <= 1
        BY <1>1, <2>3
      <3> QED BY <3>1, <3>2
    <2>4. CASE x = dz
      <3>1. DirOf[a] \in Dirs
        BY MemoryConstants
      <3>2. Map[x] = dir[t][DirOf[a]] /\ Map'[x] = dir'[t][DirOf[a]]
        BY <2>4, <3>1, MapIs
      <3>3. Exclusive(x) /\ x # pz /\ x # hz
        BY <2>4 DEF Exclusive
      <3> QED BY <2>3, <3>2, <3>3
    <2>5. CASE x # pz /\ x # hz /\ x # dz
      <3>1. Map'[x] = Map[x]
        BY <2>5
      <3>2. Exclusive(x)
        <4>1. CASE \E q \in Tasks, b \in Addrs : x = <<"pte", q, b>>
          <5>1. PICK q \in Tasks, b \in Addrs : x = <<"pte", q, b>>
            BY <4>1
          <5>2. q # t \/ b # a
            BY <2>5, <5>1
          <5>3. pte[q][b] # NULL
            BY <1>1, <3>1, <5>1, MapIs
          <5>4. pte'[q][b].rw
            BY <1>1, <5>1 DEF Exclusive
          <5> QED BY <5>1, <5>2, <5>3, <5>4 DEF Exclusive
        <4>2. CASE ~\E q \in Tasks, b \in Addrs : x = <<"pte", q, b>>
          BY <4>2, PlaceForms DEF Exclusive
        <4> QED BY <4>1, <4>2
      <3> QED BY <2>3, <2>5, <3>1, <3>2
    <2> QED BY <2>1, <2>2, <2>4, <2>5
  <1> QED BY <1>1, SoleKept DEF IInv

\* The table that mapping a page may need is one only if there is none.
LEMMA TableNeededIs ==
    ASSUME NEW t, NEW a
    PROVE  TableNeeded(t, a) = IF dir[t][DirOf[a]] # NULL THEN 0 ELSE 1
  BY DEF TableNeeded, HasTable

\* get_empty_page takes a page, and one for the page table if there is none.
LEMMA EmptyPageKeeps == ASSUME IInv, NEW t \in Tasks, NEW a \in Addrs, EmptyPage(t, a) PROVE IInv'
  <1> DEFINE pz == <<"pte", t, a>>
             dz == <<"dir", t, DirOf[a]>>
             hz == <<"held", t, NULL>>
             g == FreePage(1)
             k == FreePage(2)
             e == [page |-> g, rw |-> TRUE, dirty |-> FALSE]
  <1>1. TypeOK /\ Control /\ Counted /\ Sole
    BY DEF IInv
  <1>2. struct[t] # NULL /\ pte[t][a] = NULL /\ held[t] = NULL
    BY FaultingIs DEF EmptyPage
  <1>3. CASE DoExit(t, {})
    BY <1>2, <1>3, ExitKeeps
  <1>4. CASE ~DoExit(t, {})
    <2>1. /\ Available(1 + TableNeeded(t, a))
          /\ mem_map' = [h \in Pages |-> IF \E n \in 1 .. 1 + TableNeeded(t, a) : h = FreePage(n)
                                         THEN 1 ELSE mem_map[h]]
          /\ contents' = [contents EXCEPT ![g] = "zero"]
          /\ dir' = IF HasTable(t, a) THEN dir ELSE [dir EXCEPT ![t][DirOf[a]] = k]
          /\ pte' = [pte EXCEPT ![t][a] = e]
          /\ pc' = Resume(t, a)
          /\ UNCHANGED <<struct, executable, held, mem, execed>>
      BY <1>4 DEF EmptyPage
    <2>2. g \in Pages /\ mem_map[g] = 0 /\ \A x \in Places : Map[x] # g
      <3>1. Available(1)
        BY <2>1, TableNeededIs, FewerAvailable
      <3> QED BY <3>1, FirstFree
    <2>3. ~HasTable(t, a) => k \in Pages /\ mem_map[k] = 0 /\ k # g /\ \A x \in Places : Map[x] # k
      <3> SUFFICES ASSUME ~HasTable(t, a)
                   PROVE  k \in Pages /\ mem_map[k] = 0 /\ k # g /\ \A x \in Places : Map[x] # k
        OBVIOUS
      <3>1. Available(2) /\ Available(1)
        BY <2>1, FewerAvailable DEF TableNeeded
      <3>2. k \in FreePages /\ Cardinality({h \in FreePages : h > k}) = 1
        BY <3>1, FreePageIs
      <3>3. Cardinality({h \in FreePages : h > g}) = 0
        BY <3>1, FreePageIs
      <3>4. k # g
        BY <3>2, <3>3
      <3> QED BY <3>2, <3>4, FreePageUnused
    <2>4. e \in Entries /\ e # NULL /\ e.page = g /\ e.rw
      BY <2>2, NewEntry
    <2>5. \A h \in Pages : mem_map'[h] = IF h = g \/ (~HasTable(t, a) /\ h = k) THEN 1 ELSE mem_map[h]
      <3>1. CASE HasTable(t, a)
        <4>1. 1 .. 1 + TableNeeded(t, a) = {1}
          BY <3>1 DEF TableNeeded
        <4> QED BY <2>1, <3>1, <4>1
      <3>2. CASE ~HasTable(t, a)
        <4>1. 1 .. 1 + TableNeeded(t, a) = {1, 2}
          BY <3>2 DEF TableNeeded
        <4> QED BY <2>1, <3>2, <4>1
      <3> QED BY <3>1, <3>2
    <2>6. mem_map' = [h \in Pages |-> mem_map'[h]]
      BY <2>1
    <2> HIDE DEF g, k, e
    <2>7. pte'[t][a] = e /\ \A q \in Tasks, b \in Addrs : q # t \/ b # a => pte'[q][b] = pte[q][b]
      BY <1>1, <2>1 DEF TypeOK
    <2>8. /\ dir'[t][DirOf[a]] = IF HasTable(t, a) THEN dir[t][DirOf[a]] ELSE k
          /\ \A q \in Tasks, d \in Dirs : q # t \/ d # DirOf[a] => dir'[q][d] = dir[q][d]
          /\ \A q \in Tasks \ {t} : dir'[q] = dir[q]
      BY <1>1, <2>1, MemoryConstants DEF TypeOK
    <2>9. Control' /\ pc' \in [Tasks -> Labels]
      <3>1. dir'[t][DirOf[a]] # NULL
        BY <2>3, <2>8, MemoryConstants DEF HasTable
      <3>2. \A d \in Dirs : dir[t][d] # NULL => dir'[t][d] # NULL
        BY <2>8, <3>1
      <3>3. held'[t] = NULL /\ \A q \in Tasks \ {t} : held'[q] = held[q]
        BY <1>2, <2>1
      <3>4. \A b \in Addrs : b # a /\ pte'[t][b] # NULL => pte[t][b] # NULL
        BY <2>7
      <3>5. \A q \in Tasks \ {t} : \A b \in Addrs : pte'[q][b] = NULL <=> pte[q][b] = NULL
        BY <2>7
      <3> QED BY <1>2, <2>1, <2>8, <3>1, <3>2, <3>3, <3>4, <3>5, ResumeControl
    <2>10. TypeOK'
      <3>1. mem_map' \in [Pages -> Nat]
        BY <1>1, <2>5, <2>6 DEF TypeOK
      <3>2. contents' \in [Pages -> Values]
        BY <1>1, <2>1, <2>2 DEF TypeOK, Values
      <3>3. pte' \in [Tasks -> [Addrs -> Entries \cup {NULL}]]
        BY <1>1, <2>1, <2>4 DEF TypeOK
      <3>4. dir' \in [Tasks -> [Dirs -> Pages \cup {NULL}]]
        BY <1>1, <2>1, <2>3 DEF TypeOK
      <3> QED BY <1>1, <2>1, <2>9, <3>1, <3>2, <3>3, <3>4 DEF TypeOK
    <2>11. \A y \in Places \ {pz, dz} : Map'[y] = Map[y]
      <3> DEFINE X == {pz, dz}
      <3>1. \A q \in Tasks, b \in Addrs : <<"pte", q, b>> \notin X => pte'[q][b] = pte[q][b]
        BY <2>7
      <3>2. \A q \in Tasks, d \in Dirs : <<"dir", q, d>> \notin X => dir'[q][d] = dir[q][d]
        BY <2>8
      <3> HIDE DEF X
      <3>3. \A y \in Places \ X : Map'[y] = Map[y]
        BY <2>1, <3>1, <3>2, MapOutside
      <3> QED BY <3>3 DEF X
    <2>12. pz \in Places /\ Map[pz] = NULL /\ Map'[pz] = g /\ NULL \notin Pages /\ pz # dz
      BY <1>2, <2>4, <2>7, MapIs, MemoryConstants
    <2>13. Counted'
      <3> DEFINE f == [y \in Places |-> IF y = pz THEN g ELSE Map[y]]
                 m == [h \in Pages |-> IF h = g THEN 1 ELSE mem_map[h]]
      <3>0. m \in [Pages -> Nat]
        BY <1>1 DEF TypeOK
      <3>1. f[pz] = g /\ (\A y \in Places \ {pz} : f[y] = Map[y]) /\ Map[pz] \notin Pages
        BY <2>12
      <3>2. m[g] = mem_map[g] + 1 /\ \A h \in Pages \ {g} : m[h] = mem_map[h]
        BY <2>2
      <3>3. Counts(Map, mem_map)
        BY <1>1 DEF Counted
      <3>4. dz \in Places
        BY MapIs, MemoryConstants
      <3>5. f[dz] = Map[dz] /\ \A y \in Places \ {dz} : Map'[y] = f[y]
        BY <2>11, <2>12, <3>1, <3>4
      <3>6. \/ HasTable(t, a) /\ dir' = dir /\ mem_map' = m
            \/ /\ ~HasTable(t, a) /\ k \in Pages /\ m[k] = 0
               /\ dir' = [dir EXCEPT ![t][DirOf[a]] = k] /\ mem_map' = [m EXCEPT ![k] = 1]
        <4>1. CASE HasTable(t, a)
          <5>1. mem_map' = m
            BY <2>5, <2>6, <4>1
          <5> QED BY <2>1, <4>1, <5>1
        <4>2. CASE ~HasTable(t, a)
          <5>1. mem_map' = [m EXCEPT ![k] = 1]
            BY <2>5, <2>6, <4>2
          <5>2. k \in Pages /\ m[k] = 0
            BY <2>3, <4>2
          <5> QED BY <2>1, <4>2, <5>1, <5>2
        <4> QED BY <4>1, <4>2
      <3> HIDE DEF f, m
      <3>7. Counts(f, m)
        <4> HIDE DEF pz
        <4> QED BY <2>2, <2>12, <3>1, <3>2, <3>3, CountOneMore
      <3> QED BY <2>10, <3>0, <3>5, <3>6, <3>7, TableCounts
    <2>14. Sole'
      <3>1. \A y \in Places \ {pz, dz, hz} : Map'[y] = Map[y]
        BY <2>11
      <3>2. \A q \in Tasks, b \in Addrs :
              (q # t \/ b # a) /\ pte[q][b] # NULL /\ pte'[q][b].rw => pte[q][b].rw
        BY <2>7
      <3>3. held'[t] = NULL
        BY <1>2, <2>1
      <3>4. dir'[t][DirOf[a]] = dir[t][DirOf[a]] \/ mem_map'[dir'[t][DirOf[a]]] = 1
        BY <2>3, <2>5, <2>8
      <3>5. pte'[t][a] # NULL /\ pte'[t][a].rw => mem_map'[pte'[t][a].page] = 1
        BY <2>2, <2>4, <2>5, <2>7
      <3>6. \A x \in Places \ {pz, hz} : Map[x] # NULL /\ Exclusive(x) /\ Exclusive(x)' => mem_map'[Map[x]] <= 1
        <4>1. \A x \in Places : Map[x] # NULL => Map[x] \in Pages
          BY <1>1, MapType
        <4> QED BY <1>1, <2>5, <4>1 DEF Sole
      <3> HIDE DEF pz, dz, hz
      <3>7. pz = <<"pte", t, a>> /\ dz = <<"dir", t, DirOf[a]>> /\ hz = <<"held", t, NULL>>
        BY DEF pz, dz, hz
      <3> QED BY <2>10, <2>13, <3>1, <3>2, <3>3, <3>4, <3>5, <3>6, <3>7, PutSole
    <2> QED BY <2>9, <2>10, <2>13, <2>14 DEF IInv
  <1> QED BY <1>3, <1>4

\* What MapTable does to the page tables: another task's stay, t's grow by the
\* one for a, which takes a free page to itself.
LEMMA MapTableIs ==
    ASSUME IInv, NEW t \in Tasks, NEW a \in Addrs, NEW m \in [Pages -> Nat], MapTable(t, a, m),
           Available(TableNeeded(t, a)), NEW g, g = FreePage(1)
    PROVE  /\ dir' \in [Tasks -> [Dirs -> Pages \cup {NULL}]] /\ mem_map' \in [Pages -> Nat]
           /\ dir'[t][DirOf[a]] = IF HasTable(t, a) THEN dir[t][DirOf[a]] ELSE g
           /\ dir'[t][DirOf[a]] # NULL
           /\ \A q \in Tasks, d \in Dirs : q # t \/ d # DirOf[a] => dir'[q][d] = dir[q][d]
           /\ \A q \in Tasks \ {t} : dir'[q] = dir[q]
           /\ \A h \in Pages : mem_map'[h] = IF ~HasTable(t, a) /\ h = g THEN 1 ELSE m[h]
           /\ ~HasTable(t, a) => g \in Pages /\ mem_map[g] = 0 /\ \A x \in Places : Map[x] # g
  <1>1. TypeOK /\ DirOf[a] \in Dirs /\ NULL \notin Pages
    BY MemoryConstants DEF IInv
  <1>2. CASE HasTable(t, a)
    <2>1. dir' = dir /\ mem_map' = m
      BY <1>2 DEF MapTable
    <2> QED BY <1>1, <1>2, <2>1 DEF TypeOK, HasTable
  <1>3. CASE ~HasTable(t, a)
    <2>1. dir' = [dir EXCEPT ![t][DirOf[a]] = g] /\ mem_map' = [m EXCEPT ![g] = 1]
      BY <1>3 DEF MapTable
    <2>2. g \in Pages /\ mem_map[g] = 0 /\ \A x \in Places : Map[x] # g
      <3>1. Available(1)
        BY <1>3 DEF TableNeeded
      <3> QED BY <3>1, FirstFree
    <2>3. dir' \in [Tasks -> [Dirs -> Pages \cup {NULL}]] /\ mem_map' \in [Pages -> Nat]
      BY <1>1, <2>1, <2>2 DEF TypeOK
    <2>4. /\ dir'[t][DirOf[a]] = g
          /\ \A q \in Tasks, d \in Dirs : q # t \/ d # DirOf[a] => dir'[q][d] = dir[q][d]
          /\ \A q \in Tasks \ {t} : dir'[q] = dir[q]
      BY <1>1, <2>1 DEF TypeOK
    <2>5. \A h \in Pages : mem_map'[h] = IF h = g THEN 1 ELSE m[h]
      BY <2>1
    <2> QED BY <1>1, <1>3, <2>2, <2>3, <2>4, <2>5
  <1> QED BY <1>2, <1>3

\* try_to_share counts the page once more and write-protects it on both sides.
LEMMA SharePageKeeps == ASSUME IInv, NEW t \in Tasks, NEW a \in Addrs, SharePage(t, a) PROVE IInv'
  <1> DEFINE pz == <<"pte", t, a>>
             dz == <<"dir", t, DirOf[a]>>
             hz == <<"held", t, NULL>>
             g == FreePage(1)
  <1>1. TypeOK /\ Control /\ Counted /\ Sole
    BY DEF IInv
  <1>2. struct[t] # NULL /\ pte[t][a] = NULL /\ held[t] = NULL
    BY FaultingIs DEF SharePage
  <1>3. CASE DoExit(t, {})
    BY <1>2, <1>3, ExitKeeps
  <1>4. CASE ~DoExit(t, {})
    <2>1. PICK u \in Sharers(t, a) :
          /\ Available(TableNeeded(t, a))
          /\ Share(t, u, a)
          /\ pc' = Resume(t, a)
          /\ UNCHANGED <<contents, struct, executable, held, mem, execed>>
      BY <1>4 DEF SharePage
    <2> DEFINE p == pte[u][a].page
               m == [mem_map EXCEPT ![p] = @ + 1]
               e == [pte[u][a] EXCEPT !.rw = FALSE]
               uz == <<"pte", u, a>>
    <2>2. u \in Tasks /\ u # t /\ pte[u][a] # NULL
      BY <2>1 DEF Sharers, Present
    <2>3. pte[u][a] \in Entries
      BY <1>1, <2>2 DEF TypeOK
    <2>4. p \in Pages /\ e \in Entries /\ e # NULL /\ e.page = p /\ ~e.rw
      BY <2>3, EntryBits
    <2>5. MapTable(t, a, m)
      BY <2>1 DEF Share
    <2>6. pte' = [pte EXCEPT ![u][a].rw = FALSE, ![t][a] = e]
      BY <2>1 DEF Share
    <2>7. m \in [Pages -> Nat] /\ m[p] = mem_map[p] + 1 /\ \A h \in Pages \ {p} : m[h] = mem_map[h]
      BY <1>1, <2>4 DEF TypeOK
    <2>8. uz \in Places /\ Map[uz] = p
      BY <2>2, MapIs
    <2> HIDE DEF e
    <2>9. /\ pte'[t][a] = e /\ pte'[u][a] = e
          /\ \A q \in Tasks, b \in Addrs : q \notin {t, u} \/ b # a => pte'[q][b] = pte[q][b]
      <3>1. [pte EXCEPT ![u][a].rw = FALSE] = [pte EXCEPT ![u][a] = e]
        BY <1>1, <2>2 DEF e, TypeOK
      <3>2. pte' = [[pte EXCEPT ![u][a] = e] EXCEPT ![t][a] = e]
        BY <2>6, <3>1
      <3> QED BY <1>1, <2>2, <3>2 DEF TypeOK
    <2>10. pte' \in [Tasks -> [Addrs -> Entries \cup {NULL}]]
      <3>1. pte' = [q \in Tasks |-> [b \in Addrs |-> pte'[q][b]]]
        BY <1>1, <2>6, ZenonT(60) DEF TypeOK
      <3>2. \A q \in Tasks, b \in Addrs : pte'[q][b] \in Entries \cup {NULL}
        <4>1. \A q \in Tasks, b \in Addrs : pte[q][b] \in Entries \cup {NULL}
          BY <1>1 DEF TypeOK
        <4> HIDE DEF e
        <4> QED BY <2>4, <2>9, <4>1
      <3> QED BY <3>1, <3>2
    <2> HIDE DEF p, m
    <2>11. /\ dir' \in [Tasks -> [Dirs -> Pages \cup {NULL}]] /\ mem_map' \in [Pages -> Nat]
           /\ dir'[t][DirOf[a]] = IF HasTable(t, a) THEN dir[t][DirOf[a]] ELSE g
           /\ dir'[t][DirOf[a]] # NULL
           /\ \A q \in Tasks, d \in Dirs : q # t \/ d # DirOf[a] => dir'[q][d] = dir[q][d]
           /\ \A q \in Tasks \ {t} : dir'[q] = dir[q]
           /\ \A h \in Pages : mem_map'[h] = IF ~HasTable(t, a) /\ h = g THEN 1 ELSE m[h]
           /\ ~HasTable(t, a) => g \in Pages /\ mem_map[g] = 0 /\ \A x \in Places : Map[x] # g
      BY <2>1, <2>5, <2>7, MapTableIs
    <2> HIDE DEF g
    <2>12. ~HasTable(t, a) => p # g /\ m[g] = 0
      BY <2>7, <2>8, <2>11
    <2>13. Control' /\ pc' \in [Tasks -> Labels]
      <3>1. \A d \in Dirs : dir[t][d] # NULL => dir'[t][d] # NULL
        BY <2>11
      <3>2. \A b \in Addrs : b # a /\ pte'[t][b] # NULL => pte[t][b] # NULL
        BY <2>9
      <3>3. \A q \in Tasks \ {t} : \A b \in Addrs : pte'[q][b] = NULL <=> pte[q][b] = NULL
        BY <2>2, <2>4, <2>9
      <3> QED BY <1>2, <2>1, <2>11, <3>1, <3>2, <3>3, ResumeControl
    <2>14. TypeOK'
      BY <1>1, <2>1, <2>10, <2>11, <2>13 DEF TypeOK
    <2>15. \A y \in Places \ {pz, dz} : Map'[y] = Map[y]
      <3> DEFINE X == {pz, dz}
      <3>1. \A q \in Tasks, b \in Addrs : <<"pte", q, b>> \notin X =>
              /\ pte'[q][b] = NULL <=> pte[q][b] = NULL
              /\ pte[q][b] # NULL => pte'[q][b].page = pte[q][b].page
        <4> SUFFICES ASSUME NEW q \in Tasks, NEW b \in Addrs, q # t \/ b # a
                     PROVE  /\ pte'[q][b] = NULL <=> pte[q][b] = NULL
                            /\ pte[q][b] # NULL => pte'[q][b].page = pte[q][b].page
          OBVIOUS
        <4>1. CASE q = u /\ b = a
          BY <2>2, <2>4, <2>9, <4>1 DEF p
        <4>2. CASE ~(q = u /\ b = a)
          BY <2>9, <4>2
        <4> QED BY <4>1, <4>2
      <3>2. \A q \in Tasks, d \in Dirs : <<"dir", q, d>> \notin X => dir'[q][d] = dir[q][d]
        BY <2>11
      <3> HIDE DEF X
      <3>3. \A y \in Places \ X : Map'[y] = Map[y]
        BY <2>1, <3>1, <3>2, MapOutside
      <3> QED BY <3>3 DEF X
    <2>16. pz \in Places /\ Map[pz] = NULL /\ Map'[pz] = p /\ NULL \notin Pages /\ pz # dz
      BY <1>2, <2>4, <2>9, MapIs, MemoryConstants
    <2>17. Counted'
      <3> DEFINE f == [y \in Places |-> IF y = pz THEN p ELSE Map[y]]
      <3>1. f[pz] = p /\ (\A y \in Places \ {pz} : f[y] = Map[y]) /\ Map[pz] \notin Pages
        BY <2>16
      <3>2. Counts(Map, mem_map)
        BY <1>1 DEF Counted
      <3>3. dz \in Places
        BY MapIs, MemoryConstants
      <3>4. f[dz] = Map[dz] /\ \A y \in Places \ {dz} : Map'[y] = f[y]
        BY <2>15, <2>16, <3>1, <3>3
      <3>5. \/ HasTable(t, a) /\ dir' = dir /\ mem_map' = m
            \/ /\ ~HasTable(t, a) /\ g \in Pages /\ m[g] = 0
               /\ dir' = [dir EXCEPT ![t][DirOf[a]] = g] /\ mem_map' = [m EXCEPT ![g] = 1]
        BY <2>5, <2>11, <2>12 DEF MapTable, g
      <3> HIDE DEF f
      <3>6. Counts(f, m)
        <4> HIDE DEF pz
        <4> QED BY <2>4, <2>7, <2>16, <3>1, <3>2, CountOneMore
      <3> QED BY <2>7, <2>14, <3>4, <3>5, <3>6, TableCounts
    <2>18. Sole'
      <3>1. \A y \in Places \ {pz, dz, hz} : Map'[y] = Map[y]
        BY <2>15
      <3>2. \A q \in Tasks, b \in Addrs :
              (q # t \/ b # a) /\ pte[q][b] # NULL /\ pte'[q][b].rw => pte[q][b].rw
        BY <2>4, <2>9
      <3>3. held'[t] = NULL
        BY <1>2, <2>1
      <3>4. dir'[t][DirOf[a]] = dir[t][DirOf[a]] \/ mem_map'[dir'[t][DirOf[a]]] = 1
        BY <2>11
      <3>5. pte'[t][a] # NULL /\ pte'[t][a].rw => mem_map'[pte'[t][a].page] = 1
        BY <2>4, <2>9
      <3>6. ASSUME NEW x \in Places, Map[x] # NULL, Exclusive(x), Exclusive(x)'
            PROVE  mem_map'[Map[x]] <= 1
        <4>1. Map[x] \in Pages /\ mem_map[Map[x]] = 1
          BY <1>1, <3>6, MapType DEF Sole
        <4>2. Map[x] # p
          <5>1. SUFFICES ASSUME Map[x] = p PROVE FALSE
            OBVIOUS
          <5>2. x = uz
            BY <1>1, <2>4, <2>8, <4>1, <5>1, CountsSay DEF Counted
          <5>3. ~pte'[u][a].rw
            BY <2>4, <2>9
          <5> QED BY <3>6, <5>2, <5>3 DEF Exclusive
        <4> QED BY <2>7, <2>11, <4>1, <4>2
      <3> HIDE DEF pz, dz, hz
      <3>7. pz = <<"pte", t, a>> /\ dz = <<"dir", t, DirOf[a]>> /\ hz = <<"held", t, NULL>>
        BY DEF pz, dz, hz
      <3> QED BY <2>14, <2>17, <3>1, <3>2, <3>3, <3>4, <3>5, <3>6, <3>7, PutSole
    <2> QED BY <2>13, <2>14, <2>17, <2>18 DEF IInv
  <1> QED BY <1>3, <1>4

\* A page goes from one place to another.
LEMMA CountMove ==
    ASSUME NEW f, NEW h, NEW m, NEW x \in Places, NEW y \in Places, x # y, NEW g \in Pages,
           \A k \in Pages : m[k] \in Nat, Counts(f, m), f[x] = g, f[y] = NULL, h[x] = NULL, h[y] = g,
           \A w \in Places \ {x, y} : h[w] = f[w]
    PROVE  Counts(h, m)
  <1> DEFINE i == [w \in Places |-> IF w = x THEN NULL ELSE f[w]]
             n == [k \in Pages |-> IF k = g THEN m[k] - 1 ELSE m[k]]
  <1>0. NULL \notin Pages
    BY MemoryConstants
  <1>1. i[x] = NULL /\ i[x] \notin Pages /\ (\A w \in Places \ {x} : i[w] = f[w]) /\ i[y] = NULL
    BY <1>0
  <1>2. n[g] = m[g] - 1 /\ \A k \in Pages \ {g} : n[k] = m[k]
    OBVIOUS
  <1>3. m[g] = n[g] + 1 /\ \A k \in Pages \ {g} : m[k] = n[k]
    OBVIOUS
  <1> HIDE DEF i, n
  <1>4. Counts(i, n)
    BY <1>1, <1>2, CountOneLess
  <1>5. i[y] \notin Pages /\ \A w \in Places \ {y} : h[w] = i[w]
    BY <1>0, <1>1
  <1> QED BY <1>3, <1>4, <1>5, CountOneMore

\* put_page passes the held page on to the page table, or both go.
LEMMA LoadDoneKeeps == ASSUME IInv, NEW t \in Tasks, NEW a \in Addrs, LoadDone(t, a) PROVE IInv'
  <1> DEFINE pz == <<"pte", t, a>>
             dz == <<"dir", t, DirOf[a]>>
             hz == <<"held", t, NULL>>
             g == FreePage(1)
             p == held[t]
             e == [page |-> p, rw |-> TRUE, dirty |-> FALSE]
  <1>1. TypeOK /\ Control /\ Counted /\ Sole
    BY DEF IInv
  <1>2. struct[t] # NULL /\ pc[t] \in {<<"load", a>>, <<"kernel_load", a>>}
    BY DEF LoadDone, At, MayRun
  <1>3. p # NULL /\ p \in Pages /\ executable[t] \in Execs /\ pte[t][a] = NULL
    <2>1. pc[t][1] \in {"load", "kernel_load"} /\ pc[t][2] = a
      BY <1>2
    <2>2. ControlOf(t)
      BY <1>1 DEF Control
    <2> QED BY <1>1, <2>1, <2>2 DEF ControlOf, Loading, TypeOK
  <1>4. CASE DoExit(t, {held[t]})
    BY <1>2, <1>3, <1>4, ExitKeeps
  <1>5. CASE ~DoExit(t, {held[t]})
    <2>1. /\ Available(TableNeeded(t, a))
          /\ MapTable(t, a, mem_map)
          /\ contents' = [contents EXCEPT ![p] = executable[t]]
          /\ pte' = [pte EXCEPT ![t][a] = e]
          /\ held' = [held EXCEPT ![t] = NULL]
          /\ pc' = Resume(t, a)
          /\ UNCHANGED <<struct, executable, mem, execed>>
      BY <1>5 DEF LoadDone
    <2>2. e \in Entries /\ e # NULL /\ e.page = p /\ e.rw
      BY <1>3, NewEntry
    <2> HIDE DEF e, p
    <2>3. pte'[t][a] = e /\ \A q \in Tasks, b \in Addrs : q # t \/ b # a => pte'[q][b] = pte[q][b]
      BY <1>1, <2>1 DEF TypeOK
    <2>4. /\ dir' \in [Tasks -> [Dirs -> Pages \cup {NULL}]] /\ mem_map' \in [Pages -> Nat]
          /\ dir'[t][DirOf[a]] = IF HasTable(t, a) THEN dir[t][DirOf[a]] ELSE g
          /\ dir'[t][DirOf[a]] # NULL
          /\ \A q \in Tasks, d \in Dirs : q # t \/ d # DirOf[a] => dir'[q][d] = dir[q][d]
          /\ \A q \in Tasks \ {t} : dir'[q] = dir[q]
          /\ \A h \in Pages : mem_map'[h] = IF ~HasTable(t, a) /\ h = g THEN 1 ELSE mem_map[h]
          /\ ~HasTable(t, a) => g \in Pages /\ mem_map[g] = 0 /\ \A x \in Places : Map[x] # g
      <3>1. mem_map \in [Pages -> Nat]
        BY <1>1 DEF TypeOK
      <3> QED BY <2>1, <3>1, MapTableIs
    <2>5. held'[t] = NULL /\ \A q \in Tasks \ {t} : held'[q] = held[q]
      BY <1>1, <2>1 DEF TypeOK
    <2>6. Control' /\ pc' \in [Tasks -> Labels]
      <3>1. \A d \in Dirs : dir[t][d] # NULL => dir'[t][d] # NULL
        BY <2>4
      <3>2. \A b \in Addrs : b # a /\ pte'[t][b] # NULL => pte[t][b] # NULL
        BY <2>3
      <3>3. \A q \in Tasks \ {t} : \A b \in Addrs : pte'[q][b] = NULL <=> pte[q][b] = NULL
        BY <2>3
      <3> QED BY <1>2, <2>1, <2>4, <2>5, <3>1, <3>2, <3>3, ResumeControl
    <2>7. TypeOK'
      <3>1. contents' \in [Pages -> Values]
        BY <1>1, <1>3, <2>1 DEF TypeOK, Values
      <3>2. pte' \in [Tasks -> [Addrs -> Entries \cup {NULL}]] /\ held' \in [Tasks -> Pages \cup {NULL}]
        BY <1>1, <2>1, <2>2 DEF TypeOK
      <3> QED BY <1>1, <2>1, <2>4, <2>6, <3>1, <3>2 DEF TypeOK
    <2>8. \A y \in Places \ {pz, dz, hz} : Map'[y] = Map[y]
      <3> DEFINE X == {pz, dz, hz}
      <3>1. \A q \in Tasks, b \in Addrs : <<"pte", q, b>> \notin X => pte'[q][b] = pte[q][b]
        BY <2>3
      <3>2. \A q \in Tasks, d \in Dirs : <<"dir", q, d>> \notin X => dir'[q][d] = dir[q][d]
        BY <2>4
      <3>3. \A q \in Tasks : <<"held", q, NULL>> \notin X => held'[q] = held[q]
        BY <2>5
      <3> HIDE DEF X
      <3>4. \A y \in Places \ X : Map'[y] = Map[y]
        BY <2>1, <3>1, <3>2, <3>3, MapOutside
      <3> QED BY <3>4 DEF X
    <2>9. /\ pz \in Places /\ Map[pz] = NULL /\ Map'[pz] = p
          /\ hz \in Places /\ Map[hz] = p /\ Map'[hz] = NULL
          /\ pz # dz /\ hz # dz /\ pz # hz
      BY <1>3, <2>2, <2>3, <2>5, MapIs DEF p
    <2>10. mem_map[p] = 1
      <3>1. Exclusive(hz)
        BY DEF Exclusive
      <3> QED BY <1>1, <1>3, <2>9, <3>1 DEF Sole
    <2>11. ~HasTable(t, a) => p # g
      BY <2>4, <2>9
    <2>12. Counted'
      <3> DEFINE f == [y \in Places |-> IF y = pz THEN p ELSE IF y = hz THEN NULL ELSE Map[y]]
      <3>1. f[pz] = p /\ f[hz] = NULL /\ \A y \in Places \ {hz, pz} : f[y] = Map[y]
        BY <2>9
      <3>2. Counts(Map, mem_map) /\ mem_map \in [Pages -> Nat]
        BY <1>1 DEF Counted, TypeOK
      <3>3. dz \in Places
        BY MapIs, MemoryConstants
      <3>4. f[dz] = Map[dz] /\ \A y \in Places \ {dz} : Map'[y] = f[y]
        BY <2>8, <2>9, <3>1, <3>3
      <3>5. \/ HasTable(t, a) /\ dir' = dir /\ mem_map' = mem_map
            \/ /\ ~HasTable(t, a) /\ g \in Pages /\ mem_map[g] = 0
               /\ dir' = [dir EXCEPT ![t][DirOf[a]] = g] /\ mem_map' = [mem_map EXCEPT ![g] = 1]
        BY <2>1, <2>4 DEF MapTable
      <3> HIDE DEF f, g
      <3>6. Counts(f, mem_map)
        <4> HIDE DEF pz, hz
        <4> QED BY <1>3, <2>9, <3>1, <3>2, CountMove
      <3> QED BY <2>7, <3>2, <3>4, <3>5, <3>6, TableCounts
    <2>13. Sole'
      <3>2. \A q \in Tasks, b \in Addrs :
              (q # t \/ b # a) /\ pte[q][b] # NULL /\ pte'[q][b].rw => pte[q][b].rw
        BY <2>3
      <3>4. dir'[t][DirOf[a]] = dir[t][DirOf[a]] \/ mem_map'[dir'[t][DirOf[a]]] = 1
        BY <2>4
      <3>5. pte'[t][a] # NULL /\ pte'[t][a].rw => mem_map'[pte'[t][a].page] = 1
        BY <1>3, <2>2, <2>3, <2>4, <2>10, <2>11
      <3>6. \A x \in Places \ {pz, hz} : Map[x] # NULL /\ Exclusive(x) /\ Exclusive(x)' => mem_map'[Map[x]] <= 1
        <4>1. \A x \in Places : Map[x] # NULL => Map[x] \in Pages
          BY <1>1, MapType
        <4> QED BY <1>1, <2>4, <4>1 DEF Sole
      <3> HIDE DEF pz, dz, hz
      <3>7. pz = <<"pte", t, a>> /\ dz = <<"dir", t, DirOf[a]>> /\ hz = <<"held", t, NULL>>
        BY DEF pz, dz, hz
      <3> QED BY <2>5, <2>7, <2>8, <2>12, <3>2, <3>4, <3>5, <3>6, <3>7, PutSole
    <2> QED BY <2>6, <2>7, <2>12, <2>13 DEF IInv
  <1> QED BY <1>4, <1>5

\* do_execve gives back the old space and maps the page of the arguments.
LEMMA ExecEndKeeps == ASSUME IInv, NEW t \in Tasks, ExecEnd(t) PROVE IInv'
  <1> DEFINE ds == DirOf[Stack]
             pz == <<"pte", t, Stack>>
             dz == <<"dir", t, ds>>
             hz == <<"held", t, NULL>>
             p == held[t]
             e == [page |-> p, rw |-> TRUE, dirty |-> FALSE]
             freed == MapWithout(t, {})
             h == CHOOSE g \in Pages : freed[g] = 0 /\ \A i \in Pages : freed[i] = 0 => i <= g
             f == [x \in Places |-> IF x \in Space(t) THEN NULL ELSE Map[x]]
  <1>1. TypeOK /\ Control /\ Counted /\ Sole /\ Stack \in Addrs /\ ds \in Dirs /\ NULL \notin Pages
    BY MemoryConstants DEF IInv
  <1>2. /\ struct[t] # NULL /\ pc[t] = <<"exec", NULL>>
        /\ mem_map' = [freed EXCEPT ![h] = 1]
        /\ dir' = [dir EXCEPT ![t] = [d \in Dirs |-> IF d = ds THEN h ELSE NULL]]
        /\ pte' = [pte EXCEPT ![t] = [a \in Addrs |-> IF a = Stack THEN e ELSE NULL]]
        /\ held' = [held EXCEPT ![t] = NULL]
        /\ mem' = [mem EXCEPT ![t] = [a \in Addrs |-> IF a = Stack THEN t
                                     ELSE IF a \in Loaded THEN executable[t] ELSE "zero"]]
        /\ pc' = [pc EXCEPT ![t] = User]
        /\ UNCHANGED <<contents, struct, executable, execed>>
    BY DEF ExecEnd, At, MayRun
  <1>3. p # NULL /\ p \in Pages /\ executable[t] \in Execs /\ dir[t][ds] # NULL /\ dir[t][ds] \in Pages
    <2>1. ControlOf(t) /\ pc[t][1] = "exec"
      BY <1>1, <1>2 DEF Control
    <2> QED BY <1>1, <2>1 DEF ControlOf, Loading, TypeOK
  <1>4. \A g \in Pages : freed[g] = mem_map[g] - Refs(t, g)
    <2>1. \A g \in Pages : mem_map[g] \in Nat /\ Refs(t, g) \in Nat
      BY <1>1, RefsIs DEF TypeOK
    <2> QED BY <2>1 DEF MapWithout
  <1>5. Counts(f, freed)
    <2>1. \A x \in Places : f[x] = IF x \in Space(t) THEN NULL ELSE Map[x]
      OBVIOUS
    <2> HIDE DEF f, freed
    <2> QED BY <1>1, <1>4, <2>1, CountWithoutSpace
  <1>6. \A g \in Pages : freed[g] \in Nat /\ freed[g] <= mem_map[g]
    <2>1. \A g \in Pages : mem_map[g] \in Nat /\ Refs(t, g) \in Nat
      BY <1>1, RefsIs DEF TypeOK
    <2> HIDE DEF f, freed
    <2> QED BY <1>4, <1>5, <2>1, CountsSay
  <1>7. hz \in Places /\ Map[hz] = p /\ mem_map[p] = 1 /\ f[hz] = p /\ freed[p] = 1
    <2>1. hz \in Places /\ Map[hz] = p /\ hz \notin Space(t) /\ Exclusive(hz)
      BY MapIs DEF Space, Exclusive
    <2>2. mem_map[p] = 1
      BY <1>1, <1>3, <2>1 DEF Sole
    <2>3. f[hz] = p
      BY <2>1
    <2>4. freed[p] >= 1
      <3> HIDE DEF f, freed, p, hz
      <3> QED BY <1>3, <1>5, <2>1, <2>3, CountsSay
    <2> HIDE DEF f, freed, p, hz
    <2> QED BY <1>3, <1>6, <2>1, <2>2, <2>3, <2>4
  <1>8. h \in Pages /\ freed[h] = 0
    <2> DEFINE Z == {g \in Pages : freed[g] = 0}
    <2>1. freed[dir[t][ds]] = 0
      <3>1. dz \in Places /\ Map[dz] = dir[t][ds] /\ Exclusive(dz) /\ dz \in Space(t)
        BY <1>1, MapIs DEF Exclusive, Space
      <3>2. mem_map[dir[t][ds]] = 1
        BY <1>1, <1>3, <3>1 DEF Sole
      <3>3. \A x \in Places : f[x] # dir[t][ds]
        <4> SUFFICES ASSUME NEW x \in Places, f[x] = dir[t][ds] PROVE FALSE
          OBVIOUS
        <4>1. x \notin Space(t) /\ Map[x] = dir[t][ds]
          BY <1>3
        <4>2. x = dz
          BY <1>1, <1>3, <3>1, <3>2, <4>1, CountsSay DEF Counted
        <4> QED BY <3>1, <4>1, <4>2
      <3> HIDE DEF f, freed, ds
      <3>4. {x \in Places : f[x] = dir[t][ds]} = {}
        BY <3>3
      <3>5. freed[dir[t][ds]] = Cardinality({x \in Places : f[x] = dir[t][ds]})
        BY <1>3, <1>5 DEF Counts
      <3> QED BY <3>4, <3>5, FS_EmptySet
    <2>2. Z # {} /\ Z \in SUBSET Nat /\ IsFiniteSet(Z)
      <3>1. dir[t][ds] \in Z
        BY <1>3, <2>1
      <3>2. Z \in SUBSET Pages
        OBVIOUS
      <3> QED BY <3>1, <3>2, MemoryConstants, FS_Subset
    <2> HIDE DEF freed
    <2>3. PICK g \in Z : \A i \in Z : i <= g
      <3>1. Cardinality(Z) \in Nat /\ Cardinality(Z) # 0
        BY <2>2, FS_EmptySet, FS_CardinalityType
      <3> HIDE DEF Z
      <3>2. PICK g \in Z : Cardinality({i \in Z : i > g}) = 1 - 1
        BY <2>2, <3>1, NthFromAbove, SMTT(30)
      <3>3. IsFiniteSet({i \in Z : i > g})
        BY <2>2, FS_Subset
      <3>4. {i \in Z : i > g} = {}
        BY <3>2, <3>3, FS_EmptySet
      <3>5. \A i \in Z : i \in Nat /\ ~(i > g)
        BY <2>2, <3>4
      <3>6. g \in Nat
        BY <2>2
      <3> QED BY <3>5, <3>6
    <2>4. g \in Pages /\ freed[g] = 0 /\ \A i \in Pages : freed[i] = 0 => i <= g
      BY <2>3
    <2> QED BY <2>4
  <1>9. e \in Entries /\ e # NULL /\ e.page = p /\ e.rw
    BY <1>3, NewEntry
  <1> HIDE DEF e, h, p, ds
  <1>10. /\ pte'[t] = [a \in Addrs |-> IF a = Stack THEN e ELSE NULL]
         /\ dir'[t] = [d \in Dirs |-> IF d = ds THEN h ELSE NULL]
         /\ held'[t] = NULL /\ pc'[t] = User
         /\ \A q \in Tasks \ {t} : /\ pte'[q] = pte[q] /\ dir'[q] = dir[q]
                                   /\ held'[q] = held[q] /\ pc'[q] = pc[q]
    BY <1>1, <1>2 DEF TypeOK
  <1> HIDE DEF freed
  <1>11. freed = [g \in Pages |-> freed[g]]
    BY DEF freed, MapWithout
  <1>12. mem_map' = [g \in Pages |-> IF g = h THEN 1 ELSE freed[g]]
    BY <1>2, <1>8, <1>11
  <1>13. TypeOK'
    <2>1. mem_map' \in [Pages -> Nat]
      BY <1>6, <1>12
    <2>2. dir' \in [Tasks -> [Dirs -> Pages \cup {NULL}]]
      BY <1>1, <1>2, <1>8 DEF TypeOK
    <2>3. pte' \in [Tasks -> [Addrs -> Entries \cup {NULL}]]
      BY <1>1, <1>2, <1>9 DEF TypeOK
    <2>4. mem' \in [Tasks -> [Addrs -> Values]]
      BY <1>1, <1>2, <1>3 DEF TypeOK, Values
    <2>5. held' \in [Tasks -> Pages \cup {NULL}] /\ pc' \in [Tasks -> Labels]
      BY <1>1, <1>2 DEF TypeOK, Labels
    <2> QED BY <1>1, <1>2, <2>1, <2>2, <2>3, <2>4, <2>5 DEF TypeOK
  <1>14. Control'
    <2>1. dir'[t][DirOf[Stack]] # NULL
      BY <1>1, <1>8, <1>10 DEF ds
    <2>2. \A a \in Addrs : pte'[t][a] # NULL => dir'[t][DirOf[a]] # NULL
      BY <1>10, <2>1
    <2>3. pc'[t][1] = "user" /\ struct'[t] # NULL
      BY <1>2, <1>10 DEF User
    <2>4. ControlOf(t)'
      BY <1>10, <2>2, <2>3 DEF ControlOf, Loading
    <2>5. \A q \in Tasks \ {t} : SameFor(q)
      BY <1>2, <1>10 DEF SameFor
    <2> QED BY <1>1, <2>4, <2>5, LocalControl
  <1>15. /\ pz \in Places /\ dz \in Places /\ pz # dz /\ pz # hz /\ hz # dz
         /\ pz \in Space(t) /\ dz \in Space(t) /\ hz \notin Space(t)
    BY <1>1, MapIs DEF Space, ds
  <1>16. ASSUME NEW x \in Places
         PROVE  Map'[x] = IF x = pz THEN p ELSE IF x = dz THEN h ELSE IF x = hz THEN NULL ELSE f[x]
    <2>1. CASE \E q \in Tasks, a \in Addrs : x = <<"pte", q, a>>
      <3>1. PICK q \in Tasks, a \in Addrs : x = <<"pte", q, a>>
        BY <2>1
      <3>2. (x = pz <=> q = t /\ a = Stack) /\ x # dz /\ x # hz /\ (x \in Space(t) <=> q = t)
        BY <3>1 DEF Space
      <3>3. Map'[x] = IF pte'[q][a] # NULL THEN pte'[q][a].page ELSE NULL
        BY <3>1, MapIs
      <3>4. Map[x] = IF pte[q][a] # NULL THEN pte[q][a].page ELSE NULL
        BY <3>1, MapIs
      <3> QED BY <1>9, <1>10, <3>2, <3>3, <3>4
    <2>2. CASE \E q \in Tasks, d \in Dirs : x = <<"dir", q, d>>
      <3>1. PICK q \in Tasks, d \in Dirs : x = <<"dir", q, d>>
        BY <2>2
      <3>2. (x = dz <=> q = t /\ d = ds) /\ x # pz /\ x # hz /\ (x \in Space(t) <=> q = t)
        BY <3>1 DEF Space
      <3>3. Map'[x] = dir'[q][d] /\ Map[x] = dir[q][d]
        BY <3>1, MapIs
      <3> QED BY <1>10, <3>2, <3>3
    <2>3. CASE \E q \in Tasks : x = <<"struct", q, NULL>>
      <3>1. PICK q \in Tasks : x = <<"struct", q, NULL>>
        BY <2>3
      <3>2. x # dz /\ x # pz /\ x # hz /\ x \notin Space(t)
        BY <3>1 DEF Space
      <3> QED BY <1>2, <3>1, <3>2, MapIs, ZenonT(60)
    <2>4. CASE \E q \in Tasks : x = <<"held", q, NULL>>
      <3>1. PICK q \in Tasks : x = <<"held", q, NULL>>
        BY <2>4
      <3>2. x # dz /\ x # pz /\ (x = hz <=> q = t) /\ x \notin Space(t)
        BY <3>1 DEF Space
      <3>3. Map'[x] = held'[q] /\ Map[x] = held[q]
        BY <3>1, MapIs
      <3> QED BY <1>10, <3>2, <3>3
    <2> QED BY <2>1, <2>2, <2>3, <2>4, PlaceForms
  <1>17. f[pz] = NULL /\ f[dz] = NULL
    BY <1>15
  <1> HIDE DEF f, pz, dz, hz
  <1>18. Counted'
    <2> DEFINE i == [x \in Places |-> IF x = pz THEN p ELSE IF x = hz THEN NULL ELSE f[x]]
    <2>1. i[pz] = p /\ i[hz] = NULL /\ \A x \in Places \ {hz, pz} : i[x] = f[x]
      BY <1>7, <1>15
    <2>2. i[dz] = NULL /\ \A x \in Places \ {dz} : Map'[x] = i[x]
      BY <1>15, <1>16, <1>17
    <2> HIDE DEF i
    <2>3. freed \in [Pages -> Nat]
      BY <1>6, <1>11
    <2>4. Counts(i, freed)
      <3>1. hz \in Places /\ pz \in Places /\ hz # pz /\ p \in Pages
        BY <1>3, <1>5, <1>7, <1>15
      <3>2. \A g \in Pages : freed[g] \in Nat
        BY <2>3
      <3>3. Counts(f, freed) /\ f[hz] = p /\ f[pz] = NULL
        BY <1>3, <1>5, <1>7, <1>15, <1>17
      <3> QED BY <2>1, <3>1, <3>2, <3>3, CountMove
    <2>5. mem_map'[h] = freed[h] + 1 /\ \A g \in Pages \ {h} : mem_map'[g] = freed[g]
      BY <1>8, <1>12
    <2>6. i[dz] \notin Pages /\ Map'[dz] = h
      BY <1>1, <1>15, <1>16, <2>2
    <2>7. Counts(Map', mem_map')
      BY <1>8, <1>15, <2>2, <2>4, <2>5, <2>6, CountOneMore
    <2> QED BY <2>7 DEF Counted
  <1>19. Sole'
    <2>1. \A g \in Pages : mem_map'[g] <= mem_map[g] \/ mem_map'[g] = 1
      BY <1>6, <1>12
    <2>2. ASSUME NEW x \in Places, Map'[x] # NULL, Exclusive(x)'
          PROVE  \/ mem_map'[Map'[x]] = 1
                 \/ Map'[x] = Map[x] /\ Exclusive(x) /\ mem_map'[Map[x]] <= mem_map[Map[x]]
      <3>1. CASE x = dz
        BY <1>8, <1>12, <1>15, <1>16, <3>1
      <3>2. CASE x = pz
        <4>1. mem_map'[p] = 1
          BY <1>3, <1>7, <1>12
        <4> QED BY <1>16, <3>2, <4>1
      <3>3. CASE x # dz /\ x # pz
        <4>1. x # hz /\ Map'[x] = f[x]
          BY <1>15, <1>16, <2>2, <3>3
        <4>2. x \notin Space(t) /\ Map'[x] = Map[x]
          BY <2>2, <4>1 DEF f
        <4>3. Exclusive(x)
          <5>1. CASE \E q \in Tasks, a \in Addrs : x = <<"pte", q, a>>
            <6>1. PICK q \in Tasks, a \in Addrs : x = <<"pte", q, a>>
              BY <5>1
            <6>2. q # t
              BY <4>2, <6>1 DEF Space
            <6> QED BY <1>10, <2>2, <6>1, <6>2 DEF Exclusive
          <5>2. CASE ~\E q \in Tasks, a \in Addrs : x = <<"pte", q, a>>
            BY <5>2, PlaceForms DEF Exclusive
          <5> QED BY <5>1, <5>2
        <4>4. Map[x] \in Pages
          BY <1>1, <2>2, <4>2, MapType
        <4> QED BY <2>1, <4>2, <4>3, <4>4
      <3> QED BY <3>1, <3>2, <3>3
    <2> QED BY <1>1, <1>13, <1>18, <2>2, SoleKept
  <1> QED BY <1>13, <1>14, <1>18, <1>19 DEF IInv

\* The pages copy_page_tables gets for the tables of t are free, different from
\* one another and from the page of the task structure.
LEMMA ForkPages ==
    ASSUME IInv, NEW t \in Tasks, Available(1 + Cardinality(Tables(t))),
           NEW new, new = [d \in Tables(t) |-> FreePage(2 + Cardinality({e \in Tables(t) : e < d}))],
           NEW s, s = FreePage(1)
    PROVE  /\ s \in FreePages
           /\ \A d \in Tables(t) : new[d] \in FreePages /\ new[d] # s
           /\ \A d, e \in Tables(t) : new[d] = new[e] => d = e
  <1> DEFINE T == Tables(t)
             Below(d) == {e \in T : e < d}
             Above(g) == {h \in FreePages : h > g}
  <1>1. IsFiniteSet(T) /\ T \in SUBSET Nat /\ Cardinality(T) \in Nat
    BY MemoryConstants, FS_Subset, FS_CardinalityType DEF Tables
  <1>2. s \in FreePages /\ Cardinality(Above(s)) = 0
    <2>1. Available(1)
      BY <1>1, FewerAvailable
    <2> QED BY <2>1, FreePageIs
  <1> HIDE DEF T
  <1>3. ASSUME NEW d \in T
        PROVE  IsFiniteSet(Below(d)) /\ Cardinality(Below(d)) \in Nat /\ Cardinality(Below(d)) + 1 <= Cardinality(T)
    <2>1. IsFiniteSet(T \ {d}) /\ Cardinality(T \ {d}) = Cardinality(T) - 1
      BY <1>1, FS_RemoveElement
    <2>2. Below(d) \in SUBSET (T \ {d})
      BY <1>1
    <2>3. IsFiniteSet(Below(d)) /\ Cardinality(Below(d)) <= Cardinality(T \ {d}) /\ Cardinality(Below(d)) \in Nat
      BY <2>1, <2>2, FS_Subset, FS_CardinalityType
    <2> QED BY <1>1, <2>1, <2>3
  <1>4. ASSUME NEW d \in T
        PROVE  new[d] \in FreePages /\ Cardinality(Above(new[d])) = Cardinality(Below(d)) + 1
    <2> DEFINE n == 2 + Cardinality(Below(d))
    <2>1. n \in Nat \ {0} /\ n - 1 = Cardinality(Below(d)) + 1
      BY <1>3
    <2>2. Available(n)
      <3>1. n <= 1 + Cardinality(T) /\ n \in Nat /\ 1 + Cardinality(T) \in Nat
        BY <1>1, <1>3
      <3> HIDE DEF n
      <3> QED BY <3>1, FewerAvailable DEF T
    <2>3. new[d] = FreePage(n)
      BY DEF T
    <2> HIDE DEF n
    <2> QED BY <2>1, <2>2, <2>3, FreePageIs
  <1>5. ASSUME NEW d \in T, NEW e \in T, d < e PROVE Cardinality(Below(d)) < Cardinality(Below(e))
    <2>1. d \in Below(e) /\ Below(d) \in SUBSET (Below(e) \ {d})
      <3>1. \A x \in T : x \in Nat
        BY <1>1
      <3>2. \A x \in T : x < d => x < e /\ x # d
        BY <1>5, <3>1
      <3> QED BY <1>5, <3>2
    <2> HIDE DEF Below
    <2>2. IsFiniteSet(Below(e) \ {d}) /\ Cardinality(Below(e) \ {d}) = Cardinality(Below(e)) - 1
      BY <1>3, <2>1, FS_RemoveElement
    <2>3. Cardinality(Below(d)) <= Cardinality(Below(e) \ {d})
      BY <2>1, <2>2, FS_Subset
    <2> QED BY <1>3, <2>2, <2>3
  <1>6. ASSUME NEW d \in T, NEW e \in T, new[d] = new[e] PROVE d = e
    <2>1. Cardinality(Below(d)) = Cardinality(Below(e))
      <3>1. /\ Cardinality(Above(new[d])) = Cardinality(Below(d)) + 1 /\ Cardinality(Below(d)) \in Nat
            /\ Cardinality(Above(new[e])) = Cardinality(Below(e)) + 1 /\ Cardinality(Below(e)) \in Nat
        BY <1>3, <1>4
      <3> HIDE DEF Below, Above
      <3> QED BY <1>6, <3>1
    <2>2. d \in Nat /\ e \in Nat
      BY <1>1
    <2> HIDE DEF Below
    <2>3. ~(d < e) /\ ~(e < d)
      BY <1>3, <1>5, <2>1
    <2> QED BY <2>2, <2>3
  <1>7. ASSUME NEW d \in T PROVE new[d] # s
    <2>1. Cardinality(Above(new[d])) # 0
      <3>1. Cardinality(Above(new[d])) = Cardinality(Below(d)) + 1 /\ Cardinality(Below(d)) \in Nat
        BY <1>3, <1>4
      <3> HIDE DEF Below, Above
      <3> QED BY <3>1
    <2> QED BY <1>2, <2>1
  <1> QED BY <1>2, <1>4, <1>6, <1>7 DEF T

\* fork counts every page of the parent once more, and write-protects it.
LEMMA ForkKeeps == ASSUME IInv, NEW t \in Tasks, NEW u \in Tasks \ {t}, Fork(t, u) PROVE IInv'
  <1> DEFINE s == FreePage(1)
             new == [d \in Tables(t) |-> FreePage(2 + Cardinality({e \in Tables(t) : e < d}))]
             got == {s} \cup {new[d] : d \in Tables(t)}
             sz == <<"struct", u, NULL>>
             Shared(g) == {a \in Addrs : Present(t, a) /\ pte[t][a].page = g}
             P == Protected(t, Dirs)
  <1>1. TypeOK /\ Control /\ Counted /\ Sole /\ NULL \notin Pages
    BY MemoryConstants DEF IInv
  <1>2. /\ struct[t] # NULL /\ pc[t] = User /\ struct[u] = NULL
        /\ Available(1 + Cardinality(Tables(t)))
        /\ mem_map' = [g \in Pages |-> IF g \in got THEN 1 ELSE mem_map[g] + Cardinality(Shared(g))]
        /\ contents' = [g \in Pages |-> IF g \in got THEN "zero" ELSE contents[g]]
        /\ struct' = [struct EXCEPT ![u] = s]
        /\ dir' = [dir EXCEPT ![u] = [d \in Dirs |-> IF d \in Tables(t) THEN new[d] ELSE NULL]]
        /\ pte' = [pte EXCEPT ![t] = P, ![u] = P]
        /\ executable' = [executable EXCEPT ![u] = executable[t]]
        /\ mem' = [mem EXCEPT ![u] = mem[t]]
        /\ UNCHANGED <<held, pc, execed>>
    BY DEF Fork, At, MayRun
  <1>3. /\ s \in FreePages
        /\ \A d \in Tables(t) : new[d] \in FreePages /\ new[d] # s
        /\ \A d, e \in Tables(t) : new[d] = new[e] => d = e
    <2> HIDE DEF s, new
    <2>1. s = FreePage(1) /\ new = [d \in Tables(t) |-> FreePage(2 + Cardinality({e \in Tables(t) : e < d}))]
      BY DEF s, new
    <2> QED BY <1>2, <2>1, ForkPages
  <1> HIDE DEF s, new
  <1>4. \A g \in got : g \in FreePages
    BY <1>3
  <1>5. \A g \in got : g \in Pages /\ mem_map[g] = 0 /\ \A x \in Places : Map[x] # g
    BY <1>4, FreePageUnused
  <1>6. /\ P \in [Addrs -> Entries \cup {NULL}]
        /\ \A a \in Addrs : /\ P[a] = NULL <=> pte[t][a] = NULL
                            /\ pte[t][a] # NULL => P[a].page = pte[t][a].page /\ ~P[a].rw
    BY <1>1, ProtectedIs, MemoryConstants
  <1>7. ControlOf(u) /\ ControlOf(t) /\ Empty(u) /\ pc[u] = User
    BY <1>1, <1>2 DEF Control, ControlOf
  <1> HIDE DEF P
  <1>8. /\ pte'[t] = P /\ pte'[u] = P /\ \A q \in Tasks \ {t, u} : pte'[q] = pte[q]
        /\ struct'[u] = s /\ \A q \in Tasks \ {u} : struct'[q] = struct[q]
        /\ dir'[u] = [d \in Dirs |-> IF d \in Tables(t) THEN new[d] ELSE NULL]
        /\ \A q \in Tasks \ {u} : dir'[q] = dir[q]
        /\ executable'[u] = executable[t] /\ \A q \in Tasks \ {u} : executable'[q] = executable[q]
        /\ held' = held /\ pc' = pc
    BY <1>1, <1>2 DEF TypeOK
  <1>9. ASSUME NEW g PROVE IsFiniteSet(Shared(g)) /\ Cardinality(Shared(g)) \in Nat
    BY MemoryConstants, FS_Subset, FS_CardinalityType
  <1>10. TypeOK'
    <2>1. mem_map' \in [Pages -> Nat]
      <3> HIDE DEF Shared, got
      <3> QED BY <1>1, <1>2, <1>9 DEF TypeOK
    <2>2. contents' \in [Pages -> Values]
      <3> HIDE DEF got
      <3> QED BY <1>1, <1>2 DEF TypeOK, Values
    <2>3. struct' \in [Tasks -> Pages \cup {NULL}]
      BY <1>1, <1>2, <1>5 DEF TypeOK
    <2>4. dir' \in [Tasks -> [Dirs -> Pages \cup {NULL}]]
      <3>1. \A d \in Tables(t) : new[d] \in Pages
        BY <1>5
      <3>2. [d \in Dirs |-> IF d \in Tables(t) THEN new[d] ELSE NULL] \in [Dirs -> Pages \cup {NULL}]
        BY <3>1
      <3> QED BY <1>1, <1>2, <3>2 DEF TypeOK
    <2>5. pte' \in [Tasks -> [Addrs -> Entries \cup {NULL}]]
      BY <1>1, <1>2, <1>6 DEF TypeOK
    <2>6. executable' \in [Tasks -> Execs \cup {NULL}] /\ mem' \in [Tasks -> [Addrs -> Values]]
      BY <1>1, <1>2 DEF TypeOK
    <2> QED BY <1>1, <1>2, <2>1, <2>2, <2>3, <2>4, <2>5, <2>6 DEF TypeOK
  <1>11. Control'
    <2>1. \A q \in Tasks \ {u} : SameFor(q)
      <3>1. SameFor(t)
        BY <1>6, <1>8 DEF SameFor
      <3> QED BY <1>8, <3>1 DEF SameFor
    <2>2. struct'[u] # NULL
      BY <1>1, <1>5, <1>8
    <2>3. \A a \in Addrs : pte'[u][a] # NULL => dir'[u][DirOf[a]] # NULL
      <3> SUFFICES ASSUME NEW a \in Addrs, pte'[u][a] # NULL PROVE dir'[u][DirOf[a]] # NULL
        OBVIOUS
      <3>1. pte[t][a] # NULL /\ DirOf[a] \in Dirs
        BY <1>6, <1>8, MemoryConstants
      <3>2. DirOf[a] \in Tables(t)
        BY <1>7, <3>1 DEF ControlOf, Tables
      <3>3. new[DirOf[a]] \in Pages
        BY <1>5, <3>2
      <3> QED BY <1>1, <1>8, <3>1, <3>2, <3>3
    <2>4. pc'[u][1] = "user" /\ held'[u] = NULL
      BY <1>7, <1>8 DEF User, Empty
    <2>5. ControlOf(u)'
      BY <2>2, <2>3, <2>4 DEF ControlOf, Loading
    <2> QED BY <1>1, <2>1, <2>5, LocalControl
  <1>12. ASSUME NEW x \in Places
         PROVE  /\ \A a \in Addrs : x = <<"pte", u, a>> =>
                      Map[x] = NULL /\ Map'[x] = Map[<<"pte", t, a>>]
                /\ \A d \in Dirs : x = <<"dir", u, d>> =>
                      Map[x] = NULL /\ Map'[x] = IF d \in Tables(t) THEN new[d] ELSE NULL
                /\ x = sz => Map[x] = NULL /\ Map'[x] = s
                /\ (\A a \in Addrs : x # <<"pte", u, a>>) /\ (\A d \in Dirs : x # <<"dir", u, d>>) /\ x # sz
                      => Map'[x] = Map[x]
    <2>1. ASSUME NEW a \in Addrs, x = <<"pte", u, a>>
          PROVE  Map[x] = NULL /\ Map'[x] = Map[<<"pte", t, a>>]
      <3>1. pte[u][a] = NULL /\ pte'[u][a] = P[a]
        BY <1>7, <1>8 DEF Empty
      <3>2. Map[x] = NULL /\ Map'[x] = IF P[a] # NULL THEN P[a].page ELSE NULL
        BY <2>1, <3>1, MapIs
      <3>3. Map[<<"pte", t, a>>] = IF pte[t][a] # NULL THEN pte[t][a].page ELSE NULL
        BY MapIs
      <3> QED BY <1>6, <3>2, <3>3
    <2>2. ASSUME NEW d \in Dirs, x = <<"dir", u, d>>
          PROVE  Map[x] = NULL /\ Map'[x] = IF d \in Tables(t) THEN new[d] ELSE NULL
      BY <1>7, <1>8, <2>2, MapIs DEF Empty
    <2>3. ASSUME x = sz PROVE Map[x] = NULL /\ Map'[x] = s
      BY <1>2, <1>8, <2>3, MapIs
    <2>4. ASSUME \A a \in Addrs : x # <<"pte", u, a>>, \A d \in Dirs : x # <<"dir", u, d>>, x # sz
          PROVE  Map'[x] = Map[x]
      <3> DEFINE X == {y \in Places : y[2] = u /\ y[1] \in {"pte", "dir", "struct"}}
      <3>1. \A q \in Tasks, a \in Addrs : <<"pte", q, a>> \notin X =>
              /\ pte'[q][a] = NULL <=> pte[q][a] = NULL
              /\ pte[q][a] # NULL => pte'[q][a].page = pte[q][a].page
        <4> SUFFICES ASSUME NEW q \in Tasks, NEW a \in Addrs, q # u
                     PROVE  /\ pte'[q][a] = NULL <=> pte[q][a] = NULL
                            /\ pte[q][a] # NULL => pte'[q][a].page = pte[q][a].page
          BY MapIs
        <4> QED BY <1>6, <1>8
      <3>2. \A q \in Tasks, d \in Dirs : <<"dir", q, d>> \notin X => dir'[q][d] = dir[q][d]
        <4> SUFFICES ASSUME NEW q \in Tasks, NEW d \in Dirs, q # u
                     PROVE  dir'[q][d] = dir[q][d]
          BY MapIs
        <4> QED BY <1>8
      <3>3. \A q \in Tasks : <<"struct", q, NULL>> \notin X => struct'[q] = struct[q]
        <4> SUFFICES ASSUME NEW q \in Tasks, q # u
                     PROVE  struct'[q] = struct[q]
          BY MapIs
        <4> QED BY <1>8
      <3>4. x \notin X
        BY <2>4, PlaceForms
      <3> HIDE DEF X
      <3>5. \A y \in Places \ X : Map'[y] = Map[y]
        BY <1>8, <3>1, <3>2, <3>3, MapOutside
      <3> QED BY <3>4, <3>5
    <2> QED BY <2>1, <2>2, <2>3, <2>4

  <1>13. \A d \in Dirs : <<"dir", u, d>> \in Places /\ sz \in Places
    BY MapIs
  <1> HIDE DEF sz
  <1>14. ASSUME NEW g \in Pages PROVE mem_map'[g] = Cardinality({x \in Places : Map'[x] = g})
    <2>1. CASE g \in got
      <3>1. PICK z \in Places : {x \in Places : Map'[x] = g} = {z}
        <4>1. ASSUME NEW x \in Places, Map'[x] = g
              PROVE  x = sz \/ \E d \in Dirs : x = <<"dir", u, d>>
          <5>1. \A a \in Addrs : Map[<<"pte", t, a>>] # g
            BY <1>5, <2>1, MapIs
          <5> QED BY <1>5, <1>12, <2>1, <4>1, <5>1
        <4>2. CASE g = s
          <5>1. Map'[sz] = g
            BY <1>12, <1>13, <4>2, MapIs DEF sz
          <5>2. \A d \in Dirs : Map'[<<"dir", u, d>>] # g
            BY <1>1, <1>3, <1>12, <1>13, <4>2
          <5>3. sz \in Places
            BY MapIs DEF sz
          <5>4. \A x \in Places : Map'[x] = g => x = sz
            BY <4>1, <5>2
          <5>5. {x \in Places : Map'[x] = g} = {sz}
            BY <5>1, <5>3, <5>4
          <5> QED BY <5>3, <5>5
        <4>3. CASE \E d \in Tables(t) : g = new[d]
          <5>1. PICK d \in Tables(t) : g = new[d]
            BY <4>3
          <5>2. d \in Dirs
            BY DEF Tables
          <5>3. Map'[<<"dir", u, d>>] = g /\ <<"dir", u, d>> \in Places
            BY <1>12, <1>13, <5>1, <5>2
          <5>4. Map'[sz] # g
            BY <1>3, <1>12, <1>13, <5>1, <5>2
          <5>5. \A e \in Dirs : Map'[<<"dir", u, e>>] = g => e = d
            BY <1>1, <1>3, <1>12, <1>13, <5>1
          <5>6. {x \in Places : Map'[x] = g} = {<<"dir", u, d>>}
            BY <4>1, <5>3, <5>4, <5>5
          <5> QED BY <5>3, <5>6
        <4> QED BY <2>1, <4>2, <4>3
      <3>2. Cardinality({z}) = 1
        BY FS_Singleton
      <3>3. mem_map'[g] = 1
        BY <1>2, <2>1
      <3> QED BY <3>1, <3>2, <3>3
    <2>2. CASE g \notin got
      <3> DEFINE S == {x \in Places : Map[x] = g}
                 Q == {x \in Places : Map'[x] = g /\ x[1] = "pte" /\ x[2] = u}
                 A == Shared(g)
                 W == {x \in Places : Map'[x] = g}
      <3>1. mem_map[g] = Cardinality(S) /\ mem_map'[g] = mem_map[g] + Cardinality(A)
        BY <1>1, <1>2, <2>2 DEF Counted, Counts
      <3>2. ASSUME NEW y PROVE y \in Q <=> \E a \in A : y = <<"pte", u, a>>
        <4>1. ASSUME y \in Q PROVE \E a \in A : y = <<"pte", u, a>>
          <5>1. PICK a \in Addrs : y = <<"pte", u, a>>
            BY <4>1, PlaceForms
          <5>2. Map[<<"pte", t, a>>] = g
            BY <1>12, <4>1, <5>1
          <5>3. Present(t, a) /\ pte[t][a].page = g
            BY <1>1, <5>2, MapIs DEF Present
          <5> QED BY <5>1, <5>3
        <4>2. ASSUME NEW a \in A, y = <<"pte", u, a>> PROVE y \in Q
          <5>1. y \in Places /\ Map[<<"pte", t, a>>] = g
            BY <4>2, MapIs DEF Present
          <5>2. Map'[y] = g
            BY <1>12, <4>2, <5>1
          <5> QED BY <4>2, <5>1, <5>2
        <4> QED BY <4>1, <4>2
      <3>3. W = S \cup Q
        <4>1. ASSUME NEW x \in Places, Map'[x] = g PROVE x \in S \/ x \in Q
          <5>1. CASE \E a \in Addrs : x = <<"pte", u, a>>
            BY <4>1, <5>1
          <5>2. ASSUME NEW d \in Dirs, x = <<"dir", u, d>> PROVE FALSE
            BY <1>1, <1>12, <2>2, <4>1, <5>2
          <5>3. x # sz
            BY <1>12, <2>2, <4>1
          <5>4. CASE ~\E a \in Addrs : x = <<"pte", u, a>>
            BY <1>12, <4>1, <5>2, <5>3, <5>4
          <5> QED BY <5>1, <5>4
        <4>2. ASSUME NEW x \in Places, Map[x] = g PROVE Map'[x] = g
          BY <1>1, <1>12, <4>2
        <4> QED BY <4>1, <4>2
      <3>4. S \cap Q = {}
        <4> SUFFICES ASSUME NEW x \in Places, x \in Q, Map[x] = g PROVE FALSE
          OBVIOUS
        <4>1. \E a \in Addrs : x = <<"pte", u, a>>
          BY PlaceForms
        <4> QED BY <1>1, <1>12, <4>1
      <3>5. IsFiniteSet(S) /\ IsFiniteSet(A) /\ Cardinality(S) \in Nat
        <4>1. IsFiniteSet(S) /\ Cardinality(S) \in Nat
          BY FinitePlaces
        <4> QED BY <1>9, <4>1
      <3> HIDE DEF S, Q, A, W
      <3>6. IsFiniteSet(Q) /\ Cardinality(Q) = Cardinality(A) /\ Cardinality(A) \in Nat
        BY <3>2, <3>5, PlacesOfTask
      <3>7. Cardinality(S \cup Q) = Cardinality(S) + Cardinality(Q) - Cardinality({})
        BY <3>4, <3>5, <3>6, FS_Union
      <3>8. Cardinality({}) = 0
        BY FS_EmptySet
      <3>9. mem_map'[g] = Cardinality(W)
        BY <3>1, <3>3, <3>5, <3>6, <3>7, <3>8
      <3> QED BY <3>9 DEF W
    <2> QED BY <2>1, <2>2
  <1>15. Counted'
    BY <1>14 DEF Counted, Counts
  <1>16. Sole'
    <2>1. ASSUME NEW x \in Places, Map'[x] # NULL, Exclusive(x)'
          PROVE  \/ mem_map'[Map'[x]] = 1
                 \/ Map'[x] = Map[x] /\ Exclusive(x) /\ mem_map'[Map[x]] <= mem_map[Map[x]]
      <3>1. ASSUME NEW q \in {t, u}, NEW a \in Addrs, x = <<"pte", q, a>> PROVE FALSE
        <4>1. pte'[q][a] # NULL /\ pte'[q][a].rw
          BY <2>1, <3>1, MapIs DEF Exclusive
        <4> QED BY <1>6, <1>8, <4>1
      <3>2. CASE x = sz
        BY <1>2, <1>5, <1>12, <3>2
      <3>3. CASE \E d \in Dirs : x = <<"dir", u, d>>
        <4>1. PICK d \in Dirs : x = <<"dir", u, d>>
          BY <3>3
        <4>2. d \in Tables(t) /\ Map'[x] = new[d]
          BY <1>12, <2>1, <4>1
        <4> QED BY <1>2, <1>5, <4>2
      <3>4. CASE x # sz /\ ~\E d \in Dirs : x = <<"dir", u, d>>
        <4>1. Map'[x] = Map[x]
          BY <1>12, <3>1, <3>4
        <4>2. Map[x] \in Pages
          BY <1>1, <2>1, <4>1, MapType
        <4>3. Exclusive(x)
          <5>1. CASE \E q \in Tasks, a \in Addrs : x = <<"pte", q, a>>
            <6>1. PICK q \in Tasks, a \in Addrs : x = <<"pte", q, a>>
              BY <5>1
            <6>2. pte'[q] = pte[q]
              BY <1>8, <3>1, <6>1
            <6> QED BY <2>1, <6>1, <6>2 DEF Exclusive
          <5>2. CASE ~\E q \in Tasks, a \in Addrs : x = <<"pte", q, a>>
            BY <5>2, PlaceForms DEF Exclusive
          <5> QED BY <5>1, <5>2
        <4>4. mem_map[Map[x]] = 1
          BY <1>1, <2>1, <4>1, <4>3 DEF Sole
        <4>5. Map[x] \notin got
          BY <1>5
        <4>6. Shared(Map[x]) = {}
          <5> SUFFICES ASSUME NEW a \in Shared(Map[x]) PROVE FALSE
            OBVIOUS
          <5>1. Map[<<"pte", t, a>>] = Map[x] /\ <<"pte", t, a>> \in Places
            BY MapIs DEF Present
          <5>2. x = <<"pte", t, a>>
            BY <1>1, <4>2, <4>4, <5>1, CountsSay DEF Counted
          <5> QED BY <3>1, <5>2
        <4>7. mem_map'[Map[x]] = mem_map[Map[x]] + Cardinality(Shared(Map[x]))
          BY <1>2, <4>2, <4>5
        <4>8. Cardinality(Shared(Map[x])) = 0
          BY <4>6, FS_EmptySet
        <4> HIDE DEF Shared
        <4> QED BY <4>1, <4>3, <4>4, <4>7, <4>8
      <3> QED BY <3>2, <3>3, <3>4
    <2> QED BY <1>1, <1>10, <1>15, <2>1, SoleKept
  <1> QED BY <1>10, <1>11, <1>15, <1>16 DEF IInv


\* The first task's structure is in the last page, and nothing else is in use.
LEMMA InitKeeps == Init => IInv
  <1> SUFFICES ASSUME Init PROVE IInv
    OBVIOUS
  <1> DEFINE g == CHOOSE x \in Pages : \A y \in Pages : y <= x
             z == <<"struct", InitTask, NULL>>
  <1>1. g \in Pages
    <2>1. 1 \in Nat \ {0} /\ Cardinality(Pages) \in Nat /\ Cardinality(Pages) # 0
      BY MemoryConstants, FS_CardinalityType, FS_EmptySet
    <2>2. PICK x \in Pages : Cardinality({h \in Pages : h > x}) = 1 - 1
      BY <2>1, NthFromAbove, MemoryConstants
    <2>3. {h \in Pages : h > x} = {}
      <3>1. IsFiniteSet({h \in Pages : h > x})
        BY MemoryConstants, FS_Subset
      <3> QED BY <2>2, <3>1, FS_EmptySet
    <2>4. \A y \in Pages : y <= x
      <3>1. \A y \in Pages : y \in Nat /\ x \in Nat /\ ~(y > x)
        BY <2>3, MemoryConstants
      <3> QED BY <3>1
    <2> QED BY <2>4
  <1>2. /\ mem_map = [h \in Pages |-> IF h = g THEN 1 ELSE 0]
        /\ contents = [h \in Pages |-> "zero"]
        /\ dir = [t \in Tasks |-> [d \in Dirs |-> NULL]]
        /\ pte = [t \in Tasks |-> [a \in Addrs |-> NULL]]
        /\ struct = [t \in Tasks |-> IF t = InitTask THEN g ELSE NULL]
        /\ executable = [t \in Tasks |-> NULL]
        /\ held = [t \in Tasks |-> NULL]
        /\ pc = [t \in Tasks |-> User]
        /\ mem = [t \in Tasks |-> Zeroes]
        /\ execed = FALSE
    BY DEF Init
  <1> HIDE DEF g
  <1>3. TypeOK
    <2>1. Zeroes \in [Addrs -> Values] /\ User \in Labels /\ "zero" \in Values
      BY DEF Zeroes, Values, Labels
    <2> QED BY <1>1, <1>2, <2>1 DEF TypeOK
  <1>4. Control
    BY <1>2 DEF Control, ControlOf, Loading, Empty, User
  <1>5. z \in Places /\ Map[z] = g
    BY <1>2, MapIs, MemoryConstants
  <1>6. ASSUME NEW x \in Places, x # z PROVE Map[x] = NULL
    <2>1. CASE \E t \in Tasks, a \in Addrs : x = <<"pte", t, a>>
      BY <1>2, <2>1, MapIs
    <2>2. CASE \E t \in Tasks, d \in Dirs : x = <<"dir", t, d>>
      BY <1>2, <2>2, MapIs
    <2>3. CASE \E t \in Tasks : x = <<"struct", t, NULL>>
      <3>1. PICK t \in Tasks : x = <<"struct", t, NULL>>
        BY <2>3
      <3>2. t # InitTask
        BY <1>6, <3>1
      <3> QED BY <1>2, <3>1, <3>2, MapIs
    <2>4. CASE \E t \in Tasks : x = <<"held", t, NULL>>
      <3>1. PICK t \in Tasks : x = <<"held", t, NULL>>
        BY <2>4
      <3> QED BY <1>2, <3>1, MapIs
    <2> QED BY <2>1, <2>2, <2>3, <2>4, PlaceForms
  <1> HIDE DEF z
  <1>7. Counted
    <2> SUFFICES ASSUME NEW h \in Pages
                 PROVE  mem_map[h] = Cardinality({y \in Places : Map[y] = h})
      BY DEF Counted, Counts
    <2> DEFINE S == {y \in Places : Map[y] = h}
    <2>1. CASE h = g
      <3>1. S = {z}
        BY <1>1, <1>5, <1>6, <2>1, MemoryConstants
      <3>2. Cardinality({z}) = 1
        BY FS_Singleton
      <3>3. mem_map[h] = 1
        BY <1>2, <2>1
      <3> QED BY <3>1, <3>2, <3>3
    <2>2. CASE h # g
      <3>1. S = {}
        BY <1>5, <1>6, <2>2, MemoryConstants
      <3>2. Cardinality({}) = 0
        BY FS_EmptySet
      <3>3. mem_map[h] = 0
        BY <1>2, <2>2
      <3> QED BY <3>1, <3>2, <3>3
    <2> QED BY <2>1, <2>2
  <1>8. Sole
    BY <1>1, <1>2, <1>5, <1>6 DEF Sole
  <1> QED BY <1>3, <1>4, <1>7, <1>8 DEF IInv

\* Every action keeps the invariant, and so does standing still.
LEMMA NextKeeps == IInv /\ [Next]_vars => IInv'
  <1> SUFFICES ASSUME IInv, [Next]_vars PROVE IInv'
    OBVIOUS
  <1>1. ASSUME UNCHANGED vars PROVE IInv'
    <2>1. TypeOK'
      BY <1>1 DEF vars, IInv, TypeOK
    <2>2. Control'
      BY <1>1 DEF vars, IInv, Control, ControlOf, Loading, Empty
    <2>3. UNCHANGED <<mem_map, dir, struct, held>> /\ pte' = pte
      BY <1>1 DEF vars
    <2>4. Counted' /\ Sole'
      BY <2>1, <2>3, QuietStep
    <2> QED BY <2>1, <2>2, <2>4 DEF IInv
  <1>2. ASSUME NEW t \in Tasks, NEW u \in Tasks \ {t}, Fork(t, u) \/ ForkFails(t, u) PROVE IInv'
    BY <1>2, ForkKeeps, ForkFailsKeeps
  <1>3. ASSUME NEW t \in Tasks, Exit(t) \/ Release(t) \/ ExecEnd(t) PROVE IInv'
    BY <1>3, ExitCallKeeps, ReleaseKeeps, ExecEndKeeps
  <1>4. ASSUME NEW t \in Tasks, NEW e \in Execs, ExecBegin(t, e) PROVE IInv'
    BY <1>4, ExecBeginKeeps
  <1>5. ASSUME NEW t \in Tasks, NEW a \in Addrs,
               UserWrite(t, a) \/ DoWpPage(t, a) \/ VerifyArea(t, a) \/ KernelWrite(t, a)
        PROVE  IInv'
    BY <1>5, UserWriteKeeps, DoWpPageKeeps, VerifyAreaKeeps, KernelWriteKeeps
  <1>6. ASSUME NEW t \in Tasks, NEW a \in Addrs,
               EmptyPage(t, a) \/ SharePage(t, a) \/ LoadPage(t, a) \/ LoadDone(t, a)
        PROVE  IInv'
    BY <1>6, EmptyPageKeeps, SharePageKeeps, LoadPageKeeps, LoadDoneKeeps
  <1> QED BY <1>1, <1>2, <1>3, <1>4, <1>5, <1>6 DEF Next

\* In every reachable state the pages are counted by place, each label's
\* assumptions hold, and the places that must not share their page do not.
THEOREM Invariant == Spec => []IInv
  BY InitKeeps, NextKeeps, PTL DEF Spec

\* No sequence of forks, execs, faults, sharing, exits and failures for want of
\* memory makes mem_map differ from the number of users of a page: no page leaks,
\* and none is freed twice or while in use.
THEOREM MapIsExact == Spec => []MapExact
  <1>1. IInv => MapExact
    <2> SUFFICES ASSUME IInv, NEW g \in Pages PROVE mem_map[g] = Cardinality(Users(g))
      BY DEF IInv, MapExact
    <2>1. Users(g) = {y \in Places : Map[y] = g}
      BY DEF Users, Map
    <2> QED BY <2>1 DEF IInv, Counted, Counts
  <1> QED BY <1>1, Invariant, PTL

\* A page that may be written without a fault is used once.
LEMMA WritableOnce ==
    ASSUME IInv, NEW t \in Tasks, NEW a \in Addrs, pte[t][a] # NULL, pte[t][a].rw
    PROVE  mem_map[pte[t][a].page] = 1
  <1> DEFINE z == <<"pte", t, a>>
  <1>1. pte[t][a] \in Entries
    BY DEF IInv, TypeOK
  <1>2. z \in Places /\ Map[z] = pte[t][a].page /\ pte[t][a].page \in Pages
    BY <1>1, MapIs, EntryBits
  <1>3. Exclusive(z)
    BY DEF Exclusive
  <1> HIDE DEF z
  <1> QED BY <1>2, <1>3, MemoryConstants DEF IInv, Sole

\* A page that a task may write without a fault has no other user: fork,
\* try_to_share and un_wp_page leave no stale writable entry behind.
THEOREM WritablePagesUnshared == Spec => []WritableUnshared
  <1>1. IInv => WritableUnshared
    BY WritableOnce DEF WritableUnshared, Present
  <1> QED BY <1>1, Invariant, PTL
-----------------------------------------------------------------------------
\* Two present entries of one page that is used once are the same entry.
LEMMA OnlyEntry ==
    ASSUME IInv, NEW t \in Tasks, NEW a \in Addrs, NEW q \in Tasks, NEW b \in Addrs,
           pte[t][a] # NULL, pte[q][b] # NULL, pte[q][b].page = pte[t][a].page,
           mem_map[pte[t][a].page] = 1
    PROVE  q = t /\ b = a
  <1> DEFINE y == <<"pte", t, a>>
             z == <<"pte", q, b>>
  <1>1. pte[t][a].page \in Pages
    <2>1. pte[t][a] \in Entries
      BY DEF IInv, TypeOK
    <2> QED BY <2>1, EntryBits
  <1>2. y \in Places /\ z \in Places /\ Map[y] = pte[t][a].page /\ Map[z] = pte[t][a].page
    BY MapIs
  <1>3. y = z
    <2> HIDE DEF y, z
    <2> QED BY <1>1, <1>2, CountsSay DEF IInv, Counted
  <1> QED BY <1>3

\* A free page is in no entry.
LEMMA FreeInNoEntry ==
    ASSUME IInv, NEW g \in FreePages, NEW q \in Tasks, NEW b \in Addrs, pte[q][b] # NULL
    PROVE  pte[q][b].page # g
  <1> DEFINE z == <<"pte", q, b>>
  <1>1. z \in Places /\ Map[z] = pte[q][b].page
    BY MapIs
  <1> HIDE DEF z
  <1> QED BY <1>1, FreePageUnused

\* The page of a present entry is a page.
LEMMA EntryPage ==
    ASSUME IInv, NEW q \in Tasks, NEW b \in Addrs, pte[q][b] # NULL
    PROVE  pte[q][b] \in Entries /\ pte[q][b].page \in Pages
  <1>1. pte[q][b] \in Entries
    BY DEF IInv, TypeOK
  <1> QED BY <1>1, EntryBits

\* An entry nobody touches, whose page keeps its contents, stays the task's own.
LEMMA OwnKept ==
    ASSUME NEW q \in Tasks, NEW b \in Addrs, Own(q, b),
           pte'[q][b] = pte[q][b], mem'[q][b] = mem[q][b],
           pte[q][b] # NULL => contents'[pte[q][b].page] = contents[pte[q][b].page],
           pc'[q] = pc[q] \/ pc'[q] \notin {<<"verified", b>>, <<"retry", b>>}
    PROVE  Own(q, b)'
  BY DEF Own

\* do_exit takes nothing from the other tasks and leaves nothing behind.
LEMMA ExitIsolates ==
    ASSUME IInv, Isolated, NEW t \in Tasks, NEW also, DoExit(t, also)
    PROVE  Isolated'
  <1> SUFFICES ASSUME ~execed' PROVE Isolated'
    BY DEF Isolated
  <1>1. ~execed /\ contents' = contents /\ TypeOK
    BY DEF DoExit, IInv
  <1>2. /\ pte'[t] = [a \in Addrs |-> NULL] /\ mem'[t] = Zeroes
        /\ executable'[t] = NULL /\ held'[t] = NULL
        /\ \A q \in Tasks \ {t} : /\ pte'[q] = pte[q] /\ mem'[q] = mem[q] /\ pc'[q] = pc[q]
                                  /\ executable'[q] = executable[q] /\ held'[q] = held[q]
    BY <1>1 DEF DoExit, TypeOK
  <1>3. \A q \in Tasks : executable'[q] = NULL /\ held'[q] = NULL
    BY <1>1, <1>2 DEF Isolated
  <1>4. ASSUME NEW q \in Tasks, NEW a \in Addrs PROVE Own(q, a)'
    <2>1. CASE q = t
      BY <1>2, <2>1 DEF Zeroes, Own
    <2>2. CASE q # t
      BY <1>1, <1>2, <2>2, OwnKept DEF Isolated
    <2> QED BY <2>1, <2>2
  <1> QED BY <1>3, <1>4 DEF Isolated

\* A store through an entry that may be written changes what no other task sees.
LEMMA StoreIsolates ==
    ASSUME IInv, Isolated, NEW t \in Tasks, NEW a \in Addrs, pte[t][a] # NULL, pte[t][a].rw,
           Store(t, a), \A q \in Tasks : pc'[q] = pc[q] \/ pc'[q] = User
    PROVE  Isolated'
  <1> SUFFICES ASSUME ~execed' PROVE Isolated'
    BY DEF Isolated
  <1> DEFINE p == pte[t][a].page
  <1>1. /\ ~execed /\ TypeOK /\ contents' = [contents EXCEPT ![p] = t]
        /\ pte' = [pte EXCEPT ![t][a].dirty = TRUE] /\ mem' = [mem EXCEPT ![t][a] = t]
        /\ executable' = executable /\ held' = held
    BY DEF Store, IInv
  <1>2. pte[t][a] \in Entries /\ p \in Pages
    BY EntryPage
  <1>3. \A q \in Tasks, b \in Addrs : pte[q][b] # NULL /\ pte[q][b].page = p => q = t /\ b = a
    BY OnlyEntry, WritableOnce
  <1>4. /\ pte'[t][a] = [pte[t][a] EXCEPT !.dirty = TRUE] /\ mem'[t][a] = t
        /\ \A q \in Tasks, b \in Addrs : q # t \/ b # a =>
              pte'[q][b] = pte[q][b] /\ mem'[q][b] = mem[q][b]
    BY <1>1 DEF TypeOK
  <1>5. pte'[t][a].page = p /\ pte'[t][a].rw /\ pte'[t][a] # NULL
    <2> DEFINE e == pte[t][a]
    <2>1. e \in Entries /\ e.rw /\ e.page = p /\ pte'[t][a] = [e EXCEPT !.dirty = TRUE]
      BY <1>2, <1>4
    <2> HIDE DEF e, p
    <2> QED BY <2>1, EntryBits
  <1> HIDE DEF p
  <1>6. contents'[p] = t /\ \A g \in Pages \ {p} : contents'[g] = contents[g]
    BY <1>1, <1>2 DEF TypeOK
  <1>7. ASSUME NEW q \in Tasks, NEW b \in Addrs PROVE Own(q, b)'
    <2>1. CASE q = t /\ b = a
      BY <1>4, <1>5, <1>6, <2>1 DEF Own
    <2>2. CASE q # t \/ b # a
      <3>1. pte'[q][b] = pte[q][b] /\ mem'[q][b] = mem[q][b]
        BY <1>4, <2>2
      <3>2. pte[q][b] # NULL => contents'[pte[q][b].page] = contents[pte[q][b].page]
        BY <1>3, <1>6, <2>2, EntryPage
      <3>3. pc'[q] = pc[q] \/ pc'[q] \notin {<<"verified", b>>, <<"retry", b>>}
        BY DEF User
      <3>4. Own(q, b)
        BY <1>1 DEF Isolated
      <3> QED BY <3>1, <3>2, <3>3, <3>4, OwnKept
    <2> QED BY <2>1, <2>2
  <1>8. \A q \in Tasks : executable'[q] = NULL /\ held'[q] = NULL
    BY <1>1 DEF Isolated
  <1> QED BY <1>7, <1>8 DEF Isolated

\* A free page that holds what the task must find gets mapped for it alone.
LEMMA NewPageIsolates ==
    ASSUME IInv, Isolated, ~execed, NEW t \in Tasks, NEW a \in Addrs, NEW g \in FreePages,
           UNCHANGED <<executable, held, mem>>,
           contents' = [contents EXCEPT ![g] = mem[t][a]],
           pte' = [pte EXCEPT ![t][a] = [page |-> g, rw |-> TRUE, dirty |-> FALSE]],
           \A q \in Tasks \ {t} : pc'[q] = pc[q],
           \A b \in Addrs \ {a} : pc'[t] \notin {<<"verified", b>>, <<"retry", b>>}
    PROVE  Isolated'
  <1> DEFINE e == [page |-> g, rw |-> TRUE, dirty |-> FALSE]
  <1>1. g \in Pages /\ TypeOK
    BY FreePageUnused DEF IInv
  <1>2. e # NULL /\ e.page = g /\ e.rw
    BY <1>1, NewEntry
  <1>3. pte'[t][a] = e /\ \A q \in Tasks, b \in Addrs : q # t \/ b # a => pte'[q][b] = pte[q][b]
    BY <1>1 DEF TypeOK
  <1>4. contents'[g] = mem[t][a] /\ \A h \in Pages \ {g} : contents'[h] = contents[h]
    BY <1>1 DEF TypeOK
  <1> HIDE DEF e
  <1>5. ASSUME NEW q \in Tasks, NEW b \in Addrs PROVE Own(q, b)'
    <2>1. CASE q = t /\ b = a
      <3>1. pte'[q][b] = e /\ mem'[q][b] = mem[t][a]
        BY <1>3, <2>1
      <3> QED BY <1>2, <1>4, <3>1 DEF Own
    <2>2. CASE q # t \/ b # a
      <3>1. pte'[q][b] = pte[q][b] /\ mem'[q][b] = mem[q][b]
        BY <1>3, <2>2
      <3>2. pte[q][b] # NULL => contents'[pte[q][b].page] = contents[pte[q][b].page]
        BY <1>4, EntryPage, FreeInNoEntry
      <3>3. pc'[q] = pc[q] \/ pc'[q] \notin {<<"verified", b>>, <<"retry", b>>}
        BY <2>2
      <3>4. Own(q, b)
        BY DEF Isolated
      <3> QED BY <3>1, <3>2, <3>3, <3>4, OwnKept
    <2> QED BY <2>1, <2>2
  <1>6. \A q \in Tasks : executable'[q] = NULL /\ held'[q] = NULL
    BY DEF Isolated
  <1> QED BY <1>5, <1>6 DEF Isolated

\* un_wp_page makes the page writable, or gives the task a copy of it.
LEMMA UnWpIsolates ==
    ASSUME IInv, Isolated, NEW t \in Tasks, NEW a \in Addrs, pte[t][a] # NULL,
           NEW l \in {User, <<"verified", a>>}, UnWp(t, a, l)
    PROVE  Isolated'
  <1> DEFINE old == pte[t][a].page
  <1>1. pte[t][a] \in Entries /\ old \in Pages /\ TypeOK
    BY EntryPage DEF IInv
  <1>2. \A b \in Addrs \ {a} : l \notin {<<"verified", b>>, <<"retry", b>>}
    BY DEF User
  <1>3. CASE DoExit(t, {})
    BY <1>3, ExitIsolates
  <1>4. CASE /\ mem_map[old] = 1
             /\ pte' = [pte EXCEPT ![t][a].rw = TRUE]
             /\ pc' = [pc EXCEPT ![t] = l]
             /\ UNCHANGED <<mem_map, contents, dir, struct, executable, held, mem, execed>>
    <2> SUFFICES ASSUME ~execed PROVE Isolated'
      BY <1>4 DEF Isolated
    <2>1. /\ pte'[t][a] = [pte[t][a] EXCEPT !.rw = TRUE]
          /\ \A q \in Tasks, b \in Addrs : q # t \/ b # a => pte'[q][b] = pte[q][b]
          /\ pc'[t] = l /\ \A q \in Tasks \ {t} : pc'[q] = pc[q]
      BY <1>1, <1>4 DEF TypeOK
    <2>2. pte'[t][a] # NULL /\ pte'[t][a].page = old /\ pte'[t][a].rw
      <3>1. [pte[t][a] EXCEPT !.rw = TRUE].rw
        BY <1>1 DEF Entries
      <3> QED BY <1>1, <2>1, <3>1, EntryBits
    <2>3. ASSUME NEW q \in Tasks, NEW b \in Addrs PROVE Own(q, b)'
      <3>1. Own(q, b)
        BY DEF Isolated
      <3>2. CASE q = t /\ b = a
        BY <1>4, <2>2, <3>1, <3>2 DEF Own
      <3>3. CASE q # t \/ b # a
        <4>1. pte'[q][b] = pte[q][b]
          BY <2>1, <3>3
        <4>2. pc'[q] = pc[q] \/ pc'[q] \notin {<<"verified", b>>, <<"retry", b>>}
          BY <1>2, <2>1, <3>3
        <4> QED BY <1>4, <3>1, <4>1, <4>2, OwnKept
      <3> QED BY <3>2, <3>3
    <2>4. \A q \in Tasks : executable'[q] = NULL /\ held'[q] = NULL
      BY <1>4 DEF Isolated
    <2> QED BY <2>3, <2>4 DEF Isolated
  <1>5. CASE /\ mem_map[old] # 1
             /\ Available(1)
             /\ CopyOnWrite(t, a, old)
             /\ pc' = [pc EXCEPT ![t] = l]
             /\ UNCHANGED <<dir, struct, executable, held, mem, execed>>
    <2> SUFFICES ASSUME ~execed PROVE Isolated'
      BY <1>5 DEF Isolated
    <2> DEFINE g == FreePage(1)
    <2>1. g = FreePage(1)
      OBVIOUS
    <2>2. /\ contents' = [contents EXCEPT ![g] = contents[old]]
          /\ pte' = [pte EXCEPT ![t][a] = [page |-> g, rw |-> TRUE, dirty |-> FALSE]]
      BY <1>5 DEF CopyOnWrite
    <2> HIDE DEF g
    <2>3. g \in FreePages
      BY <1>5, <2>1, FirstFree
    <2>4. contents[old] = mem[t][a]
      BY DEF Isolated, Own
    <2>5. pc'[t] = l /\ \A q \in Tasks \ {t} : pc'[q] = pc[q]
      BY <1>1, <1>5 DEF TypeOK
    <2>6. UNCHANGED <<executable, held, mem>>
      BY <1>5
    <2>7. contents' = [contents EXCEPT ![g] = mem[t][a]]
      BY <2>2, <2>4
    <2> QED BY <1>2, <2>2, <2>3, <2>5, <2>6, <2>7, NewPageIsolates
  <1> QED BY <1>3, <1>4, <1>5 DEF UnWp

\* A fault on an absent page, before the first exec, is one for zeroes.
LEMMA EmptyPageIsolates ==
    ASSUME IInv, Isolated, NEW t \in Tasks, NEW a \in Addrs, EmptyPage(t, a) PROVE Isolated'
  <1>1. CASE DoExit(t, {})
    BY <1>1, ExitIsolates
  <1>2. CASE ~DoExit(t, {})
    <2> DEFINE g == FreePage(1)
    <2>1. /\ Available(1 + TableNeeded(t, a)) /\ g = FreePage(1)
          /\ contents' = [contents EXCEPT ![g] = "zero"]
          /\ pte' = [pte EXCEPT ![t][a] = [page |-> g, rw |-> TRUE, dirty |-> FALSE]]
          /\ pc' = Resume(t, a)
          /\ UNCHANGED <<executable, held, mem, execed>>
      BY <1>2 DEF EmptyPage
    <2> SUFFICES ASSUME ~execed PROVE Isolated'
      BY <2>1 DEF Isolated
    <2>2. Available(1)
      BY <2>1, TableNeededIs, FewerAvailable
    <2> HIDE DEF g
    <2>3. g \in FreePages
      BY <2>1, <2>2, FirstFree
    <2>4. pte[t][a] = NULL
      BY FaultingIs DEF EmptyPage
    <2>5. mem[t][a] = "zero"
      BY <2>4 DEF Isolated, Own
    <2>6. pc'[t] \in {User, <<"retry", a>>} /\ \A q \in Tasks \ {t} : pc'[q] = pc[q]
      BY <2>1 DEF IInv, TypeOK, Resume
    <2>7. \A b \in Addrs \ {a} : pc'[t] \notin {<<"verified", b>>, <<"retry", b>>}
      BY <2>6 DEF User
    <2>8. contents' = [contents EXCEPT ![g] = mem[t][a]]
      BY <2>1, <2>5
    <2>9. UNCHANGED <<executable, held, mem>>
      BY <2>1
    <2> QED BY <2>1, <2>3, <2>6, <2>7, <2>8, <2>9, NewPageIsolates
  <1> QED BY <1>1, <1>2

\* The child of a fork finds in each page what its parent does.
LEMMA ForkIsolates ==
    ASSUME IInv, Isolated, NEW t \in Tasks, NEW u \in Tasks \ {t}, Fork(t, u) PROVE Isolated'
  <1> DEFINE s == FreePage(1)
             new == [d \in Tables(t) |-> FreePage(2 + Cardinality({e \in Tables(t) : e < d}))]
             got == {s} \cup {new[d] : d \in Tables(t)}
             P == Protected(t, Dirs)
  <1>1. /\ pc[t] = User /\ struct[u] = NULL /\ Available(1 + Cardinality(Tables(t)))
        /\ contents' = [g \in Pages |-> IF g \in got THEN "zero" ELSE contents[g]]
        /\ pte' = [pte EXCEPT ![t] = P, ![u] = P]
        /\ executable' = [executable EXCEPT ![u] = executable[t]]
        /\ mem' = [mem EXCEPT ![u] = mem[t]]
        /\ UNCHANGED <<held, pc, execed>>
    BY DEF Fork, At
  <1> SUFFICES ASSUME ~execed PROVE Isolated'
    BY <1>1 DEF Isolated
  <1>2. TypeOK /\ pc[u] = User
    BY <1>1 DEF IInv, Control, ControlOf
  <1>3. \A a \in Addrs : /\ P[a] = NULL <=> pte[t][a] = NULL
                         /\ pte[t][a] # NULL => P[a].page = pte[t][a].page
    BY <1>2, ProtectedIs
  <1> HIDE DEF P
  <1>4. /\ pte'[t] = P /\ pte'[u] = P /\ \A q \in Tasks \ {t, u} : pte'[q] = pte[q]
        /\ mem'[u] = mem[t] /\ \A q \in Tasks \ {u} : mem'[q] = mem[q]
        /\ executable'[u] = executable[t] /\ \A q \in Tasks \ {u} : executable'[q] = executable[q]
    BY <1>1, <1>2 DEF TypeOK
  <1>5. \A g \in got : g \in FreePages
    <2>1. s = FreePage(1) /\ new = [d \in Tables(t) |-> FreePage(2 + Cardinality({e \in Tables(t) : e < d}))]
      OBVIOUS
    <2> HIDE DEF s, new
    <2>2. s \in FreePages /\ \A d \in Tables(t) : new[d] \in FreePages
      BY <1>1, <2>1, ForkPages
    <2> QED BY <2>2
  <1> HIDE DEF got
  <1>6. ASSUME NEW q \in Tasks, NEW b \in Addrs, pte[q][b] # NULL
        PROVE  contents'[pte[q][b].page] = contents[pte[q][b].page]
    <2>1. pte[q][b].page \in Pages /\ pte[q][b].page \notin got
      BY <1>5, <1>6, EntryPage, FreeInNoEntry
    <2> QED BY <1>1, <2>1
  <1>7. ASSUME NEW q \in Tasks, NEW b \in Addrs PROVE Own(q, b)'
    <2>1. Own(q, b) /\ Own(t, b)
      BY DEF Isolated
    <2>2. CASE q \in {t, u}
      <3>1. pte'[q] = P /\ mem'[q] = mem[t] /\ pc'[q] = User
        BY <1>1, <1>2, <1>4, <2>2
      <3>2. P[b] = NULL => mem[t][b] = "zero"
        BY <1>3, <2>1 DEF Own
      <3>3. P[b] # NULL => contents'[P[b].page] = mem[t][b]
        BY <1>3, <1>6, <2>1 DEF Own
      <3>4. pc'[q] \notin {<<"verified", b>>, <<"retry", b>>}
        BY <3>1 DEF User
      <3> QED BY <3>1, <3>2, <3>3, <3>4 DEF Own
    <2>3. CASE q \notin {t, u}
      BY <1>1, <1>4, <1>6, <2>1, <2>3, OwnKept
    <2> QED BY <2>2, <2>3
  <1>8. \A q \in Tasks : executable'[q] = NULL /\ held'[q] = NULL
    BY <1>1, <1>4 DEF Isolated
  <1> QED BY <1>7, <1>8 DEF Isolated

\* A fork that fails leaves the parent its pages.
LEMMA ForkFailsIsolates ==
    ASSUME IInv, Isolated, NEW t \in Tasks, NEW u \in Tasks \ {t}, ForkFails(t, u) PROVE Isolated'
  <1>1. PICK ds : pte' = [pte EXCEPT ![t] = Protected(t, ds)]
    BY DEF ForkFails
  <1>2. pc[t] = User /\ UNCHANGED <<contents, executable, held, pc, mem, execed>> /\ TypeOK
    BY DEF ForkFails, At, IInv
  <1> SUFFICES ASSUME ~execed PROVE Isolated'
    BY <1>2 DEF Isolated
  <1>3. \A a \in Addrs : /\ Protected(t, ds)[a] = NULL <=> pte[t][a] = NULL
                         /\ pte[t][a] # NULL => Protected(t, ds)[a].page = pte[t][a].page
    BY <1>2, ProtectedIs
  <1>4. pte'[t] = Protected(t, ds) /\ \A q \in Tasks \ {t} : pte'[q] = pte[q]
    BY <1>1, <1>2 DEF TypeOK
  <1>5. ASSUME NEW q \in Tasks, NEW b \in Addrs PROVE Own(q, b)'
    <2>1. Own(q, b)
      BY DEF Isolated
    <2>2. CASE q = t
      <3>1. pc'[q] \notin {<<"verified", b>>, <<"retry", b>>}
        BY <1>2, <2>2 DEF User
      <3> QED BY <1>2, <1>3, <1>4, <2>1, <2>2, <3>1 DEF Own
    <2>3. CASE q # t
      BY <1>2, <1>4, <2>1, <2>3, OwnKept
    <2> QED BY <2>2, <2>3
  <1>6. \A q \in Tasks : executable'[q] = NULL /\ held'[q] = NULL
    BY <1>2 DEF Isolated
  <1> QED BY <1>5, <1>6 DEF Isolated

\* The steps that leave pages, entries and what tasks must find alone.
LEMMA LabelIsolates ==
    ASSUME IInv, Isolated, UNCHANGED <<contents, pte, executable, held, mem, execed>>,
           \A q \in Tasks, b \in Addrs :
              \/ pc'[q] = pc[q]
              \/ pc'[q] \notin {<<"verified", b>>, <<"retry", b>>}
              \/ pte[q][b] # NULL => pte[q][b].rw
    PROVE  Isolated'
  <1> SUFFICES ASSUME ~execed PROVE Isolated'
    BY DEF Isolated
  <1>1. ASSUME NEW q \in Tasks, NEW b \in Addrs PROVE Own(q, b)'
    BY DEF Isolated, Own
  <1> QED BY <1>1 DEF Isolated

\* Every action keeps the tasks apart until the first exec.
LEMMA NextIsolates == IInv /\ Isolated /\ [Next]_vars => Isolated'
  <1> SUFFICES ASSUME IInv, Isolated, [Next]_vars PROVE Isolated'
    OBVIOUS
  <1>0. TypeOK
    BY DEF IInv
  <1>1. ASSUME UNCHANGED vars PROVE Isolated'
    <2>1. UNCHANGED <<contents, pte, executable, held, mem, execed>> /\ pc' = pc
      BY <1>1 DEF vars
    <2> QED BY <2>1, LabelIsolates
  <1>2. ASSUME NEW t \in Tasks, Exit(t) PROVE Isolated'
    BY <1>2, ExitIsolates DEF Exit
  <1>3. ASSUME NEW t \in Tasks, Release(t) PROVE Isolated'
    <2>1. UNCHANGED <<contents, pte, executable, held, mem, execed>>
      BY <1>3 DEF Release
    <2>2. \A q \in Tasks : pc'[q] = pc[q] \/ pc'[q] = User
      BY <1>0, <1>3 DEF Release, TypeOK
    <2>3. \A q \in Tasks, b \in Addrs :
            pc'[q] = pc[q] \/ pc'[q] \notin {<<"verified", b>>, <<"retry", b>>}
      BY <2>2 DEF User
    <2> QED BY <2>1, <2>3, LabelIsolates
  <1>4. ASSUME NEW t \in Tasks, NEW a \in Addrs, UserWrite(t, a) PROVE Isolated'
    <2>1. pte[t][a] # NULL /\ pte[t][a].rw /\ Store(t, a) /\ pc' = pc
      BY <1>4 DEF UserWrite, Present
    <2> QED BY <2>1, StoreIsolates
  <1>5. ASSUME NEW t \in Tasks, NEW a \in Addrs, KernelWrite(t, a) PROVE Isolated'
    <2>1. /\ pte[t][a] # NULL /\ Store(t, a) /\ pc' = [pc EXCEPT ![t] = User]
          /\ pc[t] \in {<<"verified", a>>, <<"retry", a>>}
      BY <1>5 DEF KernelWrite, Present, At
    <2> SUFFICES ASSUME ~execed PROVE Isolated'
      BY <2>1 DEF Isolated, Store
    <2>2. pte[t][a].rw
      BY <2>1 DEF Isolated, Own
    <2>3. \A q \in Tasks : pc'[q] = pc[q] \/ pc'[q] = User
      BY <1>0, <2>1 DEF TypeOK
    <2> QED BY <2>1, <2>2, <2>3, StoreIsolates
  <1>6. ASSUME NEW t \in Tasks, NEW a \in Addrs, DoWpPage(t, a) PROVE Isolated'
    <2>1. pte[t][a] # NULL /\ UnWp(t, a, User)
      BY <1>6 DEF DoWpPage, Present
    <2>2. User \in {User, <<"verified", a>>}
      OBVIOUS
    <2> QED BY <2>1, <2>2, UnWpIsolates
  <1>7. ASSUME NEW t \in Tasks, NEW a \in Addrs, VerifyArea(t, a) PROVE Isolated'
    <2> DEFINE l == <<"verified", a>>
    <2>1. CASE pte[t][a] # NULL /\ ~pte[t][a].rw
      <3>1. UnWp(t, a, l) /\ l \in {User, <<"verified", a>>}
        BY <1>7, <2>1 DEF VerifyArea, Present
      <3> HIDE DEF l
      <3> QED BY <2>1, <3>1, UnWpIsolates
    <2>2. CASE ~(pte[t][a] # NULL /\ ~pte[t][a].rw)
      <3>1. /\ pc' = [pc EXCEPT ![t] = l]
            /\ UNCHANGED <<contents, pte, executable, held, mem, execed>>
        BY <1>7, <2>2 DEF VerifyArea, Present
      <3>2. pc'[t] = l /\ \A q \in Tasks \ {t} : pc'[q] = pc[q]
        BY <1>0, <3>1 DEF TypeOK
      <3>3. \A q \in Tasks, b \in Addrs :
              \/ pc'[q] = pc[q]
              \/ pc'[q] \notin {<<"verified", b>>, <<"retry", b>>}
              \/ pte[q][b] # NULL => pte[q][b].rw
        BY <2>2, <3>2
      <3> QED BY <3>1, <3>3, LabelIsolates
    <2> QED BY <2>1, <2>2
  <1>8. ASSUME NEW t \in Tasks, NEW a \in Addrs, SharePage(t, a) \/ LoadPage(t, a) PROVE Isolated'
    <2>1. CASE DoExit(t, {})
      BY <2>1, ExitIsolates
    <2>2. CASE ~DoExit(t, {})
      <3>1. executable[t] # NULL /\ execed' = execed
        BY <1>8, <2>2 DEF SharePage, LoadPage, FromFile
      <3> QED BY <3>1 DEF Isolated
    <2> QED BY <2>1, <2>2
  <1>9. ASSUME NEW t \in Tasks, NEW a \in Addrs, LoadDone(t, a) PROVE Isolated'
    <2>1. Loading(t) /\ execed' = execed
      BY <1>9 DEF LoadDone, At, Loading, DoExit
    <2>2. held[t] # NULL
      BY <2>1 DEF IInv, Control, ControlOf
    <2> QED BY <2>1, <2>2 DEF Isolated
  <1>10. ASSUME NEW t \in Tasks, ExecEnd(t) PROVE Isolated'
    <2>1. Loading(t) /\ execed' = execed
      BY <1>10 DEF ExecEnd, At, Loading
    <2>2. held[t] # NULL
      BY <2>1 DEF IInv, Control, ControlOf
    <2> QED BY <2>1, <2>2 DEF Isolated
  <1>11. ASSUME NEW t \in Tasks, NEW e \in Execs, ExecBegin(t, e) PROVE Isolated'
    BY <1>11 DEF ExecBegin, Isolated
  <1>12. ASSUME NEW t \in Tasks, NEW u \in Tasks \ {t}, Fork(t, u) \/ ForkFails(t, u)
         PROVE  Isolated'
    BY <1>12, ForkIsolates, ForkFailsIsolates
  <1> QED BY <1>1, <1>2, <1>3, <1>4, <1>5, <1>6, <1>7, <1>8, <1>9, <1>10, <1>11, <1>12,
             EmptyPageIsolates DEF Next

\* Until a task calls exec, every task finds at each address what it wrote there
\* or inherited, however forks, copies on write, stores of the kernel and deaths
\* for want of memory are interleaved.
THEOREM TasksAreIsolated == Spec => []ForkIsolation
  <1>1. Init => Isolated
    <2> SUFFICES ASSUME Init PROVE Isolated
      OBVIOUS
    <2>1. /\ pte = [t \in Tasks |-> [a \in Addrs |-> NULL]] /\ mem = [t \in Tasks |-> Zeroes]
          /\ executable = [t \in Tasks |-> NULL] /\ held = [t \in Tasks |-> NULL]
      BY DEF Init
    <2> QED BY <2>1 DEF Isolated, Own, Zeroes
  <1>2. Isolated => ForkIsolation
    BY DEF Isolated, Own, ForkIsolation, Isolation, Present
  <1>3. IInv /\ IInv' /\ Isolated /\ [Next]_vars => Isolated'
    BY NextIsolates
  <1> QED BY <1>1, <1>2, <1>3, Invariant, PTL DEF Spec

=============================================================================
