---------------------------- MODULE CatalogProofs ----------------------------
(***************************************************************************)
(* Proofs about the catalog.                                               *)
(*                                                                         *)
(* Categories, for any number of categories, products and requests and any *)
(* depth of the walk: until another move is written, a walk stays where    *)
(* the category to be moved cannot escape from, if moving it would close a *)
(* cycle; and until something is put into a category, what was counted in  *)
(* it stays true.                                                          *)
(*                                                                         *)
(* Configuration, for every product and every set of answers: cleaning     *)
(* answers takes option codes away and never adds one, so that cleaning    *)
(* them again can only hide questions.                                     *)
(*                                                                         *)
(* Products, for any drafts, forms, options and calls: what a call decided *)
(* on is what the product still is, or the call is stale; a saved          *)
(* configuration is what the server made of the product it had read, so    *)
(* that its completeness and its price follow from Configuration.          *)
(***************************************************************************)
EXTENDS Products, Categories, TLAPS

\* Parents and what requests name were created.
Grounded ==
    /\ \A c \in CategoryIds : parent[c] \in exists \cup {Root}
    /\ \A r \in Calls :
          /\ call[r].op # "none" => call[r].cat \in exists
          /\ call[r].to \in exists \cup {Root}
          /\ call[r].cursor \in exists \cup {Root}

\* Whatever holds the new parent, and the parent of all it holds but of the
\* category that moves, holds the place the walk has reached.
Guided(q) ==
    q.op = "move" /\ ~q.stale =>
       \A S \in SUBSET CategoryIds :
          q.to \in S /\ (\A x \in S \ {q.cat} : parent[x] \in S) => q.cursor \in S

WalksAreGuided == \A r \in Calls : Guided(call[r])

\* What a removal has counted.
Counted(q) ==
    /\ q.op \in {"count", "archive"} /\ ~q.stale => ProductsIn(q.cat) = {}
    /\ q.op = "archive" /\ ~q.stale => Children(q.cat) = {}

CountsHold == \A r \in Calls : Counted(call[r])

TreeIInv ==
    /\ TreeTypeOK
    /\ Grounded
    /\ WalksAreGuided
    /\ AncestryIsSound
    /\ CountsHold
    /\ ArchivedIsEmpty

-----------------------------------------------------------------------------
LEMMA NoCallTyped ==
    NoCall \in Call /\ NoCall.op = "none" /\ NoCall.to = Root /\ NoCall.cursor = Root
  BY CategoriesAssumption DEF NoCall, Call, Parents

\* What putting something into a category does to the requests.
LEMMA PutIntoFacts ==
    ASSUME TreeTypeOK, NEW c, NEW calls \in [Calls -> Call], PutInto(c, calls)
    PROVE  /\ call' \in [Calls -> Call]
           /\ \A r \in Calls :
                 /\ call'[r].op = calls[r].op
                 /\ call'[r].cat = calls[r].cat
                 /\ call'[r].to = calls[r].to
                 /\ call'[r].cursor = calls[r].cursor
                 /\ calls[r].stale => call'[r].stale
                 /\ calls[r].op = "move" => call'[r] = calls[r]
                 /\ calls[r].op \in {"count", "archive"} /\ calls[r].cat = c
                       => call'[r].stale
           /\ late' \subseteq late \cup {c}
           /\ late \subseteq late'
           /\ c \in exists \ active => c \in late'
           /\ late' # late => c \in exists
  BY DEF PutInto, Call

\* The requests as WriteMove leaves them, before anything is put anywhere.
Overtaken(r) == [q \in Calls |->
                   IF q = r THEN NoCall
                   ELSE [call[q] EXCEPT !.stale = @ \/ call[q].op = "move"]]

LEMMA OthersTyped ==
    ASSUME TreeTypeOK, NEW r \in Calls
    PROVE  /\ Overtaken(r) \in [Calls -> Call]
           /\ \A q \in Calls \ {r} :
                 /\ Overtaken(r)[q].op = call[q].op
                 /\ Overtaken(r)[q].cat = call[q].cat
                 /\ Overtaken(r)[q].to = call[q].to
                 /\ Overtaken(r)[q].cursor = call[q].cursor
                 /\ call[q].stale => Overtaken(r)[q].stale
                 /\ call[q].op = "move" => Overtaken(r)[q].stale
           /\ Overtaken(r)[r] = NoCall
  <1>1. \A q \in Calls : call[q] \in Call /\ call[q].stale \in BOOLEAN
    BY DEF TreeTypeOK, Call
  <1>2. \A q \in Calls \ {r} :
           Overtaken(r)[q] = [call[q] EXCEPT !.stale = call[q].stale \/ call[q].op = "move"]
    BY DEF Overtaken
  <1>3. Overtaken(r)[r] = NoCall
    BY DEF Overtaken
  <1>4. \A q \in Calls \ {r} :
           [call[q] EXCEPT !.stale = call[q].stale \/ call[q].op = "move"] \in Call
    BY <1>1 DEF Call
  <1>5. \A q \in Calls \ {r} :
                 /\ Overtaken(r)[q].op = call[q].op
                 /\ Overtaken(r)[q].cat = call[q].cat
                 /\ Overtaken(r)[q].to = call[q].to
                 /\ Overtaken(r)[q].cursor = call[q].cursor
                 /\ Overtaken(r)[q].stale = (call[q].stale \/ call[q].op = "move")
    BY <1>1, <1>2 DEF Call
  <1>6. Overtaken(r) = [q \in Calls |-> Overtaken(r)[q]]
    BY DEF Overtaken
  <1>7. \A q \in Calls : Overtaken(r)[q] \in Call
    BY <1>2, <1>3, <1>4, NoCallTyped
  <1>8. Overtaken(r) \in [Calls -> Call]
    BY <1>6, <1>7
  <1>9. QED
    BY <1>3, <1>5, <1>8

\* A step of one request that only takes it on.
OneRequest(r) ==
    /\ UNCHANGED <<exists, active, parent, place, raced, cut, late>>
    /\ \/ \E c \in exists, to \in exists \cup {Root} :
             call' = [call EXCEPT ![r] = [NoCall EXCEPT !.op = "move", !.cat = c, !.to = to,
                                                    !.cursor = to]]
       \/ \E c \in exists :
             /\ ProductsIn(c) = {}
             /\ call' = [call EXCEPT ![r] = [NoCall EXCEPT !.op = "count", !.cat = c]]
       \/ call' = [call EXCEPT ![r] = NoCall]
       \/ /\ Walking(r)
          /\ call[r].cursor # call[r].cat
          /\ call' = [call EXCEPT ![r] = [call[r] EXCEPT !.cursor = parent[call[r].cursor],
                                                      !.depth = @ + 1]]
       \/ /\ call[r].op = "count"
          /\ Children(call[r].cat) = {}
          /\ call' = [call EXCEPT ![r] = [call[r] EXCEPT !.op = "archive"]]

\* Every step is one of these.
LEMMA TreeSteps ==
    ASSUME TreeTypeOK, [TreeNext]_treeVars
    PROVE  \/ \E p \in ProductIds, c \in CategoryIds : CreateProduct(p, c) \/ MoveProduct(p, c)
           \/ \E p \in ProductIds : DeleteProduct(p)
           \/ \E c \in CategoryIds, under \in Parents : CreateCategory(c, under)
           \/ \E r \in Calls : OneRequest(r) \/ WriteMove(r) \/ WriteArchive(r)
           \/ UNCHANGED treeVars
  <1>1. ASSUME NEW r \in Calls, NEW c \in CategoryIds, NEW to \in Parents,
               StartMove(r, c, to)
        PROVE  OneRequest(r)
    BY <1>1 DEF StartMove, OneRequest
  <1>2. ASSUME NEW r \in Calls, Walk(r)
        PROVE  OneRequest(r)
    <2>1. CASE call[r].cursor = call[r].cat
      BY <1>2, <2>1 DEF Walk, OneRequest
    <2>2. CASE call[r].cursor # call[r].cat
      BY <1>2, <2>2 DEF Walk, OneRequest
    <2>3. QED
      BY <2>1, <2>2
  <1>3. ASSUME NEW r \in Calls, NEW c \in CategoryIds, StartArchive(r, c)
        PROVE  OneRequest(r)
    BY <1>3 DEF StartArchive, OneRequest
  <1>4. ASSUME NEW r \in Calls, CountChildren(r)
        PROVE  OneRequest(r)
    <2>1. CASE Children(call[r].cat) = {}
      BY <1>4, <2>1 DEF CountChildren, OneRequest
    <2>2. CASE Children(call[r].cat) # {}
      BY <1>4, <2>2 DEF CountChildren, OneRequest
    <2>3. QED
      BY <2>1, <2>2
  <1>5. QED
    BY <1>1, <1>2, <1>3, <1>4 DEF TreeNext

-----------------------------------------------------------------------------
LEMMA TreeTypeStep ==
    ASSUME TreeTypeOK, Grounded, [TreeNext]_treeVars
    PROVE  TreeTypeOK' /\ Grounded'
  <1> USE CategoriesAssumption
  <1>1. ASSUME NEW p \in ProductIds, NEW c \in CategoryIds,
               CreateProduct(p, c) \/ MoveProduct(p, c)
        PROVE  TreeTypeOK' /\ Grounded'
    <2>1. PutInto(c, call) /\ c \in exists /\ place' = [place EXCEPT ![p] = c]
          /\ UNCHANGED <<exists, active, parent, raced, cut>>
      BY <1>1 DEF CreateProduct, MoveProduct
    <2>2. call \in [Calls -> Call]
      BY DEF TreeTypeOK
    <2>3. QED
      BY <2>1, <2>2, PutIntoFacts DEF TreeTypeOK, Grounded, Parents
  <1>2. ASSUME NEW p \in ProductIds, DeleteProduct(p)
        PROVE  TreeTypeOK' /\ Grounded'
    BY <1>2 DEF DeleteProduct, TreeTypeOK, Grounded, Parents
  <1>3. ASSUME NEW c \in CategoryIds, NEW under \in Parents, CreateCategory(c, under)
        PROVE  TreeTypeOK' /\ Grounded'
    <2>1. call \in [Calls -> Call] /\ PutInto(under, call)
      BY <1>3 DEF CreateCategory, TreeTypeOK
    <2>2. parent' \in [CategoryIds -> Parents]
          /\ \A d \in CategoryIds : parent'[d] \in exists' \cup {Root}
      BY <1>3 DEF CreateCategory, TreeTypeOK, Grounded, Parents
    <2>3. late' \subseteq CategoryIds
      BY <2>1, PutIntoFacts DEF TreeTypeOK
    <2>4. QED
      BY <1>3, <2>1, <2>2, <2>3, PutIntoFacts DEF CreateCategory, TreeTypeOK, Grounded
  <1>4. ASSUME NEW r \in Calls, NEW q \in Call,
               call' = [call EXCEPT ![r] = q],
               UNCHANGED <<exists, active, parent, place, raced, cut, late>>,
               q.op # "none" => q.cat \in exists,
               q.to \in exists \cup {Root}, q.cursor \in exists \cup {Root}
        PROVE  TreeTypeOK' /\ Grounded'
    BY <1>4 DEF TreeTypeOK, Grounded
  <1>5. ASSUME NEW r \in Calls, OneRequest(r)
        PROVE  TreeTypeOK' /\ Grounded'
    <2>1. ASSUME NEW c \in exists, NEW to \in exists \cup {Root},
                 call' = [call EXCEPT ![r] = [NoCall EXCEPT !.op = "move", !.cat = c, !.to = to,
                                                        !.cursor = to]]
          PROVE  TreeTypeOK' /\ Grounded'
      <3> DEFINE q == [NoCall EXCEPT !.op = "move", !.cat = c, !.to = to, !.cursor = to]
      <3>1. q \in Call /\ q.cat = c /\ q.to = to /\ q.cursor = to
        BY NoCallTyped DEF NoCall, Call, Parents, TreeTypeOK
      <3>2. UNCHANGED <<exists, active, parent, place, raced, cut, late>>
        BY <1>5 DEF OneRequest
      <3>3. call' = [call EXCEPT ![r] = q]
        BY <2>1
      <3> HIDE DEF q
      <3>4. QED
        BY <1>4, <3>1, <3>2, <3>3
    <2>2. ASSUME NEW c \in exists,
                 call' = [call EXCEPT ![r] = [NoCall EXCEPT !.op = "count", !.cat = c]]
          PROVE  TreeTypeOK' /\ Grounded'
      <3> DEFINE q == [NoCall EXCEPT !.op = "count", !.cat = c]
      <3>1. q \in Call /\ q.cat = c /\ q.to = Root /\ q.cursor = Root
        BY NoCallTyped DEF NoCall, Call, Parents, TreeTypeOK
      <3>2. UNCHANGED <<exists, active, parent, place, raced, cut, late>>
        BY <1>5 DEF OneRequest
      <3>3. call' = [call EXCEPT ![r] = q]
        BY <2>2
      <3> HIDE DEF q
      <3>4. QED
        BY <1>4, <3>1, <3>2, <3>3
    <2>3. CASE call' = [call EXCEPT ![r] = NoCall]
      BY <1>4, <1>5, <2>3, NoCallTyped DEF OneRequest
    <2>4. CASE /\ Walking(r)
               /\ call' = [call EXCEPT ![r] = [call[r] EXCEPT !.cursor = parent[call[r].cursor],
                                                           !.depth = @ + 1]]
      <3> DEFINE q == [call[r] EXCEPT !.cursor = parent[call[r].cursor], !.depth = @ + 1]
      <3>1. call[r] \in Call /\ call[r].cursor \in CategoryIds
        BY <2>4 DEF Walking, TreeTypeOK, Call, Parents
      <3>2. parent[call[r].cursor] \in exists \cup {Root}
            /\ parent[call[r].cursor] \in Parents
        BY <3>1 DEF Grounded, TreeTypeOK
      <3>3. call[r].depth + 1 \in 0 .. WalkLimit
        BY <2>4, <3>1 DEF Walking, Call
      <3>4. q \in Call /\ q.cat = call[r].cat /\ q.to = call[r].to /\ q.op = call[r].op
            /\ q.cursor = parent[call[r].cursor]
        BY <3>1, <3>2, <3>3 DEF Call
      <3>5. UNCHANGED <<exists, active, parent, place, raced, cut, late>>
        BY <1>5 DEF OneRequest
      <3>6. call' = [call EXCEPT ![r] = q]
        BY <2>4
      <3> HIDE DEF q
      <3>7. QED
        BY <1>4, <3>2, <3>4, <3>5, <3>6 DEF Grounded
    <2>5. CASE /\ call[r].op = "count"
               /\ call' = [call EXCEPT ![r] = [call[r] EXCEPT !.op = "archive"]]
      <3> DEFINE q == [call[r] EXCEPT !.op = "archive"]
      <3>1. q \in Call /\ q.cat = call[r].cat /\ q.to = call[r].to
            /\ q.cursor = call[r].cursor
        BY DEF Call, TreeTypeOK
      <3>2. UNCHANGED <<exists, active, parent, place, raced, cut, late>>
        BY <1>5 DEF OneRequest
      <3>3. call' = [call EXCEPT ![r] = q]
        BY <2>5
      <3> HIDE DEF q
      <3>4. QED
        BY <1>4, <2>5, <3>1, <3>2, <3>3 DEF Grounded
    <2>6. QED
      BY <1>5, <2>1, <2>2, <2>3, <2>4, <2>5 DEF OneRequest
  <1>6. ASSUME NEW r \in Calls, WriteMove(r)
        PROVE  TreeTypeOK' /\ Grounded'
    <2> DEFINE others == Overtaken(r)
    <2>1. /\ others \in [Calls -> Call]
          /\ \A q \in Calls \ {r} : /\ others[q].op = call[q].op
                                    /\ others[q].cat = call[q].cat
                                    /\ others[q].to = call[q].to
                                    /\ others[q].cursor = call[q].cursor
          /\ others[r] = NoCall
      BY OthersTyped
    <2>2. PutInto(call[r].to, others) /\ UNCHANGED <<exists, active, place>>
      BY <1>6 DEF WriteMove, Overtaken
    <2> HIDE DEF others
    <2>3. /\ call' \in [Calls -> Call]
          /\ \A q \in Calls : /\ call'[q].op = others[q].op
                              /\ call'[q].cat = others[q].cat
                              /\ call'[q].to = others[q].to
                              /\ call'[q].cursor = others[q].cursor
          /\ late' \subseteq CategoryIds
      BY <2>1, <2>2, PutIntoFacts DEF TreeTypeOK
    <2>4. \A q \in Calls :
             /\ call'[q].op # "none" => call'[q].cat \in exists
             /\ call'[q].to \in exists \cup {Root}
             /\ call'[q].cursor \in exists \cup {Root}
      BY <2>1, <2>3, NoCallTyped DEF Grounded
    <2>5. parent' = [parent EXCEPT ![call[r].cat] = call[r].to]
          /\ raced' \in BOOLEAN /\ cut' \in BOOLEAN
      BY <1>6 DEF WriteMove, TreeTypeOK
    <2>6. call[r].to \in exists \cup {Root}
      BY DEF Grounded
    <2>7. parent' \in [CategoryIds -> Parents]
          /\ \A d \in CategoryIds : parent'[d] \in exists \cup {Root}
      BY <2>5, <2>6 DEF TreeTypeOK, Grounded, Parents
    <2>8. QED
      BY <2>2, <2>3, <2>4, <2>5, <2>7 DEF TreeTypeOK, Grounded
  <1>7. ASSUME NEW r \in Calls, WriteArchive(r)
        PROVE  TreeTypeOK' /\ Grounded'
    <2>1. call[r].cat \in CategoryIds
      BY <1>7 DEF WriteArchive, Grounded, TreeTypeOK
    <2>2. call' \in [Calls -> Call]
      BY <1>7, NoCallTyped DEF WriteArchive, TreeTypeOK
    <2>3. Grounded'
      BY <1>7, NoCallTyped DEF WriteArchive, TreeTypeOK, Grounded
    <2>4. QED
      BY <1>7, <2>1, <2>2, <2>3 DEF WriteArchive, TreeTypeOK
  <1>8. CASE UNCHANGED treeVars
    BY <1>8 DEF treeVars, TreeTypeOK, Grounded
  <1>9. QED
    BY TreeSteps, <1>1, <1>2, <1>3, <1>5, <1>6, <1>7, <1>8

-----------------------------------------------------------------------------
\* The tree and the walks through it.
LEMMA AncestryStep ==
    ASSUME TreeTypeOK, Grounded, WalksAreGuided, AncestryIsSound, [TreeNext]_treeVars
    PROVE  WalksAreGuided' /\ AncestryIsSound'
  <1> USE CategoriesAssumption
  <1>1. ASSUME UNCHANGED <<parent, raced, cut>>,
               \A r \in Calls : call'[r].op = "move" => call'[r] = call[r]
        PROVE  WalksAreGuided' /\ AncestryIsSound'
    BY <1>1 DEF WalksAreGuided, Guided, AncestryIsSound, Acyclic
  <1>2. ASSUME NEW p \in ProductIds, NEW c \in CategoryIds,
               CreateProduct(p, c) \/ MoveProduct(p, c)
        PROVE  WalksAreGuided' /\ AncestryIsSound'
    <2>1. call \in [Calls -> Call] /\ PutInto(c, call) /\ UNCHANGED <<parent, raced, cut>>
      BY <1>2 DEF CreateProduct, MoveProduct, TreeTypeOK
    <2>2. QED
      BY <1>1, <2>1, PutIntoFacts
  <1>3. ASSUME NEW c \in CategoryIds, NEW under \in Parents, CreateCategory(c, under)
        PROVE  WalksAreGuided' /\ AncestryIsSound'
    <2>1. /\ call \in [Calls -> Call] /\ PutInto(under, call)
          /\ UNCHANGED <<raced, cut>>
          /\ c \notin exists /\ under \in exists \cup {Root}
          /\ parent' = [parent EXCEPT ![c] = under]
      BY <1>3 DEF CreateCategory, TreeTypeOK
    <2>2. \A r \in Calls : call'[r].op = "move" => call'[r] = call[r]
      BY <2>1, PutIntoFacts
    <2>3. ASSUME NEW S \in SUBSET CategoryIds, NEW x \in S \ {c}, parent'[x] \in S
          PROVE  parent[x] \in S \ {c}
      BY <2>1, <2>3 DEF Grounded, TreeTypeOK
    <2>4. AncestryIsSound'
      <3> SUFFICES ASSUME Acyclic, NEW S \in SUBSET CategoryIds,
                          \A x \in S : parent'[x] \in S
                   PROVE  S = {}
        BY <2>1 DEF AncestryIsSound, Acyclic
      <3>1. S \ {c} = {}
        BY <2>3 DEF Acyclic
      <3>2. c \notin S
        BY <2>1, <3>1 DEF TreeTypeOK
      <3>3. QED
        BY <3>1, <3>2
    <2>5. ASSUME NEW r \in Calls PROVE Guided(call[r])'
      <3> SUFFICES ASSUME call'[r].op = "move", ~call'[r].stale, NEW S \in SUBSET CategoryIds,
                          call'[r].to \in S, \A x \in S \ {call'[r].cat} : parent'[x] \in S
                   PROVE  call'[r].cursor \in S
        BY DEF Guided
      <3>1. call'[r] = call[r] /\ call[r].to \in S \ {c} /\ call[r].cat # c
        BY <2>1, <2>2 DEF Grounded
      <3>2. \A x \in (S \ {c}) \ {call[r].cat} : parent[x] \in S \ {c}
        BY <2>3, <3>1
      <3>3. call[r].cursor \in S \ {c}
        BY <3>1, <3>2 DEF WalksAreGuided, Guided
      <3>4. QED
        BY <3>1, <3>3
    <2>6. WalksAreGuided'
      BY <2>5 DEF WalksAreGuided
    <2>7. QED
      BY <2>4, <2>6
  <1>4. ASSUME NEW r \in Calls, OneRequest(r)
        PROVE  WalksAreGuided' /\ AncestryIsSound'
    <2>1. UNCHANGED <<parent, raced, cut>> /\ \A q \in Calls \ {r} : call'[q] = call[q]
      BY <1>4 DEF OneRequest, TreeTypeOK
    <2>2. Guided(call'[r])
      <3>1. ASSUME NEW c \in exists, NEW to \in exists \cup {Root},
                   call' = [call EXCEPT ![r] = [NoCall EXCEPT !.op = "move", !.cat = c, !.to = to,
                                                          !.cursor = to]]
            PROVE  Guided(call'[r])
        BY <3>1 DEF Guided, NoCall, TreeTypeOK
      <3>2. ASSUME NEW c \in exists,
                   call' = [call EXCEPT ![r] = [NoCall EXCEPT !.op = "count", !.cat = c]]
            PROVE  Guided(call'[r])
        BY <3>2 DEF Guided, NoCall, TreeTypeOK
      <3>3. CASE call' = [call EXCEPT ![r] = NoCall]
        BY <3>3, NoCallTyped DEF Guided, TreeTypeOK
      <3>4. CASE /\ Walking(r)
                 /\ call[r].cursor # call[r].cat
                 /\ call' = [call EXCEPT ![r] = [call[r] EXCEPT !.cursor = parent[call[r].cursor],
                                                             !.depth = @ + 1]]
        <4>1. call[r] \in Call /\ call'[r] = [call[r] EXCEPT !.cursor = parent[call[r].cursor],
                                                             !.depth = @ + 1]
          BY <3>4 DEF TreeTypeOK
        <4>2. /\ call'[r].op = call[r].op /\ call'[r].stale = call[r].stale
              /\ call'[r].to = call[r].to /\ call'[r].cat = call[r].cat
              /\ call'[r].cursor = parent[call[r].cursor]
          BY <4>1 DEF Call
        <4>3. Guided(call[r])
          BY DEF WalksAreGuided
        <4>4. QED
          BY <3>4, <4>2, <4>3 DEF Guided
      <3>5. CASE /\ call[r].op = "count"
                 /\ call' = [call EXCEPT ![r] = [call[r] EXCEPT !.op = "archive"]]
        <4>1. call'[r].op = "archive"
          BY <3>5 DEF TreeTypeOK, Call
        <4>2. QED
          BY <4>1 DEF Guided
      <3>6. QED
        BY <1>4, <3>1, <3>2, <3>3, <3>4, <3>5 DEF OneRequest
    <2>3. QED
      BY <2>1, <2>2 DEF WalksAreGuided, Guided, AncestryIsSound, Acyclic
  <1>5. ASSUME NEW r \in Calls, WriteMove(r)
        PROVE  WalksAreGuided' /\ AncestryIsSound'
    <2> DEFINE others == Overtaken(r)
    <2>1. /\ others \in [Calls -> Call]
          /\ \A q \in Calls \ {r} : /\ others[q].op = call[q].op
                                    /\ call[q].op = "move" => others[q].stale
          /\ others[r] = NoCall
      BY OthersTyped
    <2>2. PutInto(call[r].to, others)
      BY <1>5 DEF WriteMove, Overtaken
    <2> HIDE DEF others
    <2>3. \A q \in Calls : call'[q].op = "move" => call'[q].stale
      BY <2>1, <2>2, PutIntoFacts, NoCallTyped
    <2>4. AncestryIsSound'
      <3> SUFFICES ASSUME ~raced', ~cut', NEW S \in SUBSET CategoryIds,
                          \A x \in S : parent'[x] \in S
                   PROVE  S = {}
        BY DEF AncestryIsSound, Acyclic
      <3>1. /\ Acyclic /\ call[r].op = "move" /\ ~call[r].stale /\ call[r].cursor = Root
            /\ parent' = [parent EXCEPT ![call[r].cat] = call[r].to]
        BY <1>5 DEF WriteMove, AncestryIsSound
      <3>2. \A x \in S \ {call[r].cat} : parent[x] \in S
        BY <3>1 DEF TreeTypeOK
      <3>3. CASE call[r].cat \notin S
        BY <3>1, <3>2, <3>3 DEF Acyclic
      <3>4. CASE call[r].cat \in S
        <4>1. call[r].to \in S
          BY <3>1, <3>4 DEF TreeTypeOK
        <4>2. call[r].cursor \in S
          BY <3>1, <3>2, <4>1 DEF WalksAreGuided, Guided
        <4>3. QED
          BY <3>1, <4>2
      <3>5. QED
        BY <3>3, <3>4
    <2>5. QED
      BY <2>3, <2>4 DEF WalksAreGuided, Guided
  <1>6. ASSUME NEW r \in Calls, WriteArchive(r)
        PROVE  WalksAreGuided' /\ AncestryIsSound'
    <2>1. /\ UNCHANGED <<parent, raced, cut>>
          /\ \A q \in Calls \ {r} : call'[q] = call[q]
          /\ call'[r] = NoCall
      BY <1>6 DEF WriteArchive, TreeTypeOK
    <2>2. \A q \in Calls : call'[q].op = "move" => call'[q] = call[q]
      BY <2>1, NoCallTyped
    <2>3. QED
      BY <1>1, <2>1, <2>2
  <1>7. QED
    BY TreeSteps, <1>1, <1>2, <1>3, <1>4, <1>5, <1>6 DEF DeleteProduct, treeVars

-----------------------------------------------------------------------------
\* What stays empty: nothing was put into it.
LEMMA StillEmpty ==
    ASSUME Grounded, NEW c \in exists, NEW x,
           \A p \in ProductIds : place'[p] = place[p] \/ place'[p] = x \/ place'[p] = Root,
           \A d \in exists' : (d \in exists /\ parent'[d] = parent[d]) \/ parent'[d] = x,
           c # x, c # Root
    PROVE  /\ ProductsIn(c) = {} => ProductsIn(c)' = {}
           /\ Children(c) = {} => Children(c)' = {}
  BY DEF ProductsIn, Children

\* Something is put into one category: others stay as they were, and who had
\* counted in this one, or had archived it, is known to be outdated.
LEMMA PutStep ==
    ASSUME TreeTypeOK, Grounded, CountsHold, ArchivedIsEmpty, NEW x,
           NEW calls \in [Calls -> Call], PutInto(x, calls),
           \A r \in Calls : /\ calls[r].op \in {"count", "archive"} =>
                                  /\ calls[r].op = call[r].op
                                  /\ calls[r].cat = call[r].cat
                                  /\ call[r].stale => calls[r].stale,
           \A p \in ProductIds : place'[p] = place[p] \/ place'[p] = x \/ place'[p] = Root,
           \A d \in exists' : (d \in exists /\ parent'[d] = parent[d]) \/ parent'[d] = x,
           exists \subseteq exists', exists' \ active' = exists \ active
    PROVE  CountsHold' /\ ArchivedIsEmpty'
  <1>1. Root \notin exists
    BY CategoriesAssumption DEF TreeTypeOK
  <1>2. ASSUME NEW c \in exists, c # x
        PROVE  /\ ProductsIn(c) = {} => ProductsIn(c)' = {}
               /\ Children(c) = {} => Children(c)' = {}
    BY <1>1, <1>2, StillEmpty
  <1>3. CountsHold'
    <2> SUFFICES ASSUME NEW r \in Calls, call'[r].op \in {"count", "archive"}, ~call'[r].stale
                 PROVE  Counted(call[r])'
      BY DEF CountsHold, Counted
    <2>1. /\ call'[r].op = call[r].op /\ call'[r].cat = call[r].cat /\ ~call[r].stale
          /\ call[r].cat # x
      BY PutIntoFacts
    <2>2. call[r].cat \in exists
      BY <2>1 DEF Grounded
    <2>3. Counted(call[r])
      BY DEF CountsHold
    <2>4. /\ ProductsIn(call[r].cat)' = {}
          /\ call[r].op = "archive" => Children(call[r].cat)' = {}
      BY <1>2, <2>1, <2>2, <2>3 DEF Counted
    <2>5. QED
      BY <2>1, <2>4 DEF Counted, ProductsIn, Children
  <1>4. ArchivedIsEmpty'
    <2> SUFFICES ASSUME NEW c \in exists \ active, c \notin late'
                 PROVE  ProductsIn(c)' = {} /\ Children(c)' = {}
      BY DEF ArchivedIsEmpty, ProductsIn, Children
    <2>1. c # x /\ c \notin late
      BY PutIntoFacts
    <2>2. QED
      BY <1>2, <2>1 DEF ArchivedIsEmpty
  <1>5. QED
    BY <1>3, <1>4

LEMMA EmptyStep ==
    ASSUME TreeTypeOK, Grounded, CountsHold, ArchivedIsEmpty, [TreeNext]_treeVars
    PROVE  CountsHold' /\ ArchivedIsEmpty'
  <1> USE CategoriesAssumption
  <1>1. ASSUME NEW p \in ProductIds, NEW c \in CategoryIds,
               CreateProduct(p, c) \/ MoveProduct(p, c)
        PROVE  CountsHold' /\ ArchivedIsEmpty'
    <2>1. call \in [Calls -> Call] /\ PutInto(c, call)
          /\ place' = [place EXCEPT ![p] = c] /\ UNCHANGED <<exists, active, parent>>
      BY <1>1 DEF CreateProduct, MoveProduct, TreeTypeOK
    <2>2. \A x \in ProductIds : place'[x] = place[x] \/ place'[x] = c
      BY <2>1 DEF TreeTypeOK
    <2>3. QED
      BY <2>1, <2>2, PutStep
  <1>2. ASSUME NEW p \in ProductIds, DeleteProduct(p)
        PROVE  CountsHold' /\ ArchivedIsEmpty'
    <2>1. UNCHANGED <<exists, active, parent, call, late>>
          /\ \A x \in ProductIds : place'[x] = place[x] \/ place'[x] = Root
      BY <1>2 DEF DeleteProduct, TreeTypeOK
    <2>2. \A c \in exists : /\ ProductsIn(c) = {} => ProductsIn(c)' = {}
                            /\ Children(c) = {} => Children(c)' = {}
      BY <2>1 DEF TreeTypeOK, ProductsIn, Children
    <2>3. \A r \in Calls : call[r].op # "none" => call[r].cat \in exists
      BY DEF Grounded
    <2>4. CountsHold'
      <3> SUFFICES ASSUME NEW r \in Calls PROVE Counted(call[r])'
        BY <2>1 DEF CountsHold, Counted, ProductsIn, Children
      <3>1. Counted(call[r])
        BY DEF CountsHold
      <3>2. QED
        BY <2>1, <2>2, <2>3, <3>1 DEF Counted
    <2>5. ArchivedIsEmpty'
      <3> SUFFICES ASSUME NEW c \in exists \ active, c \notin late
                   PROVE  ProductsIn(c)' = {} /\ Children(c)' = {}
        BY <2>1 DEF ArchivedIsEmpty, ProductsIn, Children
      <3>1. QED
        BY <2>2 DEF ArchivedIsEmpty
    <2>6. QED
      BY <2>4, <2>5
  <1>3. ASSUME NEW c \in CategoryIds, NEW under \in Parents, CreateCategory(c, under)
        PROVE  CountsHold' /\ ArchivedIsEmpty'
    <2>1. /\ call \in [Calls -> Call] /\ PutInto(under, call)
          /\ UNCHANGED place /\ exists' = exists \cup {c} /\ active' = active \cup {c}
          /\ parent' = [parent EXCEPT ![c] = under] /\ c \notin exists
      BY <1>3 DEF CreateCategory, TreeTypeOK
    <2>2. \A d \in exists' : (d \in exists /\ parent'[d] = parent[d]) \/ parent'[d] = under
      BY <2>1 DEF TreeTypeOK
    <2>3. exists \subseteq exists' /\ exists' \ active' = exists \ active
      BY <2>1 DEF TreeTypeOK
    <2>4. QED
      BY <2>1, <2>2, <2>3, PutStep
  <1>4. ASSUME NEW r \in Calls, UNCHANGED <<exists, active, parent, place, late>>,
               \A q \in Calls \ {r} : call'[q] = call[q], Counted(call'[r])
        PROVE  CountsHold' /\ ArchivedIsEmpty'
    <2>1. \A c : ProductsIn(c)' = ProductsIn(c) /\ Children(c)' = Children(c)
      BY <1>4 DEF ProductsIn, Children
    <2>2. \A q \in Calls : Counted(call'[q])
      BY <1>4 DEF CountsHold
    <2>3. CountsHold'
      BY <1>4, <2>2 DEF CountsHold, Counted, ProductsIn, Children
    <2>4. ArchivedIsEmpty'
      BY <1>4, <2>1 DEF ArchivedIsEmpty
    <2>5. QED
      BY <2>3, <2>4
  <1>5. ASSUME NEW r \in Calls, OneRequest(r)
        PROVE  CountsHold' /\ ArchivedIsEmpty'
    <2>1. UNCHANGED <<exists, active, parent, place, late>>
          /\ \A q \in Calls \ {r} : call'[q] = call[q]
      BY <1>5 DEF OneRequest, TreeTypeOK
    <2>2. ASSUME NEW c \in exists, NEW to \in exists \cup {Root},
                 call' = [call EXCEPT ![r] = [NoCall EXCEPT !.op = "move", !.cat = c, !.to = to,
                                                        !.cursor = to]]
          PROVE  Counted(call'[r])
      <3>1. call'[r].op = "move"
        BY <2>2 DEF NoCall, TreeTypeOK
      <3>2. QED
        BY <3>1 DEF Counted
    <2>3. ASSUME NEW c \in exists, ProductsIn(c) = {},
                 call' = [call EXCEPT ![r] = [NoCall EXCEPT !.op = "count", !.cat = c]]
          PROVE  Counted(call'[r])
      <3>1. call'[r].op = "count" /\ call'[r].cat = c
        BY <2>3 DEF NoCall, TreeTypeOK
      <3>2. QED
        BY <2>3, <3>1 DEF Counted
    <2>4. CASE call' = [call EXCEPT ![r] = NoCall]
      <3>1. call'[r].op = "none"
        BY <2>4, NoCallTyped DEF TreeTypeOK
      <3>2. QED
        BY <1>4, <2>1, <3>1 DEF Counted
    <2>5. CASE /\ Walking(r)
               /\ call' = [call EXCEPT ![r] = [call[r] EXCEPT !.cursor = parent[call[r].cursor],
                                                           !.depth = @ + 1]]
      <3>1. call'[r].op = "move"
        BY <2>5 DEF Walking, TreeTypeOK, Call
      <3>2. QED
        BY <1>4, <2>1, <3>1 DEF Counted
    <2>6. CASE /\ call[r].op = "count"
               /\ Children(call[r].cat) = {}
               /\ call' = [call EXCEPT ![r] = [call[r] EXCEPT !.op = "archive"]]
      <3>1. call'[r].op = "archive" /\ call'[r].cat = call[r].cat /\ call'[r].stale = call[r].stale
        BY <2>6 DEF TreeTypeOK, Call
      <3>2. Counted(call[r])
        BY DEF CountsHold
      <3>3. Counted(call'[r])
        BY <2>6, <3>1, <3>2 DEF Counted
      <3>4. QED
        BY <1>4, <2>1, <3>3
    <2>7. QED
      BY <1>4, <1>5, <2>1, <2>2, <2>3, <2>4, <2>5, <2>6 DEF OneRequest
  <1>6. ASSUME NEW r \in Calls, WriteMove(r)
        PROVE  CountsHold' /\ ArchivedIsEmpty'
    <2> DEFINE others == Overtaken(r)
    <2>1. /\ others \in [Calls -> Call]
          /\ \A q \in Calls \ {r} : /\ others[q].op = call[q].op
                                    /\ others[q].cat = call[q].cat
                                    /\ call[q].stale => others[q].stale
          /\ others[r] = NoCall
      BY OthersTyped
    <2>2. PutInto(call[r].to, others) /\ UNCHANGED <<exists, active, place>>
          /\ parent' = [parent EXCEPT ![call[r].cat] = call[r].to]
      BY <1>6 DEF WriteMove, Overtaken
    <2> HIDE DEF others
    <2>3. \A q \in Calls : others[q].op \in {"count", "archive"} =>
                 others[q].op = call[q].op /\ others[q].cat = call[q].cat
                 /\ (call[q].stale => others[q].stale)
      BY <2>1, NoCallTyped
    <2>4. \A d \in exists' : (d \in exists /\ parent'[d] = parent[d]) \/ parent'[d] = call[r].to
      BY <2>2 DEF TreeTypeOK
    <2>5. QED
      BY <2>1, <2>2, <2>3, <2>4, PutStep
  <1>7. ASSUME NEW r \in Calls, WriteArchive(r)
        PROVE  CountsHold' /\ ArchivedIsEmpty'
    <2> DEFINE c == call[r].cat
    <2>1. /\ UNCHANGED <<exists, parent, place>> /\ active' = active \ {c}
          /\ late' = IF c \in active /\ call[r].stale THEN late \cup {c} ELSE late
          /\ call' = [call EXCEPT ![r] = NoCall] /\ call[r].op = "archive"
      BY <1>7 DEF WriteArchive
    <2>2. c \in exists /\ Counted(call[r])
      BY <2>1 DEF Grounded, CountsHold
    <2>3. \A x : ProductsIn(x)' = ProductsIn(x) /\ Children(x)' = Children(x)
      BY <2>1 DEF ProductsIn, Children
    <2>4. CountsHold'
      <3>1. \A q \in Calls : Counted(call'[q])
        BY <2>1, NoCallTyped DEF TreeTypeOK, CountsHold, Counted
      <3>2. QED
        BY <2>1, <3>1 DEF CountsHold, Counted, ProductsIn, Children
    <2>5. ArchivedIsEmpty'
      <3> SUFFICES ASSUME NEW x \in exists \ active', x \notin late'
                   PROVE  ProductsIn(x) = {} /\ Children(x) = {}
        BY <2>1, <2>3 DEF ArchivedIsEmpty
      <3>1. CASE x \notin active
        BY <2>1, <3>1 DEF ArchivedIsEmpty
      <3>2. CASE x \in active
        <4>1. x = c /\ ~call[r].stale
          BY <2>1, <3>2
        <4>2. QED
          BY <2>1, <2>2, <4>1 DEF Counted
      <3>3. QED
        BY <3>1, <3>2
    <2>6. QED
      BY <2>4, <2>5
  <1>8. CASE UNCHANGED treeVars
    BY <1>8 DEF treeVars, CountsHold, Counted, ArchivedIsEmpty, ProductsIn, Children
  <1>9. QED
    BY TreeSteps, <1>1, <1>2, <1>3, <1>5, <1>6, <1>7, <1>8

-----------------------------------------------------------------------------
LEMMA TreeInitIInv == TreeInit => TreeIInv
  <1> SUFFICES ASSUME TreeInit PROVE TreeIInv
    OBVIOUS
  <1>1. TreeTypeOK /\ Grounded
    BY NoCallTyped, CategoriesAssumption DEF TreeInit, TreeTypeOK, Grounded, Parents
  <1>2. WalksAreGuided /\ CountsHold
    BY NoCallTyped DEF TreeInit, WalksAreGuided, Guided, CountsHold, Counted
  <1>3. AncestryIsSound
    BY CategoriesAssumption DEF TreeInit, AncestryIsSound, Acyclic
  <1>4. ArchivedIsEmpty
    BY DEF TreeInit, ArchivedIsEmpty
  <1>5. QED
    BY <1>1, <1>2, <1>3, <1>4 DEF TreeIInv

LEMMA TreeStepIInv == TreeIInv /\ [TreeNext]_treeVars => TreeIInv'
  BY TreeTypeStep, AncestryStep, EmptyStep DEF TreeIInv

LEMMA TreeInvariant == TreeSpec => []TreeIInv
  BY TreeInitIInv, TreeStepIInv, PTL DEF TreeSpec

\* Every variable stays in its type.  (Categories.)
THEOREM TreeTypeCorrect == TreeSpec => []TreeTypeOK
  <1>1. TreeIInv => TreeTypeOK
    BY DEF TreeIInv
  <1>2. QED
    BY TreeInvariant, <1>1, PTL

\* The walk keeps the tree free of cycles, for trees of any shape, as long as
\* no move overtook another and no walk gave up.  (categories.ts: updateCategory
\* and assertNoCycle.)
THEOREM AncestrySound == TreeSpec => []AncestryIsSound
  <1>1. TreeIInv => AncestryIsSound
    BY DEF TreeIInv
  <1>2. QED
    BY TreeInvariant, <1>1, PTL

\* An archived category is empty, but for what was put in after it was
\* counted.  (categories.ts: archiveCategory.)
THEOREM ArchivedEmpty == TreeSpec => []ArchivedIsEmpty
  <1>1. TreeIInv => ArchivedIsEmpty
    BY DEF TreeIInv
  <1>2. QED
    BY TreeInvariant, <1>1, PTL

-----------------------------------------------------------------------------
(* Configuration: what cleaning the answers does.                          *)

\* Answers as the page's controls give them, to questions that are there.
Entered(asked, answers) ==
    \A g \in Groups :
        Answered(answers[g]) => asked[g].exists /\ answers[g] \in Entries(asked[g])

LEMMA SpecTyped ==
    ASSUME NEW asked \in ProductSpec, NEW g \in Groups
    PROVE  /\ asked[g] \in GroupSpec
           /\ asked[g].input \in Inputs
           /\ asked[g].options \subseteq Codes
           /\ asked[g].rule \in Rules
           /\ asked[g].rule # Always => asked[g].rule.group \in Groups /\ asked[g].rule.equals \in Codes
  BY DEF ProductSpec, GroupSpec, Rules

LEMMA Special ==
    /\ \A c \in Codes : c # Typed /\ c # Blank /\ c # Invalid
    /\ Typed # Blank /\ Typed # Invalid /\ Blank # Invalid
  BY ConfigurationAssumption

\* A code in a clean answer was picked, in answer to a question that was asked.
LEMMA CleanedCode ==
    ASSUME NEW asked \in ProductSpec, NEW answers, NEW g \in Groups, NEW c \in Codes,
           c \in Cleaned(asked, answers)[g]
    PROVE  /\ g \in VisibleGroups(asked, answers)
           /\ c \in answers[g]
           /\ Fits(asked[g], answers[g])
           /\ Cleaned(asked, answers)[g] = Kept(asked[g], answers[g])
  <1>1. /\ g \in VisibleGroups(asked, answers)
        /\ Fits(asked[g], answers[g])
        /\ Cleaned(asked, answers)[g] = Kept(asked[g], answers[g])
    BY DEF Cleaned
  <1>2. c \in answers[g]
    BY <1>1, Special DEF Kept
  <1>3. QED
    BY <1>1, <1>2

\* Cleaning brings no question into sight.
LEMMA CleaningHides ==
    ASSUME NEW asked \in ProductSpec, NEW answers
    PROVE  VisibleGroups(asked, Cleaned(asked, answers)) \subseteq VisibleGroups(asked, answers)
  <1> SUFFICES ASSUME NEW g \in VisibleGroups(asked, Cleaned(asked, answers))
               PROVE  g \in VisibleGroups(asked, answers)
    OBVIOUS
  <1>1. g \in Groups /\ asked[g].exists
    BY DEF VisibleGroups
  <1>2. CASE asked[g].rule = Always
    BY <1>1, <1>2 DEF VisibleGroups, IsVisible
  <1>3. CASE asked[g].rule # Always
    <2>1. asked[g].rule.equals \in Cleaned(asked, answers)[asked[g].rule.group]
      BY <1>3 DEF VisibleGroups, IsVisible
    <2>2. asked[g].rule.equals \in answers[asked[g].rule.group]
      BY <1>1, <1>3, <2>1, SpecTyped, CleanedCode
    <2>3. QED
      BY <1>1, <2>2 DEF VisibleGroups, IsVisible
  <1>4. QED
    BY <1>2, <1>3

\* A picked answer to a question that is asked survives, as it is.
LEMMA PicksSurvive ==
    ASSUME NEW asked \in ProductSpec, NEW answers, Entered(asked, answers),
           Issues(asked, answers) = {},
           NEW g \in VisibleGroups(asked, answers), NEW c \in Codes, c \in answers[g]
    PROVE  /\ Cleaned(asked, answers)[g] = answers[g]
           /\ Fits(asked[g], answers[g])
           /\ asked[g].input \in Picks
  <1>1. g \in Groups /\ Answered(answers[g])
    BY DEF VisibleGroups, Answered
  <1>2. Fits(asked[g], answers[g])
    BY <1>1 DEF Issues
  <1>3. answers[g] \in Entries(asked[g])
    BY <1>1 DEF Entered
  <1>4. asked[g].input \in Picks
    <2>1. SUFFICES ASSUME asked[g].input \in {"NUMBER", "TEXT", "BOOLEAN"} PROVE FALSE
      BY <1>1, SpecTyped DEF Inputs, Picks
    <2>2. answers[g] \subseteq {Typed, Blank, Invalid}
      BY <1>3, <2>1 DEF Entries
    <2>3. QED
      BY <2>2, Special
  <1>5. Kept(asked[g], answers[g]) = answers[g]
    BY <1>4 DEF Kept, Picks
  <1>6. QED
    BY <1>1, <1>2, <1>4, <1>5 DEF Cleaned

\* What the browser sends is never a text of spaces.  (configuration.ts:
\* validateConfiguration trims.)
THEOREM CleanIsNotBlank ==
    ASSUME NEW asked \in ProductSpec, NEW answers, NEW g \in Groups
    PROVE  Cleaned(asked, answers)[g] # {Blank}
  <1>1. CASE Cleaned(asked, answers)[g] = {}
    BY <1>1
  <1>2. CASE /\ Fits(asked[g], answers[g])
             /\ Cleaned(asked, answers)[g] = Kept(asked[g], answers[g])
    <2>1. CASE asked[g].input \in Picks
      <3>1. answers[g] \subseteq Codes
        BY <1>2, <2>1, SpecTyped DEF Fits, Picks
      <3>2. QED
        BY <1>2, <2>1, <3>1, Special DEF Kept, Picks
    <2>2. CASE asked[g].input \in {"NUMBER", "TEXT", "BOOLEAN"}
      BY <1>2, <2>2, Special DEF Fits, Kept
    <2>3. QED
      BY <2>1, <2>2, SpecTyped DEF Inputs, Picks
  <1>3. QED
    BY <1>1, <1>2 DEF Cleaned

\* Answers without issues, when cleaned, answer all that they ask and hold
\* nothing the product does not take: no required question comes into sight
\* because others were dropped.  (configuration.ts: validateConfiguration, as
\* saveConfiguration relies on it.)
THEOREM CleanIsComplete ==
    ASSUME NEW asked \in ProductSpec, NEW answers,
           Issues(asked, answers) = {},
           \A g \in Groups : answers[g] # {Blank},
           NEW g \in Groups
    PROVE  LET clean == Cleaned(asked, answers)
           IN  /\ g \in VisibleGroups(asked, clean) /\ asked[g].required => Answered(clean[g])
               /\ Answered(clean[g]) => asked[g].exists /\ Fits(asked[g], clean[g])
  <1> DEFINE clean == Cleaned(asked, answers)
  <1>1. ASSUME g \in VisibleGroups(asked, clean), asked[g].required
        PROVE  Answered(clean[g])
    <2>1. g \in VisibleGroups(asked, answers)
      BY <1>1, CleaningHides
    <2>2. Answered(answers[g]) /\ Fits(asked[g], answers[g])
      BY <1>1, <2>1 DEF Issues
    <2>3. clean[g] = Kept(asked[g], answers[g])
      BY <2>1, <2>2 DEF Cleaned
    <2>4. Kept(asked[g], answers[g]) # {}
      BY <2>2 DEF Kept, Answered
    <2>5. QED
      BY <2>3, <2>4 DEF Answered
  <1>2. ASSUME Answered(clean[g])
        PROVE  asked[g].exists /\ Fits(asked[g], clean[g])
    <2>1. /\ g \in VisibleGroups(asked, answers) /\ Fits(asked[g], answers[g])
          /\ clean[g] = Kept(asked[g], answers[g])
      BY <1>2 DEF Cleaned, Answered
    <2>2. Fits(asked[g], Kept(asked[g], answers[g]))
      <3>1. CASE asked[g].input \in {"BOOLEAN", "TEXT"}
        BY <2>1, <3>1 DEF Fits, Kept
      <3>2. CASE asked[g].input \in {"SELECT", "MULTI_SELECT", "NUMBER"}
        BY <2>1, <3>2 DEF Kept
      <3>3. QED
        BY <3>1, <3>2, SpecTyped DEF Inputs, Picks
    <2>3. QED
      BY <2>1, <2>2 DEF VisibleGroups
  <1>3. QED
    BY <1>1, <1>2

\* While no question is more than two deep behind others, the price on the
\* page is made of the options that the server prices, although the server
\* gets the clean answers and cleans them again.  (configurator.tsx and
\* saveConfiguration: priceConfiguration on both sides.)
THEOREM PreviewIsPrice ==
    ASSUME NEW asked \in ProductSpec, Shallow(asked), NEW answers,
           Entered(asked, answers), Issues(asked, answers) = {}
    PROVE  Price(asked, Cleaned(asked, answers)) = Price(asked, answers)
  <1> DEFINE clean == Cleaned(asked, answers)
             twice == Cleaned(asked, clean)
  <1>1. ASSUME NEW g \in VisibleGroups(asked, clean), NEW c \in Codes, c \in clean[g]
        PROVE  c \in twice[g]
    <2>1. g \in Groups
      BY DEF VisibleGroups
    <2>2. g \in VisibleGroups(asked, answers) /\ c \in answers[g]
      BY <1>1, <2>1, CleanedCode
    <2>3. clean[g] = answers[g] /\ Fits(asked[g], clean[g]) /\ asked[g].input \in Picks
      BY <2>2, PicksSurvive
    <2>4. Answered(clean[g]) /\ Kept(asked[g], clean[g]) = clean[g]
      BY <1>1, <2>3 DEF Answered, Kept, Picks
    <2> HIDE DEF clean
    <2>5. twice[g] = clean[g]
      BY <1>1, <2>1, <2>3, <2>4 DEF Cleaned
    <2>6. QED
      BY <1>1, <2>5
  <1>2. ASSUME NEW g \in VisibleGroups(asked, clean)
        PROVE  g \in VisibleGroups(asked, twice)
    <2>1. g \in Groups /\ asked[g].exists
      BY DEF VisibleGroups
    <2>2. CASE asked[g].rule = Always
      BY <2>1, <2>2 DEF VisibleGroups, IsVisible
    <2>3. CASE asked[g].rule # Always
      <3> DEFINE h == asked[g].rule.group
                 e == asked[g].rule.equals
      <3>1. h \in Groups /\ e \in Codes
        BY <2>1, <2>3, SpecTyped
      <3>2. e \in clean[h]
        BY <1>2, <2>3 DEF VisibleGroups, IsVisible
      <3>3. h \in VisibleGroups(asked, answers)
        BY <3>1, <3>2, CleanedCode
      <3>4. h \in VisibleGroups(asked, clean)
        <4>1. CASE asked[h].rule = Always
          BY <3>3, <4>1 DEF VisibleGroups, IsVisible
        <4>2. CASE asked[h].rule # Always
          <5> DEFINE i == asked[h].rule.group
                     f == asked[h].rule.equals
          <5>1. i \in Groups /\ f \in Codes
            BY <3>1, <4>2, SpecTyped
          <5>2. f \in answers[i]
            BY <3>3, <4>2 DEF VisibleGroups, IsVisible
          <5>3. asked[i].rule = Always
            BY <2>1, <2>3, <3>1, <4>2, <5>1 DEF Shallow
          <5>4. i \in VisibleGroups(asked, answers)
            BY <5>1, <5>2, <5>3 DEF Entered, Answered, VisibleGroups, IsVisible
          <5>5. f \in clean[i]
            BY <5>1, <5>2, <5>4, PicksSurvive
          <5>6. QED
            BY <3>3, <5>5 DEF VisibleGroups, IsVisible
        <4>3. QED
          BY <4>1, <4>2
      <3>5. e \in twice[h]
        BY <1>1, <3>1, <3>2, <3>4
      <3>6. QED
        BY <2>1, <3>5 DEF VisibleGroups, IsVisible
    <2>4. QED
      BY <2>2, <2>3
  <1>3. VisibleGroups(asked, twice) = VisibleGroups(asked, clean)
    BY <1>2, CleaningHides
  <1>4. ASSUME NEW g \in Groups, NEW c \in Codes, g \in VisibleGroups(asked, clean)
        PROVE  c \in twice[g] <=> c \in clean[g]
    BY <1>1, <1>4, CleanedCode
  <1> HIDE DEF clean, twice
  <1>5. Chosen(asked, twice) = Chosen(asked, clean)
    BY <1>3, <1>4 DEF Chosen
  <1>6. QED
    BY <1>5 DEF Price, clean, twice

-----------------------------------------------------------------------------
(* Products: the product, its questions, and what is saved of it. *)

\* Complete for the product the server read.
Complete(row) ==
    \A g \in Groups :
        /\ (g \in VisibleGroups(row.spec, row.answers) /\ row.spec[g].required)
              => Answered(row.answers[g])
        /\ Answered(row.answers[g])
              => row.spec[g].exists /\ Fits(row.spec[g], row.answers[g])

AsShown(row) == row.same /\ Shallow(row.spec) => row.chosen = row.shown

\* What was sent are clean answers that the page's controls gave.
SentIsClean ==
    send.phase = "sent" =>
        \E answers \in Answers :
            /\ Entered(send.asked, answers)
            /\ Issues(send.asked, answers) = {}
            /\ send.row.answers = Cleaned(send.asked, answers)
            /\ send.row.shown = Price(send.asked, answers)

PricedIsSound == send.phase = "priced" => Complete(send.row) /\ AsShown(send.row)

IsSellable == Sellable(product.hasPrice, product.configurable, spec)

\* A publication that nothing has overtaken was read off the product as it is.
PublicationsAreVetted ==
    \A r \in Requests :
        (req[r].op = "transition" /\ req[r].to = "ACTIVE" /\ ~req[r].stale) => IsSellable

\* Who adds an option has named it.
OptionsAreNamed == \A r \in Requests : req[r].op = "saveOption" => req[r].code \in Codes

IInv ==
    /\ TypeOK
    /\ OptionsAreNamed
    /\ Entered(page.spec, page.answers)
    /\ SentIsClean
    /\ PricedIsSound
    /\ SavedIsComplete
    /\ ShallowPreviewIsSaved
    /\ PublicationsAreVetted
    /\ PublishedIsSellable

LEMMA CleanedTyped ==
    ASSUME NEW asked \in ProductSpec, NEW answers \in Answers
    PROVE  Cleaned(asked, answers) \in Answers
  <1>1. ASSUME NEW g \in Groups
        PROVE  Kept(asked[g], answers[g]) \in Values
    BY DEF Kept, Answers, Values
  <1>2. {} \in Values
    BY DEF Values
  <1>3. QED
    BY <1>1, <1>2 DEF Cleaned, Answers

LEMMA PriceTyped ==
    ASSUME NEW asked, NEW answers
    PROVE  Price(asked, answers) \in SUBSET (Groups \X Codes)
  BY DEF Price, Chosen

LEMMA EntriesTyped ==
    ASSUME NEW asked \in ProductSpec, NEW g \in Groups, NEW value \in Entries(asked[g])
    PROVE  value \in Values
  BY SpecTyped DEF Entries, Values, Inputs, Picks

LEMMA NothingTyped ==
    /\ NoGroup \in GroupSpec
    /\ NoSpec \in ProductSpec
    /\ Unanswered \in Answers
    /\ Idle \in Request
    /\ Closed \in Page
    /\ NoRow \in Row
    /\ NoSend \in Send
  <1>1. NoGroup \in GroupSpec
    BY DEF NoGroup, GroupSpec, Inputs, Picks, Rules
  <1>2. NoSpec \in ProductSpec
    BY <1>1 DEF NoSpec, ProductSpec
  <1>3. Unanswered \in Answers
    BY DEF Unanswered, Answers, Values
  <1>4. Idle \in Request
    BY <1>1 DEF Idle, Request, Ops, Statuses
  <1>5. Closed \in Page
    BY <1>2, <1>3 DEF Closed, Page
  <1>6. NoRow \in Row
    BY <1>2, <1>3 DEF NoRow, Row
  <1>7. NoSend \in Send
    BY <1>2, <1>6 DEF NoSend, Send
  <1>8. QED
    BY <1>1, <1>2, <1>3, <1>4, <1>5, <1>6, <1>7

\* After an edit no decision is fresh any more.
LEMMA EditedFacts ==
    ASSUME TypeOK, NEW ended, Edited(ended)
    PROVE  /\ req' \in [Requests -> Request]
           /\ \A r \in Requests : req'[r].op = "none" \/ req'[r].stale
           /\ unvetted' = TRUE
           /\ edits' \in 0 .. MaxEdits
  <1>1. \A r \in Requests : [req[r] EXCEPT !.stale = TRUE] \in Request
    BY DEF TypeOK, Request
  <1>2. \A r \in Requests : req'[r] \in {Idle, [req[r] EXCEPT !.stale = TRUE]}
    BY DEF Edited
  <1>3. req' \in [Requests -> Request]
    BY <1>1, <1>2, NothingTyped DEF Edited
  <1>4. \A r \in Requests : [req[r] EXCEPT !.stale = TRUE].stale
    BY DEF TypeOK, Request
  <1>5. edits' \in 0 .. MaxEdits
    BY ProductsAssumption DEF Edited, TypeOK
  <1>6. QED
    BY <1>2, <1>3, <1>4, <1>5 DEF Edited, Idle

LEMMA EditStep ==
    ASSUME TypeOK, NEW ended, Edited(ended), product' \in Product, spec' \in ProductSpec,
           UNCHANGED <<page, send, saved>>
    PROVE  TypeOK'
  BY EditedFacts DEF TypeOK

LEMMA DecideStep ==
    ASSUME TypeOK, NEW r \in Requests, NEW decision \in Request, Decide(r, decision)
    PROVE  TypeOK'
  BY DEF TypeOK, Decide

LEMMA TypeStep == TypeOK /\ OptionsAreNamed /\ [Next]_vars => TypeOK'
  <1> SUFFICES ASSUME TypeOK, OptionsAreNamed, [Next]_vars PROVE TypeOK'
    OBVIOUS
  <1>1. ASSUME NEW r \in Requests, NEW action \in ProductActions, DecideTransition(r, action)
        PROVE  TypeOK'
    <2>1. [Idle EXCEPT !.op = "transition", !.to = To(action)] \in Request
      BY NothingTyped DEF Request, Ops, Statuses, To, ProductActions
    <2>2. QED
      BY <1>1, <2>1, DecideStep DEF DecideTransition
  <1>2. ASSUME NEW r \in Requests, DecideDelete(r)
        PROVE  TypeOK'
    <2>1. [Idle EXCEPT !.op = "delete"] \in Request
      BY NothingTyped DEF Request, Ops
    <2>2. QED
      BY <1>2, <2>1, DecideStep DEF DecideDelete
  <1>3. ASSUME NEW r \in Requests, NEW entered \in GroupForms, DecideSaveGroup(r, entered)
        PROVE  TypeOK'
    <2>1. /\ entered \in [group : Groups, input : Inputs, required : BOOLEAN, rule : Rules]
          /\ spec[entered.group].exists \in BOOLEAN
      BY ProductsAssumption DEF TypeOK, ProductSpec, GroupSpec
    <2> DEFINE new == [exists |-> spec[entered.group].exists, input |-> entered.input,
                       required |-> entered.required, options |-> {}, rule |-> entered.rule]
    <2>2. new \in GroupSpec
      BY <2>1 DEF GroupSpec
    <2> HIDE DEF new
    <2>3. [Idle EXCEPT !.op = "saveGroup", !.group = entered.group, !.new = new] \in Request
      BY <2>1, <2>2, NothingTyped DEF Request, Ops
    <2>4. QED
      BY <1>3, <2>3, DecideStep DEF DecideSaveGroup, new
  <1>4. ASSUME NEW r \in Requests, NEW g \in Groups, NEW c \in Codes, DecideSaveOption(r, g, c)
        PROVE  TypeOK'
    <2>1. [Idle EXCEPT !.op = "saveOption", !.group = g, !.code = c] \in Request
      BY NothingTyped DEF Request, Ops
    <2>2. QED
      BY <1>4, <2>1, DecideStep DEF DecideSaveOption
  <1>5. ASSUME NEW r \in Requests, WriteTransition(r)
        PROVE  TypeOK'
    <2>1. [product EXCEPT !.status = req[r].to] \in Product
      BY DEF TypeOK, Product, Request
    <2>2. req[r].stale \in BOOLEAN
      BY DEF TypeOK, Request
    <2>3. QED
      BY <1>5, <2>1, <2>2, NothingTyped DEF WriteTransition, End, TypeOK
  <1>6. ASSUME NEW r \in Requests, WriteDelete(r)
        PROVE  TypeOK'
    <2>1. [product EXCEPT !.exists = FALSE] \in Product
      BY DEF TypeOK, Product
    <2>2. QED
      BY <1>6, <2>1, NothingTyped DEF WriteDelete, TypeOK
  <1>7. ASSUME NEW r \in Requests, WriteSaveGroup(r)
        PROVE  TypeOK'
    <2> DEFINE g == req[r].group
               new == [req[r].new EXCEPT !.exists = TRUE,
                         !.options = IF req[r].new.exists THEN spec[g].options ELSE {}]
    <2>1. req[r].new \in GroupSpec /\ \A h \in Groups : spec[h].options \subseteq Codes
      BY DEF TypeOK, Request, ProductSpec, GroupSpec
    <2>2. g \in Groups => new \in GroupSpec
      BY <2>1 DEF GroupSpec
    <2> HIDE DEF new
    <2>3. [spec EXCEPT ![g] = new] \in ProductSpec
      BY <2>2 DEF TypeOK, ProductSpec
    <2>4. spec' = [spec EXCEPT ![g] = new] /\ Edited({r}) /\ UNCHANGED <<product, page, send, saved>>
      BY <1>7 DEF WriteSaveGroup, new
    <2>5. QED
      BY <2>3, <2>4, EditStep DEF TypeOK
  <1>8. ASSUME NEW r \in Requests, WriteSaveOption(r)
        PROVE  TypeOK'
    <2> DEFINE g == req[r].group
    <2>1. [spec EXCEPT ![g].options = @ \cup {req[r].code}] \in ProductSpec
      <3>1. spec \in ProductSpec /\ req[r].code \in Codes \cup {Always}
        BY DEF TypeOK, Request
      <3>2. req[r].op = "saveOption" => req[r].code \in Codes
        BY DEF OptionsAreNamed
      <3>3. QED
        BY <1>8, <3>1, <3>2 DEF WriteSaveOption, ProductSpec, GroupSpec
    <2>2. QED
      BY <1>8, <2>1, EditStep DEF WriteSaveOption, TypeOK
  <1>9. ASSUME NEW r \in Requests, FailRequest(r)
        PROVE  TypeOK'
    BY <1>9, NothingTyped DEF FailRequest, End, TypeOK
  <1>10. ASSUME NEW configurable \in BOOLEAN, NEW hasPrice \in BOOLEAN,
                UpdateProduct(configurable, hasPrice)
         PROVE  TypeOK'
    <2>1. [product EXCEPT !.configurable = configurable, !.hasPrice = hasPrice] \in Product
      BY DEF TypeOK, Product
    <2>2. QED
      BY <1>10, <2>1, EditStep DEF UpdateProduct, TypeOK
  <1>11. ASSUME NEW g \in Groups, DeleteOptionGroup(g)
         PROVE  TypeOK'
    <2>1. [spec EXCEPT ![g] = NoGroup] \in ProductSpec
      BY NothingTyped DEF TypeOK, ProductSpec
    <2>2. QED
      BY <1>11, <2>1, EditStep DEF DeleteOptionGroup, TypeOK
  <1>12. ASSUME NEW g \in Groups, NEW c \in Codes, DeleteOption(g, c)
         PROVE  TypeOK'
    <2>1. [spec EXCEPT ![g].options = @ \ {c}] \in ProductSpec
      BY DEF TypeOK, ProductSpec, GroupSpec
    <2>2. QED
      BY <1>12, <2>1, EditStep DEF DeleteOption, TypeOK
  <1>13. ASSUME OpenPage \/ ClosePage
         PROVE  TypeOK'
    <2>1. Load \in Page
      BY NothingTyped DEF Load, Page, TypeOK
    <2>2. QED
      BY <1>13, <2>1, NothingTyped DEF OpenPage, ClosePage, TypeOK
  <1>14. ASSUME NEW g \in Groups, NEW value \in Entries(page.spec[g]), Answer(g, value)
         PROVE  TypeOK'
    <2>1. value \in Values
      BY EntriesTyped DEF TypeOK, Page
    <2>2. [page EXCEPT !.answers[g] = value] \in Page
      BY <2>1 DEF TypeOK, Page, Answers
    <2>3. QED
      BY <1>14, <2>2 DEF Answer, TypeOK
  <1>15. ASSUME Submit
         PROVE  TypeOK'
    <2>1. /\ Cleaned(page.spec, page.answers) \in Answers
          /\ Price(page.spec, page.answers) \in SUBSET (Groups \X Codes)
          /\ page.spec \in ProductSpec
      BY CleanedTyped, PriceTyped DEF TypeOK, Page
    <2>2. [NoRow EXCEPT !.answers = Cleaned(page.spec, page.answers),
                        !.shown = Price(page.spec, page.answers)] \in Row
      BY <2>1, NothingTyped DEF Row
    <2>3. QED
      BY <1>15, <2>1, <2>2 DEF Submit, Send, TypeOK
  <1>16. ASSUME PriceConfiguration
         PROVE  TypeOK'
    <2>1. /\ send.row \in Row /\ send.asked \in ProductSpec /\ spec \in ProductSpec
          /\ send.row.answers \in Answers /\ send.row.shown \in SUBSET (Groups \X Codes)
      BY DEF TypeOK, Send, Row
    <2>2. /\ Cleaned(spec, send.row.answers) \in Answers
          /\ Price(spec, send.row.answers) \in SUBSET (Groups \X Codes)
      BY <2>1, CleanedTyped, PriceTyped
    <2>3. QED
      BY <1>16, <2>1, <2>2 DEF PriceConfiguration, TypeOK, Send, Row
  <1>17. ASSUME RefuseConfiguration
         PROVE  TypeOK'
    BY <1>17, NothingTyped DEF RefuseConfiguration, TypeOK
  <1>18. ASSUME SaveConfiguration
         PROVE  TypeOK'
    <2>1. Load \in Page /\ send.row \in Row
      BY NothingTyped DEF Load, Page, TypeOK, Send
    <2>2. QED
      BY <1>18, <2>1, NothingTyped DEF SaveConfiguration, TypeOK
  <1>19. ASSUME DeleteConfiguration
         PROVE  TypeOK'
    BY <1>19, NothingTyped DEF DeleteConfiguration, TypeOK
  <1>20. CASE UNCHANGED vars
    BY <1>20 DEF vars, TypeOK
  <1>21. QED
    BY <1>1, <1>2, <1>3, <1>4, <1>5, <1>6, <1>7, <1>8, <1>9, <1>10, <1>11, <1>12, <1>13,
       <1>14, <1>15, <1>16, <1>17, <1>18, <1>19, <1>20 DEF Next

-----------------------------------------------------------------------------
(* What a step does to each part of the state. *)


LEMMA SalesSteps ==
    ASSUME [Next]_vars
    PROVE  \/ UNCHANGED <<page, send>> /\ (UNCHANGED saved \/ saved' = NoRow)
           \/ UNCHANGED <<send, saved>> /\ page' \in {Load, Closed}
           \/ UNCHANGED <<send, saved>>
              /\ \E g \in Groups : \E value \in Entries(page.spec[g]) : Answer(g, value)
           \/ UNCHANGED <<page, saved>> /\ (Submit \/ PriceConfiguration \/ send' = NoSend)
           \/ SaveConfiguration
  <1>1. ASSUME NEW r \in Requests, NEW decision, Decide(r, decision)
        PROVE  UNCHANGED <<page, send, saved>>
    BY <1>1 DEF Decide
  <1>2. ASSUME NEW r \in Requests,
               \/ \E action \in ProductActions : DecideTransition(r, action)
               \/ DecideDelete(r)
               \/ \E entered \in GroupForms : DecideSaveGroup(r, entered)
               \/ \E g \in Groups, c \in Codes : DecideSaveOption(r, g, c)
        PROVE  UNCHANGED <<page, send, saved>>
    BY <1>1, <1>2 DEF DecideTransition, DecideDelete, DecideSaveGroup, DecideSaveOption
  <1>3. ASSUME NEW r \in Requests,
               \/ WriteTransition(r) \/ WriteDelete(r) \/ WriteSaveGroup(r)
               \/ WriteSaveOption(r) \/ FailRequest(r)
        PROVE  UNCHANGED <<page, send>> /\ (UNCHANGED saved \/ saved' = NoRow)
    BY <1>3 DEF WriteTransition, WriteDelete, WriteSaveGroup, WriteSaveOption, FailRequest
  <1>4. ASSUME \/ \E configurable, hasPrice \in BOOLEAN : UpdateProduct(configurable, hasPrice)
               \/ \E g \in Groups : DeleteOptionGroup(g)
               \/ \E g \in Groups, c \in Codes : DeleteOption(g, c)
        PROVE  UNCHANGED <<page, send, saved>>
    BY <1>4 DEF UpdateProduct, DeleteOptionGroup, DeleteOption
  <1>5. CASE OpenPage \/ ClosePage
    BY <1>5 DEF OpenPage, ClosePage
  <1>6. CASE \E g \in Groups : \E value \in Entries(page.spec[g]) : Answer(g, value)
    <2>1. UNCHANGED <<send, saved>>
      BY <1>6 DEF Answer
    <2>2. QED
      BY <1>6, <2>1
  <1>7. CASE Submit \/ PriceConfiguration \/ RefuseConfiguration
    BY <1>7 DEF Submit, PriceConfiguration, RefuseConfiguration
  <1>8. CASE DeleteConfiguration
    BY <1>8 DEF DeleteConfiguration
  <1>9. CASE UNCHANGED vars
    BY <1>9 DEF vars
  <1>10. QED
    BY <1>2, <1>3, <1>4, <1>5, <1>6, <1>7, <1>8, <1>9 DEF Next

LEMMA OptionsNamedStep == TypeOK /\ OptionsAreNamed /\ [Next]_vars => OptionsAreNamed'
  <1> SUFFICES ASSUME TypeOK, OptionsAreNamed, [Next]_vars PROVE OptionsAreNamed'
    OBVIOUS
  <1>1. ASSUME NEW r \in Requests, NEW decision, Decide(r, decision),
               decision.op = "saveOption" => decision.code \in Codes
        PROVE  OptionsAreNamed'
    BY <1>1 DEF Decide, OptionsAreNamed, TypeOK
  <1>2. ASSUME NEW ended, Edited(ended)
        PROVE  OptionsAreNamed'
    <2>1. \A r \in Requests : req'[r] \in {Idle, [req[r] EXCEPT !.stale = TRUE]}
      BY <1>2 DEF Edited
    <2>2. \A r \in Requests : /\ [req[r] EXCEPT !.stale = TRUE].op = req[r].op
                              /\ [req[r] EXCEPT !.stale = TRUE].code = req[r].code
      BY DEF TypeOK, Request
    <2>3. ASSUME NEW r \in Requests, req'[r].op = "saveOption"
          PROVE  req'[r].code \in Codes
      <3>1. req'[r] = [req[r] EXCEPT !.stale = TRUE]
        <4>1. Idle.op = "none"
          BY DEF Idle
        <4>2. req'[r] # Idle
          BY <2>3, <4>1
        <4>3. QED
          BY <2>1, <4>2
      <3>2. QED
        BY <2>2, <2>3, <3>1 DEF OptionsAreNamed
    <2>4. QED
      BY <2>3 DEF OptionsAreNamed
  <1>3. ASSUME NEW r \in Requests, End(r)
        PROVE  OptionsAreNamed'
    BY <1>3 DEF End, OptionsAreNamed, Idle, TypeOK
  <1>4. ASSUME NEW r \in Requests, NEW action \in ProductActions, DecideTransition(r, action)
        PROVE  OptionsAreNamed'
    BY <1>1, <1>4 DEF DecideTransition, Idle
  <1>5. ASSUME NEW r \in Requests, DecideDelete(r)
        PROVE  OptionsAreNamed'
    BY <1>1, <1>5 DEF DecideDelete, Idle
  <1>6. ASSUME NEW r \in Requests, NEW entered \in GroupForms, DecideSaveGroup(r, entered)
        PROVE  OptionsAreNamed'
    BY <1>1, <1>6 DEF DecideSaveGroup, Idle
  <1>7. ASSUME NEW r \in Requests, NEW g \in Groups, NEW c \in Codes, DecideSaveOption(r, g, c)
        PROVE  OptionsAreNamed'
    BY <1>1, <1>7 DEF DecideSaveOption, Idle
  <1>8. ASSUME NEW r \in Requests,
               WriteTransition(r) \/ FailRequest(r)
        PROVE  OptionsAreNamed'
    BY <1>3, <1>8 DEF WriteTransition, FailRequest
  <1>9. ASSUME NEW r \in Requests, WriteDelete(r)
        PROVE  OptionsAreNamed'
    BY <1>9 DEF WriteDelete, OptionsAreNamed, Idle
  <1>10. ASSUME NEW r \in Requests, WriteSaveGroup(r) \/ WriteSaveOption(r)
         PROVE  OptionsAreNamed'
    BY <1>2, <1>10 DEF WriteSaveGroup, WriteSaveOption
  <1>11. CASE \/ \E configurable, hasPrice \in BOOLEAN : UpdateProduct(configurable, hasPrice)
              \/ \E g \in Groups : DeleteOptionGroup(g)
              \/ \E g \in Groups, c \in Codes : DeleteOption(g, c)
    BY <1>2, <1>11 DEF UpdateProduct, DeleteOptionGroup, DeleteOption
  <1>12. ASSUME UNCHANGED req
         PROVE  OptionsAreNamed'
    BY <1>12 DEF OptionsAreNamed
  <1>13. CASE \/ OpenPage \/ ClosePage \/ Submit \/ PriceConfiguration \/ RefuseConfiguration
              \/ SaveConfiguration \/ DeleteConfiguration \/ UNCHANGED vars
              \/ \E g \in Groups : \E value \in Entries(page.spec[g]) : Answer(g, value)
    BY <1>12, <1>13 DEF OpenPage, ClosePage, Submit, PriceConfiguration, RefuseConfiguration,
                        SaveConfiguration, DeleteConfiguration, Answer, vars
  <1>14. QED
    BY <1>4, <1>5, <1>6, <1>7, <1>8, <1>9, <1>10, <1>11, <1>13 DEF Next

\* The page holds what its controls let a person enter.
LEMMA EnteredStep ==
    ASSUME TypeOK, Entered(page.spec, page.answers), [Next]_vars
    PROVE  Entered(page.spec, page.answers)'
  <1>1. Entered(Load.spec, Load.answers) /\ Entered(Closed.spec, Closed.answers)
    BY DEF Load, Closed, Entered, Unanswered, Answered
  <1>2. CASE page' \in {Load, Closed}
    <2>1. Entered(page'.spec, page'.answers)
      BY <1>1, <1>2
    <2>2. QED
      BY <2>1 DEF Entered, Answered
  <1>3. ASSUME NEW g \in Groups, NEW value \in Entries(page.spec[g]), Answer(g, value)
        PROVE  Entered(page.spec, page.answers)'
    <2>1. /\ page'.spec = page.spec
          /\ page'.answers = [page.answers EXCEPT ![g] = value]
          /\ page.answers \in [Groups -> Values]
      BY <1>3 DEF Answer, TypeOK, Page, Answers
    <2>2. page.spec[g].exists
      BY <1>3 DEF Answer, VisibleGroups
    <2>3. \A h \in Groups : page'.answers[h] = IF h = g THEN value ELSE page.answers[h]
      BY <2>1
    <2>4. Entered(page'.spec, page'.answers)
      BY <2>1, <2>2, <2>3 DEF Entered
    <2>5. QED
      BY <2>4 DEF Entered, Answered
  <1>4. CASE UNCHANGED page
    BY <1>4 DEF Entered, Answered
  <1>5. CASE SaveConfiguration
    BY <1>2, <1>5 DEF SaveConfiguration
  <1>6. QED
    BY <1>2, <1>3, <1>4, <1>5, SalesSteps

LEMMA SentStep ==
    ASSUME TypeOK, Entered(page.spec, page.answers), SentIsClean, PricedIsSound, [Next]_vars
    PROVE  SentIsClean' /\ PricedIsSound'
  <1>1. CASE UNCHANGED send
    BY <1>1 DEF SentIsClean, PricedIsSound
  <1>2. CASE send' = NoSend
    BY <1>2 DEF SentIsClean, PricedIsSound, NoSend
  <1>3. CASE Submit
    <2>1. /\ page.answers \in Answers
          /\ send'.phase = "sent"
          /\ send'.asked = page.spec
          /\ send'.row.answers = Cleaned(page.spec, page.answers)
          /\ send'.row.shown = Price(page.spec, page.answers)
          /\ Issues(page.spec, page.answers) = {}
      BY <1>3 DEF Submit, TypeOK, Page, NoRow
    <2>2. \E answers \in Answers :
            /\ Entered(send'.asked, answers)
            /\ Issues(send'.asked, answers) = {}
            /\ send'.row.answers = Cleaned(send'.asked, answers)
            /\ send'.row.shown = Price(send'.asked, answers)
      BY <2>1
    <2>3. QED
      BY <2>1, <2>2 DEF SentIsClean, PricedIsSound
  <1>4. CASE PriceConfiguration
    <2>1. PICK answers \in Answers :
            /\ Entered(send.asked, answers)
            /\ Issues(send.asked, answers) = {}
            /\ send.row.answers = Cleaned(send.asked, answers)
            /\ send.row.shown = Price(send.asked, answers)
      BY <1>4 DEF PriceConfiguration, SentIsClean
    <2> DEFINE row == [exists |-> TRUE, answers |-> Cleaned(spec, send.row.answers),
                       chosen |-> Price(spec, send.row.answers),
                       shown |-> send.row.shown, spec |-> spec, same |-> spec = send.asked]
    <2>2. /\ spec \in ProductSpec /\ send.asked \in ProductSpec
          /\ send.row.answers \in Answers
          /\ Issues(spec, send.row.answers) = {}
      BY <1>4 DEF PriceConfiguration, Acceptable, TypeOK, Send, Row
    <2>3. \A g \in Groups : send.row.answers[g] # {Blank}
      BY <2>1, <2>2, CleanIsNotBlank
    <2>4. Complete(row)
      BY <2>2, <2>3, CleanIsComplete DEF Complete
    <2>5. AsShown(row)
      <3>1. SUFFICES ASSUME spec = send.asked, Shallow(spec)
                     PROVE  Price(spec, send.row.answers) = send.row.shown
        BY DEF AsShown
      <3>2. QED
        BY <2>1, <2>2, <3>1, PreviewIsPrice
    <2>6. send'.phase = "priced" /\ send'.row = row
      BY <1>4 DEF PriceConfiguration, TypeOK, Send
    <2> HIDE DEF row
    <2>7. Complete(send'.row) /\ AsShown(send'.row)
      BY <2>4, <2>5, <2>6
    <2>8. QED
      BY <2>6, <2>7 DEF SentIsClean, PricedIsSound, Complete, AsShown
  <1>5. CASE SaveConfiguration
    BY <1>2, <1>5 DEF SaveConfiguration
  <1>6. QED
    BY <1>1, <1>2, <1>3, <1>4, <1>5, SalesSteps

LEMMA SavedStep ==
    ASSUME PricedIsSound, SavedIsComplete, ShallowPreviewIsSaved, [Next]_vars
    PROVE  SavedIsComplete' /\ ShallowPreviewIsSaved'
  <1>1. CASE UNCHANGED saved
    BY <1>1 DEF SavedIsComplete, ShallowPreviewIsSaved
  <1>2. CASE saved' = NoRow
    BY <1>2 DEF SavedIsComplete, ShallowPreviewIsSaved, NoRow
  <1>3. CASE SaveConfiguration
    <2>1. Complete(send.row) /\ AsShown(send.row) /\ saved' = send.row
      BY <1>3 DEF SaveConfiguration, PricedIsSound
    <2>2. SavedIsComplete'
      BY <2>1 DEF SavedIsComplete, Complete
    <2>3. ShallowPreviewIsSaved'
      BY <2>1 DEF ShallowPreviewIsSaved, AsShown
    <2>4. QED
      BY <2>2, <2>3
  <1>4. QED
    BY <1>1, <1>2, <1>3, SalesSteps

\* A publication is written while what it read is true, or is marked as stale.
LEMMA SellableStep ==
    ASSUME TypeOK, PublicationsAreVetted, PublishedIsSellable, [Next]_vars
    PROVE  PublicationsAreVetted' /\ PublishedIsSellable'
  <1> DEFINE Fresh(r) == req[r].op = "transition" /\ req[r].to = "ACTIVE" /\ ~req[r].stale
  <1>1. ASSUME NEW r \in Requests, NEW decision \in Request, Decide(r, decision),
               (decision.op = "transition" /\ decision.to = "ACTIVE") => IsSellable
        PROVE  PublicationsAreVetted' /\ PublishedIsSellable'
    <2>1. UNCHANGED <<product, spec, unvetted>> /\ req' = [req EXCEPT ![r] = decision]
      BY <1>1 DEF Decide
    <2>2. IsSellable' = IsSellable
      BY <2>1 DEF IsSellable
    <2>3. \A q \in Requests : req'[q] = IF q = r THEN decision ELSE req[q]
      BY <2>1 DEF TypeOK
    <2>4. PublicationsAreVetted'
      BY <1>1, <2>2, <2>3 DEF PublicationsAreVetted
    <2>5. PublishedIsSellable'
      BY <2>1 DEF PublishedIsSellable
    <2>6. QED
      BY <2>4, <2>5
  <1>2. ASSUME NEW ended, Edited(ended)
        PROVE  PublicationsAreVetted' /\ PublishedIsSellable'
    <2>1. \A r \in Requests : req'[r].op = "none" \/ req'[r].stale
      BY <1>2, EditedFacts
    <2>2. unvetted'
      BY <1>2, EditedFacts
    <2>3. PublicationsAreVetted'
      BY <2>1 DEF PublicationsAreVetted
    <2>4. PublishedIsSellable'
      BY <2>2 DEF PublishedIsSellable
    <2>5. QED
      BY <2>3, <2>4
  <1>3. ASSUME NEW r \in Requests, NEW action \in ProductActions, DecideTransition(r, action)
        PROVE  PublicationsAreVetted' /\ PublishedIsSellable'
    <2> DEFINE decision == [Idle EXCEPT !.op = "transition", !.to = To(action)]
    <2>1. decision \in Request /\ decision.to = To(action)
      BY NothingTyped DEF Idle, Request, Ops, Statuses, To, ProductActions
    <2>2. Decide(r, decision) /\ CanTransition(action)
      BY <1>3 DEF DecideTransition
    <2> HIDE DEF decision
    <2>3. decision.to = "ACTIVE" => IsSellable
      <3>1. To(action) = "ACTIVE" => action = "publish"
        BY DEF To, ProductActions
      <3>2. QED
        BY <2>1, <2>2, <3>1 DEF CanTransition, IsSellable
    <2>4. QED
      BY <1>1, <2>1, <2>2, <2>3
  <1>4. ASSUME NEW r \in Requests, NEW decision \in Request, Decide(r, decision),
               decision.op # "transition"
        PROVE  PublicationsAreVetted' /\ PublishedIsSellable'
    BY <1>1, <1>4
  <1>5. ASSUME NEW r \in Requests, DecideDelete(r)
        PROVE  PublicationsAreVetted' /\ PublishedIsSellable'
    <2>1. /\ [Idle EXCEPT !.op = "delete"] \in Request
          /\ [Idle EXCEPT !.op = "delete"].op # "transition"
      BY NothingTyped DEF Idle, Request, Ops
    <2>2. QED
      BY <1>4, <1>5, <2>1 DEF DecideDelete
  <1>6. ASSUME NEW r \in Requests, NEW entered \in GroupForms, DecideSaveGroup(r, entered)
        PROVE  PublicationsAreVetted' /\ PublishedIsSellable'
    <2> DEFINE new == [exists |-> spec[entered.group].exists, input |-> entered.input,
                       required |-> entered.required, options |-> {}, rule |-> entered.rule]
    <2>1. entered.group \in Groups /\ new \in GroupSpec
      BY ProductsAssumption DEF TypeOK, ProductSpec, GroupSpec
    <2>2. Decide(r, [Idle EXCEPT !.op = "saveGroup", !.group = entered.group, !.new = new])
      BY <1>6 DEF DecideSaveGroup
    <2> HIDE DEF new
    <2>3. /\ [Idle EXCEPT !.op = "saveGroup", !.group = entered.group, !.new = new] \in Request
          /\ [Idle EXCEPT !.op = "saveGroup", !.group = entered.group, !.new = new].op = "saveGroup"
      BY <2>1, NothingTyped DEF Idle, Request, Ops
    <2>4. QED
      BY <1>4, <2>2, <2>3
  <1>7. ASSUME NEW r \in Requests, NEW g \in Groups, NEW c \in Codes, DecideSaveOption(r, g, c)
        PROVE  PublicationsAreVetted' /\ PublishedIsSellable'
    <2>1. /\ [Idle EXCEPT !.op = "saveOption", !.group = g, !.code = c] \in Request
          /\ [Idle EXCEPT !.op = "saveOption", !.group = g, !.code = c].op = "saveOption"
      BY NothingTyped DEF Idle, Request, Ops
    <2>2. QED
      BY <1>4, <1>7, <2>1 DEF DecideSaveOption
  <1>8. ASSUME NEW r \in Requests, End(r)
        PROVE  \A q \in Requests : Fresh(q)' => Fresh(q)
    <2>1. \A q \in Requests : req'[q] = IF q = r THEN Idle ELSE req[q]
      BY <1>8 DEF End, TypeOK
    <2>2. Idle.op # "transition"
      BY DEF Idle
    <2>3. QED
      BY <2>1, <2>2
  <1>9. ASSUME NEW r \in Requests, WriteTransition(r)
        PROVE  PublicationsAreVetted' /\ PublishedIsSellable'
    <2>1. \A q \in Requests : Fresh(q)' => Fresh(q)
      BY <1>8, <1>9 DEF WriteTransition
    <2>2. /\ product'.hasPrice = product.hasPrice
          /\ product'.configurable = product.configurable
          /\ product'.status = req[r].to
          /\ spec' = spec
          /\ unvetted' = IF req[r].to = "ACTIVE" THEN req[r].stale ELSE unvetted
      BY <1>9 DEF WriteTransition, TypeOK, Product
    <2>3. IsSellable' = IsSellable
      BY <2>2 DEF IsSellable
    <2>4. PublicationsAreVetted'
      BY <2>1, <2>3 DEF PublicationsAreVetted
    <2>5. CASE req[r].to = "ACTIVE"
      <3>1. ~unvetted' => IsSellable'
        BY <1>9, <2>2, <2>3, <2>5 DEF WriteTransition, PublicationsAreVetted
      <3>2. QED
        BY <2>4, <3>1 DEF PublishedIsSellable, IsSellable
    <2>6. CASE req[r].to # "ACTIVE"
      BY <2>2, <2>4, <2>6 DEF PublishedIsSellable
    <2>7. QED
      BY <2>5, <2>6
  <1>10. ASSUME NEW r \in Requests, WriteDelete(r)
         PROVE  PublicationsAreVetted' /\ PublishedIsSellable'
    <2>1. ~product'.exists /\ \A q \in Requests : req'[q].op = "none"
      BY <1>10 DEF WriteDelete, TypeOK, Product, Idle
    <2>2. QED
      BY <2>1 DEF PublicationsAreVetted, PublishedIsSellable
  <1>11. ASSUME NEW r \in Requests, FailRequest(r)
         PROVE  PublicationsAreVetted' /\ PublishedIsSellable'
    <2>1. UNCHANGED <<product, spec, unvetted>> /\ \A q \in Requests : Fresh(q)' => Fresh(q)
      BY <1>8, <1>11 DEF FailRequest
    <2>2. QED
      BY <2>1 DEF PublicationsAreVetted, PublishedIsSellable, IsSellable
  <1>12. CASE \/ \E r \in Requests : WriteSaveGroup(r) \/ WriteSaveOption(r)
              \/ \E configurable, hasPrice \in BOOLEAN : UpdateProduct(configurable, hasPrice)
              \/ \E g \in Groups : DeleteOptionGroup(g)
              \/ \E g \in Groups, c \in Codes : DeleteOption(g, c)
    BY <1>2, <1>12
       DEF WriteSaveGroup, WriteSaveOption, UpdateProduct, DeleteOptionGroup, DeleteOption
  <1>13. ASSUME UNCHANGED <<product, spec, req, unvetted>>
         PROVE  PublicationsAreVetted' /\ PublishedIsSellable'
    BY <1>13 DEF PublicationsAreVetted, PublishedIsSellable, IsSellable
  <1>14. CASE \/ OpenPage \/ ClosePage \/ Submit \/ PriceConfiguration \/ RefuseConfiguration
              \/ SaveConfiguration \/ DeleteConfiguration \/ UNCHANGED vars
              \/ \E g \in Groups : \E value \in Entries(page.spec[g]) : Answer(g, value)
    BY <1>13, <1>14 DEF OpenPage, ClosePage, Submit, PriceConfiguration, RefuseConfiguration,
                        SaveConfiguration, DeleteConfiguration, Answer, vars
  <1>15. QED
    BY <1>3, <1>5, <1>6, <1>7, <1>9, <1>10, <1>11, <1>12, <1>14 DEF Next

LEMMA InitIInv == Init => IInv
  <1> SUFFICES ASSUME Init PROVE IInv
    OBVIOUS
  <1>1. TypeOK
    <2>1. product \in Product /\ spec \in ProductSpec /\ req \in [Requests -> Request]
      BY ProductsAssumption, NothingTyped DEF Init, Product, Statuses
    <2>2. edits \in 0 .. MaxEdits
      BY ProductsAssumption DEF Init
    <2>3. QED
      BY <2>1, <2>2, NothingTyped DEF Init, TypeOK
  <1>2. OptionsAreNamed /\ PublicationsAreVetted
    BY DEF Init, Idle, OptionsAreNamed, PublicationsAreVetted
  <1>3. Entered(page.spec, page.answers)
    BY DEF Init, Closed, Entered, Unanswered, Answered
  <1>4. SentIsClean /\ PricedIsSound
    BY DEF Init, NoSend, SentIsClean, PricedIsSound
  <1>5. SavedIsComplete /\ ShallowPreviewIsSaved
    BY DEF Init, NoRow, SavedIsComplete, ShallowPreviewIsSaved
  <1>6. PublishedIsSellable
    BY DEF Init, PublishedIsSellable
  <1>7. QED
    BY <1>1, <1>2, <1>3, <1>4, <1>5, <1>6 DEF IInv

LEMMA StepIInv == IInv /\ [Next]_vars => IInv'
  BY TypeStep, OptionsNamedStep, EnteredStep, SentStep, SavedStep, SellableStep DEF IInv

LEMMA Invariant == Spec => []IInv
  BY InitIInv, StepIInv, PTL DEF Spec

\* (products.ts, options.ts, configurator.ts: what rows and forms hold.)
THEOREM TypeCorrect == Spec => []TypeOK
  <1>1. IInv => TypeOK
    BY DEF IInv
  <1>2. QED
    BY <1>1, Invariant, PTL

\* Whatever editors do to a product and its questions at the same time, a
\* published product can be sold until an edit comes after what its publication
\* had read.  (product-policy.ts: canTransitionProduct; products.ts:
\* transitionProduct.)
THEOREM PublishedSellable == Spec => []PublishedIsSellable
  <1>1. IInv => PublishedIsSellable
    BY DEF IInv
  <1>2. QED
    BY <1>1, Invariant, PTL

\* Whatever editors do to the product while a page is open and a save is under
\* way, what is saved answers every required question that its own answers ask
\* and holds nothing the product, as the server read it, did not take.
\* (configuration.ts: validateConfiguration; actions.ts: saveConfiguration.)
THEOREM SavedComplete == Spec => []SavedIsComplete
  <1>1. IInv => SavedIsComplete
    BY DEF IInv
  <1>2. QED
    BY <1>1, Invariant, PTL

\* What the page showed is what was saved, as long as the product was still the
\* one the page had and its questions are at most two deep behind others.
\* (configurator.tsx: "What someone sees here is what gets saved".)
THEOREM PreviewSaved == Spec => []ShallowPreviewIsSaved
  <1>1. IInv => ShallowPreviewIsSaved
    BY DEF IInv
  <1>2. QED
    BY <1>1, Invariant, PTL
=============================================================================
