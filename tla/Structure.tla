----------------------------- MODULE Structure -----------------------------
(***************************************************************************)
(* The comparison aids of the native core: structural isomorphism under    *)
(* facts that the caller gives (structural.rs); generalisation, what two   *)
(* expressions have in common, and where they differ (kernel.rs).          *)
(*                                                                         *)
(* The facts are the operators that commute and that associate, the types  *)
(* of symbols, and a mapping of symbols.                                   *)
(***************************************************************************)
EXTENDS Transforming

\* What was counted and which facts were used on the way.
Used(binders, needs) == [binders |-> binders, needs |-> needs]

FlatOnce(v) ==
  FoldLeft(LAMBDA s, a : s \o (IF a.op = v.op THEN a.args ELSE <<a>>), <<>>, v.args)
Flattened(t, facts) ==
  IF t.node.op \notin facts.associative \/ Len(FlatOnce(t.node)) = Len(t.node.args) THEN t
  ELSE Form([t.node EXCEPT !.args = FlatOnce(t.node)], [t.seen EXCEPT !.needs = @ \cup {<<"associative", t.node.op>>}])
Sorted(t, facts) ==
  IF t.node.op \notin facts.commutative \/ ByText(t.node.args) = t.node.args THEN t
  ELSE Form([t.node EXCEPT !.args = ByText(@)], [t.seen EXCEPT !.needs = @ \cup {<<"commutative", t.node.op>>}])

\* The order of a reduction is kept, and whatever is written beside a bound variable.
Kept(v) == IF v.op \in {"TransformReduce", "PatternVariable"} THEN v.note ELSE ""
RECURSIVE NormalNode(_, _, _, _), NormalArgs(_, _, _, _, _)
NormalArgs(args, facts, binders, seen, done) ==
  IF args = <<>> THEN [args |-> done, seen |-> seen]
  ELSE LET first == NormalNode(Head(args), facts, binders, seen)
       IN  NormalArgs(Tail(args), facts, binders, first.seen, Append(done, first.node))
Quotient(v, name, below, facts) ==
  Sorted(Flattened(Form([v EXCEPT !.name = name, !.note = Kept(v), !.args = below.args], below.seen), facts), facts)
NormalNode(v, facts, binders, seen) ==
  IF v.op = "BoundVariable" /\ v.name \in DOMAIN binders THEN Form([v EXCEPT !.name = binders[@]], seen)
  ELSE LET binds == v.op \in Binding
           name  == IF binds THEN "#b" \o ToString(seen.binders) ELSE v.name
           local == IF binds THEN (v.name :> name) @@ binders ELSE binders
           entry == IF binds THEN [seen EXCEPT !.binders = @ + 1] ELSE seen
       IN  Quotient(v, name, NormalArgs(v.args, facts, local, entry, <<>>), facts)
quotient_normalize(v, facts) == NormalNode(v, facts, <<>>, Used(0, {}))

-----------------------------------------------------------------------------
\* The correspondence so far: what is known of it, the symbols that were mapped, the facts it needs.
Witness(answer, mapping, needs) == [answer |-> answer, mapping |-> mapping, needs |-> needs]
Refuted(w) == [w EXCEPT !.answer = "NO"]
Mapped(w, l, r, why) == Witness("YES", (l :> r) @@ w.mapping, w.needs \cup {<<why, l, r>>})
\* Symbols of one name correspond, without a word about it.
typed_symbol_correspondence(l, r, facts, w) ==
  CASE l = r -> w
    [] l # r /\ l \in DOMAIN facts.mapping ->
         IF facts.mapping[l] = r /\ r \notin Range(w.mapping) THEN Mapped(w, l, r, "explicit") ELSE Refuted(w)
    [] l # r /\ l \notin DOMAIN facts.mapping ->
         IF {l, r} \ DOMAIN facts.types # {} THEN [w EXCEPT !.answer = "UNKNOWN"]
         ELSE IF facts.types[l] # facts.types[r] THEN Refuted(w)
         ELSE IF l \in DOMAIN w.mapping THEN (IF w.mapping[l] = r THEN w ELSE Refuted(w))
         ELSE IF r \in Range(w.mapping) THEN Refuted(w) ELSE Mapped(w, l, r, "typed")

RECURSIVE Correspond(_, _, _, _), CorrespondAll(_, _, _, _)
CorrespondAll(ls, rs, facts, w) ==
  IF ls = <<>> \/ w.answer # "YES" THEN w
  ELSE CorrespondAll(Tail(ls), Tail(rs), facts, Correspond(Head(ls), Head(rs), facts, w))
\* The rest of two nodes, after what is below them.
Same(l, r, w) ==
  IF w.answer = "YES" /\ (l.value # r.value \/ l.note # r.note \/ (l.op \notin Symbols /\ l.name # r.name)) THEN Refuted(w) ELSE w
Below(l, r, facts, w) ==
  IF w.answer # "YES" THEN w ELSE IF Len(l.args) # Len(r.args) THEN Refuted(w)
  ELSE Same(l, r, CorrespondAll(l.args, r.args, facts, w))
Correspond(l, r, facts, w) ==
  IF l = r THEN w ELSE IF l.op # r.op THEN Refuted(w)
  ELSE Below(l, r, facts, IF l.op \in Symbols THEN typed_symbol_correspondence(l.name, r.name, facts, w) ELSE w)

Isomorphism(q, w) ==
  [status |-> CASE w.answer = "UNKNOWN" -> "ISOMORPHISM_UNRESOLVED"
                [] w.answer = "NO" -> "NOT_STRUCTURALLY_ISOMORPHIC"
                [] q.left = q.right -> "STRUCTURALLY_IDENTICAL"
                [] w.needs = {} -> "STRUCTURALLY_ISOMORPHIC"
                [] OTHER -> "STRUCTURALLY_ISOMORPHIC_UNDER_FACTS",
   proceed |-> w.answer = "YES", mapping |-> w.mapping, needs |-> w.needs]
structural_isomorphism(q) ==
  LET l == quotient_normalize(q.left, q.facts)
      r == quotient_normalize(q.right, q.facts)
  IN  Isomorphism(q, Correspond(l.node, r.node, q.facts, Witness("YES", <<>>, l.seen.needs \cup r.seen.needs)))

-----------------------------------------------------------------------------
(***************************************************************************)
(* Generalisation: symbols become pattern names in the order in which they *)
(* are met, and the indices of sums names by their depth.                  *)
(***************************************************************************)
Named(names, kinds) == [names |-> names, kinds |-> kinds]
MetaName(seen, name) == "$v" \o ToString(Rank(seen.names, name) - 1)
Met(seen, name, kind) ==
  IF name \in Range(seen.names) THEN seen ELSE Named(Append(seen.names, name), Append(seen.kinds, kind))
Declared(v) == IF v.op = "IndexedValue" THEN <<"tensor", Len(v.args)>> ELSE <<"scalar", 0>>
Variables == {"FreeVariable", "BoundVariable"}
Plain(v) == [v EXCEPT !.note = IF v.op = "PatternVariable" THEN @ ELSE ""]

RECURSIVE General(_, _, _), GeneralArgs(_, _, _, _)
GeneralArgs(args, bound, seen, done) ==
  IF args = <<>> THEN [args |-> done, seen |-> seen]
  ELSE LET first == General(Head(args), bound, seen)
       IN  GeneralArgs(Tail(args), bound, first.seen, Append(done, first.node))
Around(v, name, below) == Form([Plain(v) EXCEPT !.name = name, !.args = below.args], below.seen)
General(v, bound, seen) ==
  LET index == "$i" \o ToString(Cardinality(DOMAIN bound))
      after == IF v.op \in Symbols \cup Variables THEN Met(seen, v.name, Declared(v)) ELSE seen
  IN  CASE v.op = "FiniteSum" -> Around(v, index, GeneralArgs(v.args, (v.name :> index) @@ bound, seen, <<>>))
        [] v.op \in Variables /\ v.name \in DOMAIN bound -> Form([Plain(v) EXCEPT !.name = bound[v.name]], seen)
        [] v.op \in Symbols \cup Variables /\ ~(v.op \in Variables /\ v.name \in DOMAIN bound) ->
             Around(v, MetaName(after, v.name), GeneralArgs(v.args, bound, after, <<>>))
        [] OTHER -> Around(v, v.name, GeneralArgs(v.args, bound, seen, <<>>))
Metavariables(f) == [pattern |-> f.node, kinds |-> f.seen.kinds]
generalize_expression(v) == Metavariables(General(v, <<>>, Named(<<>>, <<>>)))

\* What two expressions have in common: where names or words differ there is a new variable.
Common(ok, node, left, right) == [ok |-> ok, node |-> node, left |-> left, right |-> right]
Hole2(c) == "$g" \o ToString(Len(c.left))
Differing(c, l, r) == [c EXCEPT !.left = Append(@, l), !.right = Append(@, r)]
RECURSIVE AntiUnify(_, _, _), AntiUnifyArgs(_, _, _, _)
AntiUnifyArgs(ls, rs, c, done) ==
  IF ~c.ok THEN c
  ELSE IF ls = <<>> THEN [c EXCEPT !.node = done]
  ELSE LET first == AntiUnify(Head(ls), Head(rs), c)
       IN  AntiUnifyArgs(Tail(ls), Tail(rs), first, IF first.ok THEN Append(done, first.node) ELSE done)
\* The words of two nodes whose children have c in common.
Name2(c, l, r) ==
  IF ~c.ok THEN c
  ELSE IF l.name = r.name THEN [c EXCEPT !.node = [l EXCEPT !.args = c.node]]
  ELSE [Differing(c, l.name, r.name) EXCEPT !.node = [l EXCEPT !.args = c.node, !.name = Hole2(c)]]
Note2(c, l, r) ==
  IF ~c.ok \/ l.note = r.note THEN c
  ELSE [Differing(c, l.note, r.note) EXCEPT !.node = [c.node EXCEPT !.note = Hole2(c)]]
Incomparable(l, r) ==
  \/ l.op # r.op \/ l.op = "Constant" \/ l.value # r.value \/ Len(l.args) # Len(r.args)
  \/ l.op # "TransformReduce" /\ l.note # r.note /\ "" \in {l.note, r.note}
AntiUnify(l, r, c) ==
  IF l = r THEN [c EXCEPT !.node = l]
  ELSE IF Incomparable(l, r) THEN [c EXCEPT !.ok = FALSE]
  ELSE Note2(Name2(AntiUnifyArgs(l.args, r.args, c, <<>>), l, r), l, r)
anti_unify_expression(l, r) == AntiUnify(l, r, Common(TRUE, <<>>, <<>>, <<>>))

\* The differences of two canonical forms: of fields, and of lists as a whole.
Change(path, before, after) == <<path, <<before>>, <<after>>>>
RECURSIVE Changes(_, _, _)
Fields(path, l, r) ==
  {Change(Append(path, f), l[f], r[f]) : f \in {g \in {"op", "name", "value", "note"} : l[g] # r[g]}}
Changes(path, l, r) ==
  IF l = r THEN {}
  ELSE Fields(path, l, r)
         \cup (IF l.op = r.op /\ l.op \in Binding
               THEN UNION {Changes(Append(path, ToString(i)), l.args[i], r.args[i]) : i \in DOMAIN l.args}
               ELSE IF l.args = r.args THEN {} ELSE {Change(Append(path, "args"), l.args, r.args)})
semantic_diff(l, r) == Changes(<<>>, canonicalize(l), canonicalize(r))

-----------------------------------------------------------------------------
(***************************************************************************)
(* What they promise.                                                      *)
(***************************************************************************)
RECURSIVE Patched(_, _, _), Filled(_, _), Skeleton(_), Relabelled(_, _)
After(changes, path, old) ==
  LET here == {c \in changes : c[1] = path} IN IF here = {} THEN old ELSE (CHOOSE c \in here : TRUE)[3][1]
\* A form with the changes made.
Patched(v, changes, path) ==
  [f \in {"op", "name", "value", "note"} |-> After(changes, Append(path, f), v[f])]
    @@ ("args" :> After(changes, Append(path, "args"),
                        IF v.op \notin Binding THEN v.args
                        ELSE Listed([i \in DOMAIN v.args |-> Patched(v.args[i], changes, Append(path, ToString(i)))])))
\* The holes filled with words.
Word(word, words) ==
  LET k == SelectInSeq([i \in DOMAIN words |-> "$g" \o ToString(i - 1)], LAMBDA w : w = word) IN IF k = 0 THEN word ELSE words[k]
Filled(v, words) ==
  [v EXCEPT !.name = Word(@, words), !.note = Word(@, words),
            !.args = Listed([i \in DOMAIN v.args |-> Filled(v.args[i], words)])]
\* An expression without its names and words.
Skeleton(v) ==
  [v EXCEPT !.name = IF v.op = "Constant" THEN @ ELSE "", !.note = IF v.op = "TransformReduce" \/ @ = "" THEN "" ELSE "given",
            !.args = Listed([i \in DOMAIN v.args |-> Skeleton(v.args[i])])]
Relabelled(v, r) ==
  [v EXCEPT !.name = IF v.op \in Symbols /\ @ \in DOMAIN r THEN r[@] ELSE @,
            !.args = Listed([i \in DOMAIN v.args |-> Relabelled(v.args[i], r)])]

Study(q) ==
  [general |-> <<generalize_expression(q.left), generalize_expression(q.right)>>,
   common |-> anti_unify_expression(q.left, q.right), diff |-> semantic_diff(q.left, q.right)]
\* Expressions with one pattern are the same up to their names; what two have in common gives
\* each of them back, and is missed only if they differ in more than words; the differences
\* lead from one canonical form to the other.
StudiesSoundly(q, a) ==
  /\ a.general[1].pattern = a.general[2].pattern => semantic_equal(q.left, q.right) /\ SameUpTo(q.left, q.right, {})
  /\ a.common.ok => Filled(a.common.node, a.common.left) = q.left /\ Filled(a.common.node, a.common.right) = q.right
  /\ a.common.ok <=> Skeleton(q.left) = Skeleton(q.right)
  /\ Patched(canonicalize(q.left), a.diff, <<>>) = canonicalize(q.right)

NoFacts == [commutative |-> {}, associative |-> {}, types |-> <<>>, mapping |-> <<>>]
\* A name that both expressions have is mapped: it may stand for itself elsewhere.
Confuses(q, a) ==
  \/ DOMAIN a.mapping \cap SymbolsOf(q.right) # {}
  \/ Range(a.mapping) \cap SymbolsOf(q.left) # {}
OfOneType(facts, m, n) == m = n \/ (m \in DOMAIN facts.types /\ n \in DOMAIN facts.types /\ facts.types[m] = facts.types[n])
\* Expressions that correspond have the same values, by the mapping of the witness, and correspond
\* the other way round, symbols of one type to each other; without a mapping there is none of
\* symbols to symbols of their types; no fact is used unmentioned.
CorrespondsSoundly(q, a) ==
  /\ a.proceed /\ ~Confuses(q, a) =>
       Refines(q.left, q.right, SymbolsOf(q.right), a.mapping @@ [n \in SymbolsOf(q.left) |-> n])
  /\ a.proceed /\ q.facts.mapping = <<>> =>
       /\ \A n \in DOMAIN a.mapping : OfOneType(q.facts, n, a.mapping[n])
       /\ ~Confuses(q, a) => structural_isomorphism([q EXCEPT !.left = q.right, !.right = q.left]).proceed
  /\ a.status = "NOT_STRUCTURALLY_ISOMORPHIC" /\ q.facts.mapping = <<>> =>
       ~\E r \in [SymbolsOf(q.left) -> SymbolsOf(q.right)] :
          /\ IsInjective(r) /\ \A n \in DOMAIN r : OfOneType(q.facts, n, r[n])
          /\ Relabelled(quotient_normalize(q.left, q.facts).node, r) = quotient_normalize(q.right, q.facts).node
  /\ a.status = "STRUCTURALLY_ISOMORPHIC" => structural_isomorphism([q EXCEPT !.facts = NoFacts]).proceed
=============================================================================
