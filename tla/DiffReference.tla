--------------------------- MODULE DiffReference ---------------------------
(***************************************************************************)
(* What the comparison of DiffEngine is meant to say, without its          *)
(* algorithms: noise by a declarative reading of the patterns, arrays that *)
(* a rule sorts as bags, write-sets as bags of facts.  (That sorting by a  *)
(* key makes a bag of an array takes keys that are unique, or the          *)
(* "$canonical" rule.)                                                     *)
(***************************************************************************)
EXTENDS DiffEngine

\* A pattern matches a path that can be cut into one piece for each segment.
Fits(pat, path) ==
    \E cut \in [0..Len(pat) -> 0..Len(path)] :
        /\ cut[0] = 0
        /\ cut[Len(pat)] = Len(path)
        /\ \A i \in DOMAIN pat :
            IF pat[i] = "**" THEN cut[i - 1] <= cut[i]
            ELSE cut[i] = cut[i - 1] + 1 /\ pat[i] \in {"*", path[cut[i]]}

BagOf(s) == [x \in ToSet(s) |-> Cardinality({i \in DOMAIN s : s[i] = x})]

\* What counts of a response's body.
RECURSIVE Essence(_, _, _)
Essence(v, path, cfg) ==
    CASE IsObj(v) ->
            LET loud == {k \in DOMAIN v[2] : ~\E p \in cfg.noise : Fits(p, Append(path, k))} IN
            <<"obj", [k \in loud |-> Essence(v[2][k], Append(path, k), cfg)]>>
      [] IsArr(v) ->
            LET items == [i \in DOMAIN v[2] |-> Essence(v[2][i], Append(path, Index(i)), cfg)] IN
            IF \E i \in DOMAIN cfg.sort : Fits(cfg.sort[i].path, path)
            THEN <<"bag", BagOf(items)>> ELSE <<"arr", items>>
      [] OTHER -> v

SameResponse(a, b, cfg) ==
    /\ a.status = b.status
    /\ Essence(a.body, <<>>, cfg) = Essence(b.body, <<>>, cfg)

\* What counts of a row change: a fact per change, none when only noise changed.
Loud(ch, cfg) ==
    {c \in DOMAIN ch.before \cup DOMAIN ch.after :
        /\ ~\E p \in cfg.columns : p[1] \in {"*", ch.table.bare} /\ p[2] \in {"*", c}
        /\ Value(ch.before, c) # Value(ch.after, c)}

Facts(changes, cfg) ==
    LET counts(ch) == ch.table.bare \notin cfg.ignore /\ Loud(ch, cfg) # {}
        Fact(ch) == <<ch.table.bare, ch.op,
                      Value(IF ch.op = "DELETE" THEN ch.before ELSE ch.after, "id"),
                      {<<c, Value(ch.before, c), Value(ch.after, c)>> : c \in Loud(ch, cfg)}>>
        kept == SelectSeq(changes, counts)
    IN BagOf([i \in DOMAIN kept |-> Fact(kept[i])])

SameWrites(a, b, cfg) == Facts(a, cfg) = Facts(b, cfg)
=============================================================================
