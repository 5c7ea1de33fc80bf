-------------------------------- MODULE Terms --------------------------------
(***************************************************************************)
(* Defs as normalizers see them: literals, bottoms, variables and applications *)
(* of axioms.  k tells which, t is the type, v the value or the number of a    *)
(* variable, m the curried argument in front of the operands args.            *)
(***************************************************************************)
EXTENDS Integers, Sequences

Def(k, t, v, m, args) == [k |-> k, t |-> t, v |-> v, m |-> m, args |-> args]
Lit(t, v)             == Def(<<"lit">>, t, v, 0, <<>>)
Bot(t)                == Def(<<"bot">>, t, 0, 0, <<>>)
Var(t, v)             == Def(<<"var">>, t, v, 0, <<>>)
None                  == Def(<<"none">>, 0, 0, 0, <<>>)

x ?? y     == IF x = None THEN y ELSE x
When(c, x) == IF c THEN x ELSE None

is(k, x)   == x.k[1] = k
is_lit(x, v) == is("lit", x) /\ x.v = v

Has(id, k) == (id \div 2^k) % 2 = 1
Bit(b)     == IF b THEN 1 ELSE 0

(* The defs g are in the order in which they were made; a new one comes last.    *)
Gid(g, x) == IF \E i \in DOMAIN g : g[i] = x THEN CHOOSE i \in DOMAIN g : g[i] = x ELSE Len(g) + 1
=============================================================================
