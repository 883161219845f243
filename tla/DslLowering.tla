---------------------------- MODULE DslLowering ----------------------------
(***************************************************************************)
(* How the #[kernel] macro lowers a body to the IR (DslBodyParser, in      *)
(* metaltile-macros, kernel/body.rs).                                      *)
(*                                                                         *)
(* A statement is a tuple: <<"let", x, e>>, <<"mut", e>> and <<"set", e>>  *)
(* of the one mutable local, <<"store", i, e>> to the output,              *)
(* <<"barrier">>, <<"for", lo, hi, step, body>>, <<"if", c, then>> and     *)
(* <<"if", c, then, else>>. An expression is <<"lit", n>>, <<"var", x>>,   *)
(* <<"flag">>, <<"acc">>, <<"load", buffer, i>>, <<"cast", dtype, e>>,     *)
(* <<"neg", e>>, <<"select", c, e, e>> or <<operator, e, e>>.              *)
(***************************************************************************)
EXTENDS KernelIR

(* The parser: next ids, bindings in scope, the current block's statements *)
(* (ir_stmts) and the finished blocks; val is the last expression's value. *)
Parser == [vid |-> 1, bid |-> 1, var |-> 0, bind |-> <<>>, out |-> <<>>,
           blocks |-> <<>>, val |-> NoResult]

Push(p, k, f, a) ==                                     \* push_op of a fresh value
    [p EXCEPT !.out = Append(@, Ins(k, f, a, <<>>, p.vid)), !.val = p.vid, !.vid = @ + 1]
PushNoResult(p, k, f, a, b) == [p EXCEPT !.out = Append(@, Ins(k, f, a, b, NoResult))]
Bind(p, x, v) == [p EXCEPT !.bind = (x :> v) @@ @]

RECURSIVE Expr(_, _)

(* The expressions es one after the other: <<parser, their values>>. *)
RECURSIVE Exprs(_, _)
Exprs(p, es) ==
    IF es = <<>> THEN <<p, <<>>>>
    ELSE LET h == Expr(p, Head(es))
             t == Exprs(h, Tail(es))
         IN <<t[1], <<h.val>> \o t[2]>>
(* One operation on them. *)
Operation(p, k, f, es) == LET x == Exprs(p, es) IN Push(x[1], k, f, x[2])

(* A name: its binding, else a load of its own, which a constexpr param    *)
(* caches in the bindings and a mutable local does not.                    *)
ResolveFlag(p) ==
    IF "flag" \in DOMAIN p.bind THEN [p EXCEPT !.val = p.bind["flag"]]
    ELSE LET q == Push(p, "Scalar", Flag, <<>>) IN Bind(q, "flag", q.val)

Expr(p, e) ==
    CASE e[1] = "lit" -> Push(p, "Const", e[2], <<>>)
      [] e[1] = "var" -> [p EXCEPT !.val = p.bind[e[2]]]
      [] e[1] = "tid" -> Push(p, "Scalar", Tid, <<>>)
      [] e[1] = "flag" -> ResolveFlag(p)
      [] e[1] = "acc" -> Push(p, "Scalar", Acc, <<>>)
      [] e[1] = "load" -> Operation(p, "Load", <<e[2]>>, <<e[3]>>)
      [] e[1] = "cast" -> Operation(p, "Cast", e[2], <<e[3]>>)
      [] e[1] = "neg" -> Operation(p, "UnaryOp", "Neg", <<e[2]>>)
      [] e[1] = "select" -> Operation(p, "Select", "", Tail(e))
      [] OTHER -> Operation(p, "BinOp", e[1], Tail(e))

RECURSIVE Stmts(_, _)

(* with_block: the statements go to block bid; the bindings made there     *)
(* are forgotten at its end, the ids taken are not.                        *)
WithBlock(p, bid, stmts) ==
    LET q == Stmts([p EXCEPT !.out = <<>>], stmts)
    IN [q EXCEPT !.out = p.out, !.bind = p.bind, !.blocks = (bid :> q.out) @@ @]

ParseFor(p, s) ==
    LET x == Exprs(p, <<s[2], s[3], s[4]>>)
        q == x[1]
        inner == Bind([q EXCEPT !.bid = @ + 1, !.var = @ + 1], "i", LoopValue(q.var))
    IN PushNoResult(WithBlock(inner, q.bid, s[5]), "Loop", LoopValue(q.var), x[2], <<q.bid>>)

ParseIf(p, s) ==
    LET c == Expr(p, s[2])
        t == WithBlock([c EXCEPT !.bid = @ + 1], c.bid, s[3])
        e == WithBlock([t EXCEPT !.bid = @ + 1], t.bid, s[4])
    IN IF Len(s) = 3 THEN PushNoResult(t, "If", "", <<c.val>>, <<c.bid>>)
       ELSE PushNoResult(e, "If", "", <<c.val>>, <<c.bid, t.bid>>)

Stmt(p, s) ==
    CASE s[1] = "let" -> LET q == Expr(p, s[3]) IN Bind(q, s[2], q.val)
      [] s[1] = "mut" -> LET q == Expr(p, s[2]) IN PushNoResult(q, "DeclareLocal", Acc, <<q.val>>, <<>>)
      [] s[1] = "set" -> LET q == Expr(p, s[2]) IN PushNoResult(q, "SetLocal", Acc, <<q.val>>, <<>>)
      [] s[1] = "store" ->
           LET x == Exprs(p, <<s[2], s[3]>>) IN PushNoResult(x[1], "Store", <<"out">>, x[2], <<>>)
      [] s[1] = "barrier" -> PushNoResult(p, "Barrier", "", <<>>, <<>>)
      [] s[1] = "for" -> ParseFor(p, s)
      [] s[1] = "if" -> ParseIf(p, s)

Stmts(p, ss) == IF ss = <<>> THEN p ELSE Stmts(Stmt(p, Head(ss)), Tail(ss))

(* The kernel a body lowers to. *)
Lower(body) == LET p == Stmts(Parser, body) IN (Body :> p.out) @@ p.blocks
=============================================================================
