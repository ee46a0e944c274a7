------------------------------ MODULE MCKconf ------------------------------
(***************************************************************************)
(* A small Kconfig file in two versions.  Both have the module switch MOD, *)
(* a tristate T, a number N whose lower bound depends on T, a symbol D     *)
(* without prompt that follows N, and a choice between X and Y.  Version 1 *)
(* has B, which depends on T; version 2 has E in its place, which selects  *)
(* T.                                                                      *)
(***************************************************************************)
EXTENDS Kconf

MCSymType == [s \in {"MOD", "B", "E", "X", "Y", "D", "CH"} |-> "bool"] @@ ("T" :> "tristate") @@ ("N" :> "int")
             @@ [s \in {"y", "m", "n", "1", "2", "3"} |-> "unknown"]

NotNumber == [ok |-> FALSE, n |-> 0]
MCLiterals ==
    LET number(k) == [rank |-> k + 1, dec |-> [ok |-> TRUE, n |-> k], hex |-> [ok |-> TRUE, n |-> k],
                      any |-> [ok |-> TRUE, n |-> k]]
        word(r) == [rank |-> r, dec |-> NotNumber, hex |-> NotNumber, any |-> NotNumber]
    IN ("1" :> number(1)) @@ ("2" :> number(2)) @@ ("3" :> number(3)) @@ ("4" :> number(4))
       @@ ("" :> word(0)) @@ ("m" :> word(6)) @@ ("n" :> word(7)) @@ ("y" :> word(8))

Prop(type, expr, vis) == [type |-> type, expr |-> expr, vis |-> vis]
Ask(vis) == Prop("prompt", NullExpr, vis)
Default(e, vis) == Prop("default", e, vis)
Config(s, dep, props) == [id |-> s, sym |-> s, dep |-> dep, visibility |-> NullExpr, props |-> props, kids |-> <<>>]
Menu(id, dep, kids) == [id |-> id, sym |-> "", dep |-> dep, visibility |-> NullExpr,
                        props |-> <<Prop("menu", NullExpr, NullExpr)>>, kids |-> kids]

Number_N ==
    Config("N", NullExpr, <<Ask(NullExpr), Default(Sym("2"), NullExpr),
                            Prop("range", Comp("=", "2", "3"), Sym("T")), Prop("range", Comp("=", "1", "3"), NullExpr)>>)
Derived_D == Config("D", NullExpr, <<Default(Sym("y"), Comp("=", "N", "3"))>>)
Choice_CH(second) ==
    [Config("CH", NullExpr, <<Ask(NullExpr), Default(Sym("Y"), NullExpr)>>) EXCEPT
        !.kids = <<Config("X", NullExpr, <<Ask(NullExpr)>>), Config("Y", second, <<Ask(NullExpr)>>)>>]

MCRaw ==
    <<Menu("root", NullExpr,
           <<Config("MOD", NullExpr, <<Ask(NullExpr)>>),
             Config("T", NullExpr, <<Ask(NullExpr), Default(Sym("m"), NullExpr)>>),
             Config("B", Sym("T"), <<Ask(NullExpr), Default(Sym("y"), NullExpr)>>),
             Menu("sub", Not(Sym("B")), <<Number_N, Derived_D>>),
             Choice_CH(Sym("B"))>>),
      Menu("root", NullExpr,
           <<Config("MOD", NullExpr, <<Ask(NullExpr)>>),
             Config("T", NullExpr, <<Ask(NullExpr), Default(Sym("m"), NullExpr)>>),
             Choice_CH(Sym("E")),
             Config("E", NullExpr, <<Prop("menu", NullExpr, NullExpr), Prop("select", Sym("T"), NullExpr)>>),
             [Number_N EXCEPT !.dep = Sym("E")], Derived_D>>)>>

MCSymOrder == <<"CH", "N", "B", "D", "MOD", "T", "X", "E", "Y">>

Is(s, v) == [name |-> s, value |-> v]
MCHandConfigs == {<<Is("MOD", "y"), Is("T", "m"), Is("B", "n"), Is("N", "3")>>,
                  <<Is("T", "y"), Is("B", "y"), Is("X", "y"), Is("N", "4"), Is("E", "y")>>}
MCHandConfigs1 == {<<Is("MOD", "y"), Is("T", "m"), Is("B", "n"), Is("N", "3")>>}

=============================================================================
