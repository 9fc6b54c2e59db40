------------------------------- MODULE MCCounter -------------------------------
(***************************************************************************)
(* The till as the cashier meets it: its session and accounting context, the   *)
(* register, the operations screen, the updater, and the start over an older    *)
(* release's files.  They meet in the outbox, which TillSync models whole and    *)
(* each of these only as far as it looks at it, so one behaviour follows one     *)
(* part, chosen at the start.                                                   *)
(***************************************************************************)
EXTENDS TillSession, Register, OperationsScreen, TillUpdate, LocalMigration, TLC

VARIABLE part

FewLoads == [sales |-> 2, returns |-> 1]
TwoOnShelf == [g \in Goods |-> 2]

\* 1.4.0, then 1.5.0-2, 1.5.0-rc, 1.5.0-rc.1 and 1.5.0
FiveReleases ==
    <<Version(1, 4, 0, <<>>), Version(1, 5, 0, <<Numeric(2)>>), Version(1, 5, 0, <<Word(1)>>),
      Version(1, 5, 0, <<Word(1), Numeric(1)>>), Version(1, 5, 0, <<>>)>>

ThreeDirs == <<"userData", "bold-pos-electron", "Bold POS">>
OneSaleEach == [d \in {"userData", "bold-pos-electron", "Bold POS"} |-> {{}, {<<d, 1>>}}]

ctrVars == <<sesVars, regVars, opsVars, updVars, migVars, part>>

Init ==
    /\ SesInit /\ RegInit /\ OpsInit /\ UpdInit /\ MigInit
    /\ part \in {"session", "register", "operations", "update", "migration"}
    /\ part # "migration" => \A d \in DOMAIN old : old[d] = [database |-> NoFile, secure |-> NoFile]
    /\ part # "update" => published = None

Next ==
    /\ UNCHANGED part
    /\ \/ /\ part = "session"    /\ SesNext
          /\ UNCHANGED <<regVars, opsVars, updVars, migVars>>
       \/ /\ part = "register"   /\ RegNext
          /\ UNCHANGED <<sesVars, opsVars, updVars, migVars>>
       \/ /\ part = "operations" /\ OpsNext
          /\ UNCHANGED <<sesVars, regVars, updVars, migVars>>
       \/ /\ part = "update"     /\ UpdNext
          /\ UNCHANGED <<sesVars, regVars, opsVars, migVars>>
       \/ /\ part = "migration"  /\ MigNext
          /\ UNCHANGED <<sesVars, regVars, opsVars, updVars>>

Spec == Init /\ [][Next]_ctrVars

\* The two cashiers, tills and shifts are interchangeable, exchanged all at once.
Twins == {Cashiers, Tills, Shifts}
Exchanges(p, S) == \A x \in S : p[x] \in S \ {x}
Mirror ==
    {p \in Permutations(UNION Twins) :
        (\A S \in Twins : Exchanges(p, S)) \/ (\A x \in UNION Twins : p[x] = x)}
=============================================================================
