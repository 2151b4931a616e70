---------------------------- MODULE MCAdminTasks ----------------------------
(***************************************************************************)
(* Two operators who run tasks of one of three menus, each menu an         *)
(* instance of AdminTasks.                                                 *)
(***************************************************************************)
EXTENDS AdminTasks, TLC

MCFeed == <<"bayc", "cool">>

\* The flags of the collection and the pause.
SwitchMenu ==
    [reg : {"nftActive", "nftFrozen", "paused"}, arg : {"0", "1", "false"}]

\* The flags of the reserve, the whitelist and the dollar feed.
ReserveMenu ==
    [reg : {"reserveActive", "reserveFrozen"}, arg : {"0", "1"}]
        \cup [reg : {"whitelisted"}, arg : {"0", "1"}]
        \cup {[reg |-> "usd", arg |-> "configured"]}

\* The oracle: its owner, its feed admin, its assets and its prices.
OracleMenu ==
    [reg : {"owner"}, arg : {"poolAdmin", "safe"}]
        \cup [reg : {"feedAdmin"}, arg : {"poolAdmin"}]
        \cup [reg : {"oracle"}, arg : Oracles]
        \cup [reg : {"keys", "priced"}, arg : {"configured"}]

MCMenu == SwitchMenu \cup ReserveMenu \cup OracleMenu

VARIABLE menu

Switches == INSTANCE AdminTasks WITH Menu <- SwitchMenu, MaxTasks <- 3
Reserve == INSTANCE AdminTasks WITH Menu <- ReserveMenu, MaxTasks <- 3
Oracle == INSTANCE AdminTasks WITH Menu <- OracleMenu

MenusInit == Init /\ menu \in {"switches", "reserve", "oracle"}

MenusNext ==
    /\ \/ menu = "switches" /\ Switches!Next
       \/ menu = "reserve" /\ Reserve!Next
       \/ menu = "oracle" /\ Oracle!Next
    /\ UNCHANGED menu

MenusSpec == MenusInit /\ [][MenusNext]_<<vars, menu>>

\* The operators are interchangeable.
MCSymmetry == Permutations(Operators)
=============================================================================
