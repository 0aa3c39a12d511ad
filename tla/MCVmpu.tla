------------------------------- MODULE MCVmpu -------------------------------
(* A small instance of Vmpu for TLC: an address is named for its region. *)
EXTENDS Vmpu

UserText == Modes \X {"read", "execute"}
UserData == Modes \X {"read", "write"}
UserExecute == {<<"user", "execute">>}
KernelText == {"kernel"} \X {"read", "execute"}
KernelData == {"kernel"} \X {"read", "write"}

R(name, ac) == [addrs |-> {name}, ac |-> ac]

\* The background container with a peripheral, two normal containers that
\* share memory, and a secure one: no set of loaded regions fits.
Configured ==
    [c \in 0 .. 3 |->
        CASE c = 0 -> << R("text0", UserText), R("ram0", UserData), R("uart", UserData) >>
          [] c = 1 -> << R("text1", UserText), R("ram1", UserData), R("shared", UserData) >>
          [] c = 2 -> << R("text2", KernelText), R("ram2", KernelData) >>
          [] c = 3 -> << R("text3", UserText), R("ram3", UserData), R("shared", UserData) >>]

RuntimeRegions == { R("runtime", KernelText \cup UserExecute), R("state", KernelData) }

\* An instruction fetched from one region works on another one.
Works(f, x, how) == << [at |-> f, how |-> {"execute"}], [at |-> x, how |-> how] >>

SomeInstructions ==
    [c \in 0 .. 3 |->
        CASE c = 0 -> { Works("text0", x, {"write"}) : x \in {"uart", "state", "shared"} }
          [] c = 1 -> { Works("text1", x, {"write"}) : x \in {"uart", "shared", "ram2"} }
                      \cup { Works("text0", x, {"read"}) : x \in {"ram0", "ram1", "uart"} }
          [] c = 2 -> { Works("text2", x, {"read", "write"}) : x \in {"state", "shared", "uart"} }
          [] c = 3 -> { Works("text3", x, {"read", "write"}) : x \in {"shared", "ram1"} }]
=============================================================================
