----------------------------- MODULE MCProcess -----------------------------
(***************************************************************************)
(* Small instances of Process.                                             *)
(***************************************************************************)
EXTENDS Process

Lib == "liblinbox.so"
Settings(disable) ==
    [n \in Names |-> CASE n = "LD_PRELOAD" -> Lib
                       [] n = "LINBOX_DISABLE_SECCOMP" -> disable
                       [] OTHER -> "box"]
MCRoots == {Settings(v) : v \in {Unset, "0", "1", ""}}
MCPrograms == {{"calls"}, {"starts"}, {"opens"}}
MCOwnValues ==
    [n \in Names |-> CASE n = "LINBOX_DISABLE_SECCOMP" -> {Unset, "1"}
                       [] n = "LINBOX_SOCK" -> {"other"}
                       [] OTHER -> {Unset}]
MCEnvps ==
    {NullEnv, [NullEnv EXCEPT !["LINBOX_SOCK"] = "other", !["LINBOX_DISABLE_SECCOMP"] = "1"],
     [NullEnv EXCEPT !["LINBOX_SHM"] = ""], [NullEnv EXCEPT !["LD_PRELOAD"] = "other"]}
MCTimes == {[sec |-> -1, nsec |-> 2], [sec |-> 0, nsec |-> 2]}
=============================================================================
