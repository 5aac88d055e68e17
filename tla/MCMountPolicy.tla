---------------------------- MODULE MCMountPolicy ----------------------------
(***************************************************************************)
(* A finite instance of MountPolicy: one place of each kind that the       *)
(* checks tell apart.                                                      *)
(***************************************************************************)
EXTENDS MountPolicy, TLC

MCHome    == <<"u">>
MCConfig  == <<"u", "config">>
MCRuntime == <<"run">>
MCProject == <<"u", "work">>

MCDirs == { <<>>, MCHome, MCConfig, MCRuntime, <<"u", "config", "celily">>, <<"u", "ssh">>,
            <<"u", "dots">>, <<"u", "dots", "ssh">>, <<"u", "docs">>, <<"u", "local">>,
            <<"u", "local", "share">>, <<"u", "local", "share", "keyrings">>,
            <<"u", "work">>, <<"u", "work", "sub">>, <<"run", "gnupg">> }

MCFiles == { <<"u", "work", "file">> }

MCSockets == { <<"u", "sock">>, <<"u", "work", "sock">>, <<"run", "bus">>,
               <<"run", "gnupg", "sock">>, <<"run", "sock">> }

\* /alias leads to the home directory: a symlink outside of it.
Alias == <<"alias">> :> MCHome

MCLayouts == { Alias,
               Alias @@ (<<"u", "ssh">> :> <<"u", "dots", "ssh">>),
               Alias @@ (<<"u", "work", "sub">> :> <<"u", "docs">>) }

MCWritten == { <<"u", "docs", "..", "work">>, <<"alias", "work", "sub">>, <<"u", "dots">>,
               <<"u", "work", "file">>, <<"alias">>, <<"u", "local">>,
               <<"u", "work", "sub", "">> }

MCWrittenSockets ==
  { <<"u", "sock">>, <<"alias", "work", "sock">>, <<"run", "gnupg", "sock">> }

MCAllowlists ==
  { [dirs |-> {}, files |-> {}],
    [dirs |-> {<<"u", "docs", "..", "work">>, <<"alias", "work", "sub">>},
     files |-> {<<"u", "work", "file">>}],
    [dirs |-> {<<"u", "work">>, <<"u", "dots", "">>, <<"alias">>, <<"u", "local">>}, files |-> {}],
    [dirs |-> {<<"u", "work">>, <<"u", "work", "sub", "">>}, files |-> {}] }

MCTargets == { <<"u", "docs">>, <<"u", "ssh">>, <<"alias", "sock">> }
=============================================================================
