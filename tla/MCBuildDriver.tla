--------------------------- MODULE MCBuildDriver ---------------------------
(* Command lines that the usage text shows, for both architectures, and one  *)
(* of each kind that the script refuses; three runs, so that a success can   *)
(* follow an interrupted run that followed a success for the other           *)
(* architecture.                                                             *)
EXTENDS BuildDriver

Words(a) == <<a, "--cache", "/emcc/cache", "/opt/gmp", "/opt/mpc", "/opt/mpfr">>
Options(a) == <<"--gmp-dir", "/opt/gmp", "--mpc", "/opt/mpc", "--mpfr_path", "/opt/mpfr",
                "--arch", a>>

Refused == {<<>>, <<"--help">>, <<"RV64", "--unknown">>, Append(Options("RV64"), "--cache"),
            Words("RV128"), <<"RV64", "/emcc/cache", "/opt/gmp", "/opt/mpc", "/opt/mpfr">>}

AllLines == Refused \cup {Words(a) : a \in Arch} \cup {Options(a) : a \in Arch}

Provided == [w \in {"/emcc/cache", "/opt/gmp", "/opt/mpc", "/opt/mpfr"} |->
               CASE w = "/opt/gmp" -> {"gmp"} [] w = "/opt/mpc" -> {"mpc"}
                 [] w = "/opt/mpfr" -> {"mpfr"} [] OTHER -> {}]

AllTrees == {Fresh} \cup {Configured(a) : a \in Arch}
==============================================================================
