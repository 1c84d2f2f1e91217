--------------------------- MODULE MCOptionParsing ---------------------------
(***************************************************************************)
(* Command lines of up to three arguments over an alphabet with one        *)
(* argument of each kind ParseArguments tells apart: a script file, a      *)
(* DartDev command that runs Dart code and one that does not, the snapshot *)
(* and depfile options, an empty and a non-empty --packages, the DartDev   *)
(* flags, --observe and --enable-vm-service with good and bad syntax, a    *)
(* plain VM flag, an unknown short flag and the callback options.          *)
(***************************************************************************)
EXTENDS OptionParsing, TLC

Word(file, vmCommand) ==
  [form |-> "word", name |-> "", value |-> "", lead |-> "", num |-> 0,
   slash |-> Null, file |-> file, vmCommand |-> vmCommand]

Long(name, value) ==
  [form |-> "long", name |-> name, value |-> value, lead |-> "", num |-> 0,
   slash |-> Null, file |-> FALSE, vmCommand |-> FALSE]

Service(name, lead, num, slash) ==
  [form |-> "long", name |-> name, value |-> "", lead |-> lead, num |-> num,
   slash |-> slash, file |-> FALSE, vmCommand |-> FALSE]

Short(name) ==
  [form |-> "short", name |-> name, value |-> "", lead |-> "", num |-> 0,
   slash |-> Null, file |-> FALSE, vmCommand |-> FALSE]

MCInfo ==
     "script" :> Word(TRUE, FALSE)
  @@ "run" :> Word(FALSE, TRUE)
  @@ "create" :> Word(FALSE, FALSE)
  @@ "--snapshot=f" :> Long("snapshot", "f")
  @@ "--snapshot-kind=app-jit" :> Long("snapshot-kind", "app-jit")
  @@ "--snapshot_depfile=d" :> Long("snapshot_depfile", "d")
  @@ "--depfile=d" :> Long("depfile", "d")
  @@ "--packages=p" :> Long("packages", "p")
  @@ "--packages=" :> Long("packages", "")
  @@ "--help" :> Long("help", "")
  @@ "--version" :> Long("version", "")
  @@ "--disable-dart-dev" :> Long("disable-dart-dev", "")
  @@ "--observe" :> Service("observe", "", 0, Null)
  @@ "--observe=x" :> Service("observe", "x", 0, Null)
  @@ "--enable-vm-service=:0/ip" :> Service("enable-vm-service", ":", 0, "ip")
  @@ "--enable-analytics" :> Long("enable-analytics", "")
  @@ "--suppress-analytics" :> Long("suppress-analytics", "")
  @@ "--print-flags" :> Long("print-flags", "")
  @@ "--vm-flag" :> Long("vm-flag", "")
  @@ "-x" :> Short("x")
  @@ "--deterministic" :> Long("deterministic", "")
  @@ "--pause-isolates-on-exit" :> Long("pause-isolates-on-exit", "")
  @@ "--hot-reload-test-mode" :> Long("hot-reload-test-mode", "")
  @@ "--profile-microtasks" :> Long("profile-microtasks", "")

MCArgs == DOMAIN MCInfo

\* The alphabet of the runs that look for the two disagreements.
MCSmallInfo ==
     "script" :> Word(TRUE, FALSE)
  @@ "run" :> Word(FALSE, TRUE)
  @@ "--snapshot=f" :> Long("snapshot", "f")
  @@ "--observe" :> Service("observe", "", 0, Null)
  @@ "--disable-dart-dev" :> Long("disable-dart-dev", "")
  @@ "--vm-flag" :> Long("vm-flag", "")

MCSmallArgs == DOMAIN MCSmallInfo
=============================================================================
