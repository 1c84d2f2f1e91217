---------------------------- MODULE OptionParsing ----------------------------
(***************************************************************************)
(* Options::ParseArguments of src/runtime/bin/main_options.cc, in the JIT  *)
(* build (DART_PRECOMPILED_RUNTIME and PRODUCT undefined), with the option *)
(* callbacks of the same file that it reaches through TryProcess.          *)
(*                                                                         *)
(* The command line is a sequence of argument strings. What the code reads *)
(* of a string (its shape, its option name, the value after the name) is   *)
(* given by Info, so the strings themselves are model values. Each loop    *)
(* iteration of ParseArguments is one step, and the straight-line code     *)
(* between the loops is one step each.                                     *)
(***************************************************************************)
EXTENDS Integers, Sequences, SequencesExt

CONSTANTS
  Args,        \* the argument strings a command line is made of
  Info,        \* Args -> [form, name, value, lead, num, slash, file, vmCommand]
  MaxArgs,     \* the longest command line, the executable not counted
  Null,        \* nullptr
  Undecided,   \* ParseArguments has not returned yet
  Exit         \* Platform::Exit(kErrorExitCode) ended the process

(* form: "long" for --name[=value], "short" for -x, "word" otherwise.      *)
(* lead, num, slash: the first character of what follows the option name, *)
(* atoi of the rest, and the text after "/" (Null if none); they are what  *)
(* ExtractPortAndAddress reads. file: DartDevIsolate::ShouldParseCommand   *)
(* is false (there is a file or URL of that name). vmCommand:              *)
(* DartDevIsolate::ShouldParseVMOptions is true (run, test).               *)

VARIABLES
  args,     \* argv[1 .. argc-1]
  appSnap,  \* vm_run_app_snapshot
  pc,       \* where ParseArguments is
  i,        \* i
  tmp,      \* tmp_i of the VM-options recording loop
  opts,     \* the static Options::*_ fields, by option name
  temp,     \* temp_vm_options
  vmOpts,   \* *vm_options
  dartOpts, \* *dart_options
  script,   \* *script_name
  dartdev,  \* DartDevIsolate::should_run_dart_dev_ and print_usage_error_
  seen,     \* *print_flags_seen, *verbose_debug_seen
  local,    \* the locals enable/disable_dartdev_analytics, packages_argument,
            \* run_script and first_option
  result    \* what ParseArguments returned

vars == << args, appSnap, pc, i, tmp, opts, temp, vmOpts, dartOpts, script,
           dartdev, seen, local, result >>

\* The option tables of main_options.h that TryProcess dispatches on.
StringOptionNames == {"snapshot", "snapshot_depfile", "depfile",
                      "depfile-output-filename", "packages"}
BoolOptionNames == {"help", "verbose", "version", "disable-dart-dev",
                    "deterministic"}
ShortBoolOptions == [h |-> "help", v |-> "verbose"]
SnapshotKinds == {"none", "kernel", "app-jit"}
HotReloadModes == {"hot-reload-test-mode", "hot-reload-rollback-test-mode"}

DefaultPort == 8181
InvalidPort == -1
DefaultIp == "localhost"

\* The arguments hot_reload_test_mode_callback and
\* hot_reload_rollback_test_mode_callback add to the VM options.
HotReloadArgs(mode) ==
  << "--identity_reload", "--reload_every=4", "--reload_every_optimized=false",
     "--reload_every_back_off", "--check_reloaded" >>
  \o (IF mode = "hot-reload-rollback-test-mode"
      THEN << "--reload_force_rollback" >> ELSE << >>)

\* The arguments ProcessObserveOption adds to the VM options.
ObserveArgs ==
  << "--pause-isolates-on-exit", "--pause-isolates-on-unhandled-exceptions",
     "--profiler", "--warn-on-pause-with-no-debugger",
     "--timeline-streams=Compiler,Dart,GC,Microtask" >>

\* The VM flags ProcessVMDebuggingOptions passes on for 'dart run'.
DebugOptionNames ==
  {"enable-asserts", "pause-isolates-on-exit", "no-pause-isolates-on-exit",
   "pause-isolates-on-start", "no-pause-isolates-on-start",
   "pause-isolates-on-unhandled-exception",
   "no-pause-isolates-on-unhandled-exception",
   "warn-on-pause-with-no-debugger", "no-warn-on-pause-with-no-debugger",
   "timeline-streams", "timeline-recorder", "enable-experiment"}

\* The flags that ParseArguments keeps out of the VM options.
SkippedVmOptions == {"enable-analytics", "disable-analytics",
                     "disable-telemetry", "suppress-analytics", "no-analytics",
                     "dds", "serve-observatory", "print-dtd-uri"}

InitialOptions ==
  [n \in StringOptionNames |-> Null]
  @@ [n \in BoolOptionNames \cup HotReloadModes |-> FALSE]
  @@ ("snapshot-kind" :> "none" @@ "vm-service" :> FALSE
      @@ "port" :> InvalidPort @@ "ip" :> DefaultIp
      @@ "profile-microtasks" :> FALSE @@ "use-dfe" :> FALSE
      @@ "incremental" :> FALSE @@ "max-concurrency-one" :> FALSE)

\* IsOption(arg, option): arg is "--" followed by option.
IsOption(a, option) == Info[a].form = "long" /\ Info[a].name = option

\* OptionProcessor::IsValidFlag and IsValidShortFlag.
IsValidFlag(a) == Info[a].form = "long"
IsValidShortFlag(a) == Info[a].form # "word"

\* The outcome of an option handler: no match, or the new options and the
\* arguments it adds to the CommandLineOptions it is given.
NoMatch == [ok |-> FALSE, o |-> Null, add |-> << >>]
Matched(o, add) == [ok |-> TRUE, o |-> o, add |-> add]

\* Options::ExtractPortAndAddress: "" gives the defaults, a value must start
\* with '=' or ':', the port is atoi of the rest and the address follows '/'.
ExtractPortAndAddress(a) ==
  CASE Info[a].lead = "" -> [ok |-> TRUE, port |-> DefaultPort, ip |-> DefaultIp]
    [] Info[a].lead \notin {"=", ":"} -> [ok |-> FALSE, port |-> 0, ip |-> Null]
    [] Info[a].slash = Null -> [ok |-> TRUE, port |-> Info[a].num, ip |-> DefaultIp]
    [] OTHER -> [ok |-> TRUE, port |-> Info[a].num, ip |-> Info[a].slash]

\* The VM service is enabled on the extracted port and address, and the
\* front end is switched to the incremental compiler.
ServiceEnabled(o, e) ==
  [o EXCEPT !["port"] = e.port, !["ip"] = e.ip, !["incremental"] = TRUE,
            !["vm-service"] = TRUE]

\* Options::ProcessEnableVmServiceOption.
ProcessEnableVmServiceOption(a, o) ==
  IF ~IsOption(a, "enable-vm-service") \/ ~ExtractPortAndAddress(a).ok
  THEN NoMatch
  ELSE Matched(ServiceEnabled(o, ExtractPortAndAddress(a)), << >>)

\* Options::ProcessObserveOption.
ProcessObserveOption(a, o) ==
  IF ~IsOption(a, "observe") \/ ~ExtractPortAndAddress(a).ok
  THEN NoMatch
  ELSE Matched(ServiceEnabled(o, ExtractPortAndAddress(a)), ObserveArgs)

\* Options::ProcessProfileMicrotasksOption.
ProcessProfileMicrotasksOption(a, o) ==
  IF IsOption(a, "profile-microtasks")
  THEN Matched([o EXCEPT !["profile-microtasks"] = TRUE],
               << "--profile-microtasks" >>)
  ELSE NoMatch

\* Options::ProcessVMDebuggingOptions: the flag itself is passed on.
ProcessVMDebuggingOptions(a, o) ==
  IF Info[a].form = "long" /\ Info[a].name \in DebugOptionNames
  THEN Matched(o, << a >>) ELSE NoMatch

\* OptionProcessor::TryProcess: the first registered option that accepts
\* the argument handles it. The handlers accept disjoint arguments.
TryProcess(a, o) ==
  LET t == Info[a]
      cb == << ProcessEnableVmServiceOption(a, o), ProcessObserveOption(a, o),
               ProcessVMDebuggingOptions(a, o),
               ProcessProfileMicrotasksOption(a, o) >>
  IN CASE t.form = "long" /\ t.name \in StringOptionNames ->
            Matched([o EXCEPT ![t.name] = t.value], << >>)
       [] t.form = "long" /\ t.name \in BoolOptionNames ->
            Matched([o EXCEPT ![t.name] = TRUE], << >>)
       [] t.form = "short" /\ t.name \in DOMAIN ShortBoolOptions ->
            Matched([o EXCEPT ![ShortBoolOptions[t.name]] = TRUE], << >>)
       [] t.form = "long" /\ t.name = "snapshot-kind" /\ t.value \in SnapshotKinds ->
            Matched([o EXCEPT !["snapshot-kind"] = t.value], << >>)
       [] t.form = "long" /\ t.name \in HotReloadModes ->
            Matched([o EXCEPT ![t.name] = TRUE, !["incremental"] = TRUE],
                    HotReloadArgs(t.name))
       [] \E k \in 1..4 : cb[k].ok -> cb[CHOOSE k \in 1..4 : cb[k].ok]
       [] OTHER -> NoMatch

ArgVectors == UNION {[1..n -> Args] : n \in 0..MaxArgs}

Init ==
  /\ args \in ArgVectors
  /\ appSnap \in BOOLEAN
  /\ pc = "vm"
  /\ i = 1
  /\ tmp = 0
  /\ opts = InitialOptions
  /\ temp = << >>
  /\ vmOpts = << >>
  /\ dartOpts = << >>
  /\ script = Null
  /\ dartdev = [run |-> FALSE, usageError |-> FALSE]
  /\ seen = [printFlags |-> FALSE, verboseDebug |-> FALSE]
  /\ local = [enableAnalytics |-> FALSE, disableAnalytics |-> FALSE,
              packages |-> Null, runScript |-> FALSE, firstOption |-> TRUE]
  /\ result = Undecided

\* packages_argument taken as the option's value rather than the argument.
PackagesArgumentValue(a) == Info[a].value

\* packages_argument = argv[i].
PackagesArgument(a) == a

\* The argument is one the first loop consumes as a VM option.
IsVmOption(a, o) == TryProcess(a, o).ok \/ IsValidFlag(a)

\* One iteration of the first loop of ParseArguments: an option TryProcess
\* accepts updates the options, any other flag is a DartDev flag or a VM
\* flag to pass on, and a --packages argument is remembered.
VmOption ==
  /\ pc = "vm"
  /\ i <= Len(args)
  /\ IsVmOption(args[i], opts)
  /\ LET a == args[i] IN
     /\ IF TryProcess(a, opts).ok
        THEN /\ opts' = TryProcess(a, opts).o
             /\ temp' = temp \o TryProcess(a, opts).add
             /\ UNCHANGED << seen, dartOpts >>
             /\ local' = [local EXCEPT !.packages =
                            IF IsOption(a, "packages") THEN PackagesArgument(a) ELSE @]
        ELSE /\ seen' = [seen EXCEPT !.printFlags = @ \/ IsOption(a, "print-flags"),
                                     !.verboseDebug = @ \/ IsOption(a, "verbose-debug")]
             /\ local' = [local EXCEPT
                  !.enableAnalytics = @ \/ IsOption(a, "enable-analytics"),
                  !.disableAnalytics = @ \/ IsOption(a, "disable-analytics")
                                        \/ IsOption(a, "disable-telemetry"),
                  !.packages = IF IsOption(a, "packages") THEN PackagesArgument(a) ELSE @]
             /\ dartOpts' = dartOpts
                  \o (IF IsOption(a, "suppress-analytics") THEN << "--suppress-analytics" >>
                      ELSE IF IsOption(a, "no-analytics") THEN << "--no-analytics" >>
                      ELSE << >>)
             /\ temp' = IF Info[a].name \in SkippedVmOptions THEN temp
                        ELSE Append(temp, a)
             /\ UNCHANGED opts
  /\ i' = i + 1
  /\ UNCHANGED << args, appSnap, pc, tmp, vmOpts, script, dartdev, result >>

\* DartDevIsolate::PrintUsageErrorOnRun.
PrintUsageErrorOnlyFlag(d) == [d EXCEPT !.usageError = TRUE]

\* DartDevIsolate::PrintUsageErrorOnRun.
PrintUsageErrorOnRun(d) == [d EXCEPT !.run = TRUE, !.usageError = TRUE]

\* The first loop has ended (all arguments read, or one that is no
\* option). The front end is set to use the DFE, --deterministic is added
\* for the VM and limits the IO service to one thread, and the argument at
\* i is the script, or the DartDev command; with none, DartDev is started
\* for help, for the analytics flags, or to print a usage error.
AfterVmOptions ==
  /\ pc = "vm"
  /\ ~(i <= Len(args) /\ IsVmOption(args[i], opts))
  /\ LET o == [opts EXCEPT !["use-dfe"] = TRUE,
                           !["max-concurrency-one"] = opts["deterministic"]]
         t == IF opts["deterministic"] THEN Append(temp, "--deterministic") ELSE temp
     IN IF i <= Len(args)
        THEN /\ opts' = o
             /\ temp' = t
             /\ vmOpts' = vmOpts \o t
             /\ pc' = "record"
             /\ result' = Undecided
             /\ UNCHANGED dartOpts
             /\ IF o["disable-dart-dev"] \/ o["snapshot"] # Null \/ Info[args[i]].file
                THEN /\ script' = args[i]
                     /\ local' = [local EXCEPT !.runScript = TRUE]
                     /\ i' = i + 1
                     /\ UNCHANGED dartdev
                ELSE /\ dartdev' = [dartdev EXCEPT !.run = TRUE]
                     /\ UNCHANGED << script, local, i >>
        ELSE /\ opts' = o
             /\ temp' = t
             /\ pc' = "done"
             /\ UNCHANGED << vmOpts, script, local, i >>
             /\ CASE ~o["disable-dart-dev"] /\ ((o["help"] /\ ~o["verbose"]) \/ args = << >>) ->
                       /\ dartdev' = [dartdev EXCEPT !.run = TRUE]
                       /\ dartOpts' = Append(dartOpts, "help")
                       /\ result' = TRUE
                  [] ~o["disable-dart-dev"] /\ (local.enableAnalytics \/ local.disableAnalytics) ->
                       /\ dartdev' = [dartdev EXCEPT !.run = TRUE]
                       /\ dartOpts' = Append(dartOpts,
                                        IF local.enableAnalytics THEN "--enable-analytics"
                                        ELSE "--disable-analytics")
                       /\ result' = TRUE
                  [] ~o["disable-dart-dev"] /\ ~o["help"] /\ ~o["version"] ->
                       /\ dartdev' = PrintUsageErrorOnRun(dartdev)
                       /\ result' = TRUE
                       /\ UNCHANGED dartOpts
                  [] OTHER ->
                       /\ result' = FALSE
                       /\ UNCHANGED << dartdev, dartOpts >>
  /\ UNCHANGED << args, appSnap, tmp, seen >>

\* A recording loop that starts at the command itself.
RecordFromCommand(k) == k

\* int tmp_i = i + 1: the recording loop skips the command.
RecordFrom(k) == k + 1

\* For a DartDev command that runs Dart code (run, test), the VM flags
\* that follow the command are recorded as well; otherwise this is skipped.
RecordStart ==
  /\ pc = "record"
  /\ IF ~local.runScript /\ i <= Len(args) /\ Info[args[i]].vmCommand
     THEN pc' = "recording" /\ tmp' = RecordFrom(i)
     ELSE pc' = "dart" /\ UNCHANGED tmp
  /\ UNCHANGED << args, appSnap, i, opts, temp, vmOpts, dartOpts, script,
                  dartdev, seen, local, result >>

\* One iteration of the recording loop: a flag after the command is given
\* to TryProcess with vm_options itself.
RecordOption ==
  /\ pc = "recording"
  /\ tmp <= Len(args)
  /\ IsValidFlag(args[tmp]) \/ IsValidShortFlag(args[tmp])
  /\ IF TryProcess(args[tmp], opts).ok
     THEN /\ opts' = TryProcess(args[tmp], opts).o
          /\ vmOpts' = vmOpts \o TryProcess(args[tmp], opts).add
     ELSE UNCHANGED << opts, vmOpts >>
  /\ tmp' = tmp + 1
  /\ UNCHANGED << args, appSnap, pc, i, temp, dartOpts, script, dartdev, seen,
                  local, result >>

\* The recording loop ends at the first argument that is no flag.
RecordEnd ==
  /\ pc = "recording"
  /\ ~(tmp <= Len(args) /\ (IsValidFlag(args[tmp]) \/ IsValidShortFlag(args[tmp])))
  /\ pc' = "dart"
  /\ UNCHANGED << args, appSnap, i, tmp, opts, temp, vmOpts, dartOpts, script,
                  dartdev, seen, local, result >>

\* The --packages argument is added after the command, on every iteration.
ForwardedPackagesEveryTime(first) ==
  IF dartdev.run /\ local.packages # Null THEN << local.packages >> ELSE << >>

\* The --packages argument is added right after the DartDev command.
ForwardedPackages(first) ==
  IF first /\ dartdev.run /\ local.packages # Null
  THEN << local.packages >> ELSE << >>

\* One iteration of the loop that collects the arguments for Dart's main
\* (or for DartDev): --observe and --enable-vm-service are stripped, and
\* --disable-dart-dev ends the process.
DartOption ==
  /\ pc = "dart"
  /\ i <= Len(args)
  /\ LET a == args[i]
         kept == IF ~IsOption(a, "observe") /\ ~IsOption(a, "enable-vm-service")
                 THEN << a >> ELSE << >>
     IN IF IsOption(a, "disable-dart-dev")
        THEN /\ dartOpts' = dartOpts \o kept
             /\ pc' = "done"
             /\ result' = Exit
             /\ UNCHANGED << i, local >>
        ELSE /\ dartOpts' = dartOpts \o kept \o ForwardedPackages(local.firstOption)
             /\ i' = i + 1
             /\ local' = [local EXCEPT !.firstOption = FALSE]
             /\ UNCHANGED << pc, result >>
  /\ UNCHANGED << args, appSnap, tmp, opts, temp, vmOpts, script, dartdev, seen >>

\* The alias copied without clearing snapshot_deps_filename_.
AliasedKeepingSource(o) ==
  IF o["snapshot_depfile"] # Null
  THEN [o EXCEPT !["depfile"] = o["snapshot_depfile"]]
  ELSE o

\* snapshot_depfile is an alias for depfile.
Aliased(o) ==
  IF o["snapshot_depfile"] # Null
  THEN [o EXCEPT !["depfile"] = o["snapshot_depfile"], !["snapshot_depfile"] = Null]
  ELSE o

\* The consistency checks that follow the alias, in their order.
OptionsError(o) ==
  \/ o["packages"] = ""
  \/ o["snapshot-kind"] # "none" /\ o["snapshot"] = Null
  \/ /\ o["snapshot-kind"] = "none" /\ o["depfile"] # Null
     /\ o["snapshot"] = Null /\ o["depfile-output-filename"] = Null
  \/ o["snapshot-kind"] # "none" /\ appSnap

\* --snapshot without --snapshot-kind generates a kernel snapshot.
DefaultKind(o) ==
  IF o["snapshot"] # Null /\ o["snapshot-kind"] = "none"
  THEN [o EXCEPT !["snapshot-kind"] = "kernel"] ELSE o

\* The collecting loop has ended: the options are checked for consistency.
Verify ==
  /\ pc = "dart"
  /\ i > Len(args)
  /\ pc' = "done"
  /\ IF opts["snapshot_depfile"] # Null /\ opts["depfile"] # Null
     THEN result' = FALSE /\ UNCHANGED opts
     ELSE IF OptionsError(Aliased(opts))
     THEN result' = FALSE /\ opts' = Aliased(opts)
     ELSE result' = TRUE /\ opts' = DefaultKind(Aliased(opts))
  /\ UNCHANGED << args, appSnap, i, tmp, temp, vmOpts, dartOpts, script,
                  dartdev, seen, local >>

Next ==
  \/ VmOption
  \/ AfterVmOptions
  \/ RecordStart
  \/ RecordOption
  \/ RecordEnd
  \/ DartOption
  \/ Verify

Spec == Init /\ [][Next]_vars

-----------------------------------------------------------------------------
\* Where the first loop stops: the script or DartDev command, or one past
\* the end.
Target ==
  LET k == SelectInSeq(args, LAMBDA a : ~IsVmOption(a, InitialOptions))
  IN IF k = 0 THEN Len(args) + 1 ELSE k

\* What the first loop adds to dart_options for the analytics flags.
DevFlagsForDart ==
  LET sel == SelectSeq(SubSeq(args, 1, Target - 1),
                       LAMBDA a : IsOption(a, "suppress-analytics")
                                  \/ IsOption(a, "no-analytics"))
  IN [k \in DOMAIN sel |-> IF IsOption(sel[k], "suppress-analytics")
                           THEN "--suppress-analytics" ELSE "--no-analytics"]

\* The last --packages argument before the script or command.
PackagesBefore ==
  LET k == SelectLastInSubSeq(args, 1, Target - 1,
                              LAMBDA a : IsOption(a, "packages"))
  IN IF Target > 1 /\ k > 0 THEN << args[k] >> ELSE << >>

\* The arguments after the script or command, in order.
Rest == SubSeq(args, Target + 1, Len(args))

\* An argument that asks for the VM service, with valid syntax.
RequestsService(a) ==
  /\ IsOption(a, "observe") \/ IsOption(a, "enable-vm-service")
  /\ ExtractPortAndAddress(a).ok

\* The positions of the flags that follow a command that runs Dart code,
\* when DartDev is to run that command.
RecordedPositions ==
  IF dartdev.run /\ Target <= Len(args) /\ Info[args[Target]].vmCommand
  THEN {k \in Target + 1 .. Len(args) :
          \A l \in Target + 1 .. k : IsValidFlag(args[l]) \/ IsValidShortFlag(args[l])}
  ELSE {}

VmArgStrings ==
  Args \cup ToSet(ObserveArgs) \cup ToSet(HotReloadArgs("hot-reload-rollback-test-mode"))
  \cup {"--deterministic", "--profile-microtasks"}

DartArgStrings ==
  Args \cup {"help", "--enable-analytics", "--disable-analytics",
             "--suppress-analytics", "--no-analytics"}

\* The variables keep their types; packages_argument is one of argv.
TypeOK ==
  /\ args \in ArgVectors
  /\ appSnap \in BOOLEAN
  /\ pc \in {"vm", "record", "recording", "dart", "done"}
  /\ i \in 1..Len(args) + 1
  /\ tmp \in 0..Len(args) + 1
  /\ opts["snapshot-kind"] \in SnapshotKinds
  /\ temp \in Seq(VmArgStrings)
  /\ vmOpts \in Seq(VmArgStrings)
  /\ dartOpts \in Seq(DartArgStrings)
  /\ script \in Args \cup {Null}
  /\ local.packages \in Args \cup {Null}
  /\ result \in {Undecided, Exit, TRUE, FALSE}

\* When ParseArguments succeeds, the launcher has exactly one thing to do:
\* run the script it named, or start DartDev (for a command, for help, for
\* the analytics flags or to print a usage error).
OneOutcome ==
  pc = "done" /\ result = TRUE => (script # Null) # dartdev.run

\* A DartDev command gets, in dart_options, the analytics flags, then the
\* command, then the last --packages argument given before it, then the
\* rest of the command line in order without --observe and
\* --enable-vm-service.
DartDevArguments ==
  pc = "done" /\ result = TRUE /\ dartdev.run /\ Target <= Len(args) =>
    dartOpts = DevFlagsForDart \o << args[Target] >> \o PackagesBefore
               \o SelectSeq(Rest, LAMBDA a : ~IsOption(a, "observe")
                                             /\ ~IsOption(a, "enable-vm-service"))

\* --observe or --enable-vm-service before the script or command, or among
\* the flags after 'dart run', enables the VM service, and --observe puts
\* its debugging flags into the VM options, whenever there is a script or
\* command to run.
VmServiceRequested ==
  pc = "done" /\ result = TRUE /\ Target <= Len(args) =>
    \A k \in (1..Target - 1) \cup RecordedPositions :
      RequestsService(args[k]) =>
        /\ opts["vm-service"]
        /\ IsOption(args[k], "observe") => ToSet(ObserveArgs) \subseteq ToSet(vmOpts)

\* A script run that ParseArguments accepts has consistent snapshot
\* options: the depfile alias is resolved, a snapshot kind comes with a
\* snapshot file and the reverse, a depfile has somewhere to write to, and
\* the packages file name is not empty.
ScriptRunOptionsConsistent ==
  pc = "done" /\ result = TRUE /\ script # Null =>
    /\ opts["snapshot_depfile"] = Null
    /\ opts["packages"] # ""
    /\ (opts["snapshot-kind"] # "none") = (opts["snapshot"] # Null)
    /\ opts["depfile"] # Null =>
         opts["snapshot"] # Null \/ opts["depfile-output-filename"] # Null

\* The arguments after a script are the script's own: dart_options holds
\* them all, in order, and none of them ends the process.
ScriptArgumentsPassedThrough ==
  pc = "done" /\ script # Null =>
    /\ result # Exit
    /\ dartOpts = DevFlagsForDart \o Rest
=============================================================================
