---------------------------- MODULE DeviceWatch ----------------------------
(***************************************************************************)
(* The command line's view of the bus (src/main.c): --list prints the      *)
(* supported printers once, --watch lists them every second and prints     *)
(* them when their common state has changed, until SIGINT or SIGTERM.      *)
(*                                                                         *)
(* hplp_usb_list is that of Discovery; the one-second sleep is the         *)
(* stuttering between two turns of the loop.  DeviceListing puts the bus,  *)
(* these programs and PAPPL together.                                      *)
(***************************************************************************)
EXTENDS Discovery

CONSTANT Programs   \* bound: what a client may be, "--watch", "--list" or
                    \* another program (DeviceListing)

VARIABLES
    program,       \* what each client is
    mpc,           \* where in main each client is
    keep_running,
    last_state,    \* 0 disconnected, 1 connecting, 2 ready, -1 before
    shown,         \* history: the state line and the devices printed last
    latest,        \* history: the state of the last list that succeeded
    exit_code      \* what main returned

mainVars == <<program, mpc, keep_running, last_state, shown, latest,
              exit_code>>

States == {-1, 0, 1, 2}

MainTypeOK ==
    /\ ListTypeOK
    /\ program \in [Clients -> Programs]
    /\ mpc \in [Clients -> {"loop", "list", "exited"}]
    /\ keep_running \in [Clients -> BOOLEAN]
    /\ last_state \in [Clients -> States]
    /\ shown \in [Clients -> [state : States, devices : Seq(UsbDevice)]]
    /\ latest \in [Clients -> States]
    /\ exit_code \in [Clients -> {0, 1}]

MainInit ==
    /\ BusInit
    /\ ListInit
    /\ program \in [Clients -> Programs]
    /\ mpc = [c \in Clients |-> "loop"]
    /\ keep_running = [c \in Clients |-> TRUE]
    /\ last_state = [c \in Clients |-> -1]
    /\ shown = [c \in Clients |-> [state |-> -1, devices |-> <<>>]]
    /\ latest = [c \in Clients |-> -1]
    /\ exit_code = [c \in Clients |-> 0]

Main(c, argument, from, to) ==
    /\ program[c] = argument
    /\ mpc[c] = from
    /\ mpc' = [mpc EXCEPT ![c] = to]
    /\ UNCHANGED program

-----------------------------------------------------------------------------
state_for_devices(ds) ==
    IF ds = <<>> THEN 0
    ELSE IF \E i \in 1..Len(ds) : ds[i].serial_state = "PENDING" THEN 1 ELSE 2

\* Mutant: the loop does not look at keep_running.
PollForEver(c) ==
    /\ \/ Main(c, "--watch", "loop", "list")
       \/ Main(c, "--list", "loop", "list")
    /\ UsbList(c)
    /\ UNCHANGED <<keep_running, last_state, shown, latest, exit_code>>

Poll(c) ==
    /\ \/ keep_running[c] /\ Main(c, "--watch", "loop", "list")
       \/ Main(c, "--list", "loop", "list")
    /\ UsbList(c)
    /\ UNCHANGED <<keep_running, last_state, shown, latest, exit_code>>

ListStep(c) ==
    /\ program[c] \in {"--watch", "--list"}
    /\ Listing(c)
    /\ UNCHANGED mainVars

\* "STATE ERROR", sleep, continue: last_state stays.
PollError(c) ==
    /\ rc[c] # 0
    /\ Main(c, "--watch", "list", "loop")
    /\ ListFree(c) /\ Forget(c)
    /\ UNCHANGED <<keep_running, last_state, shown, latest, exit_code>>

\* Mutant: last_state is set, and only a state above it is printed.
ShowRising(c, s) ==
    /\ last_state' = [last_state EXCEPT ![c] = s]
    /\ shown' = IF s <= last_state[c] THEN shown
                ELSE [shown EXCEPT ![c] = [state   |-> s,
                                           devices |-> devices[c]]]

\* print_watch_devices if the state is not the last one printed.
Show(c, s) ==
    IF s = last_state[c] THEN UNCHANGED <<last_state, shown>>
    ELSE /\ last_state' = [last_state EXCEPT ![c] = s]
         /\ shown' = [shown EXCEPT ![c] = [state   |-> s,
                                           devices |-> devices[c]]]

PollOk(c) ==
    /\ rc[c] = 0
    /\ Main(c, "--watch", "list", "loop")
    /\ LET s == state_for_devices(devices[c])
       IN  Show(c, s) /\ latest' = [latest EXCEPT ![c] = s]
    /\ ListFree(c) /\ Forget(c)
    /\ UNCHANGED <<keep_running, exit_code>>

\* Mutant: --list does not look at the result of hplp_usb_list.
PrintAnyway(c) ==
    /\ Main(c, "--list", "list", "exited")
    /\ exit_code' = [exit_code EXCEPT ![c] = 0]
    /\ shown' = [shown EXCEPT ![c].devices = devices[c]]
    /\ ListFree(c)
    /\ UNCHANGED <<found, keep_running, last_state, latest>>

\* --list: print_devices.
PrintDevices(c) ==
    /\ Main(c, "--list", "list", "exited")
    /\ exit_code' = [exit_code EXCEPT ![c] = rc[c]]
    /\ shown' = IF rc[c] # 0 THEN shown
                ELSE [shown EXCEPT ![c].devices = devices[c]]
    /\ ListFree(c)
    /\ UNCHANGED <<found, keep_running, last_state, latest>>

StopWatching(c) ==
    /\ ~keep_running[c]
    /\ Main(c, "--watch", "loop", "exited")
    /\ UNCHANGED <<busVars, listVars, keep_running, last_state, shown, latest,
                   exit_code>>

on_signal(c) ==
    /\ program[c] = "--watch"
    /\ keep_running' = [keep_running EXCEPT ![c] = FALSE]
    /\ UNCHANGED <<busVars, listVars, program, mpc, last_state, shown, latest,
                   exit_code>>

-----------------------------------------------------------------------------
MainStep(c) ==
    \/ Poll(c) \/ ListStep(c) \/ PollError(c) \/ PollOk(c)
    \/ PrintDevices(c) \/ StopWatching(c)

-----------------------------------------------------------------------------
(* What the command line promises. *)

Watching(c) == program[c] = "--watch"

\* The STATE line on the screen is the state of the last list that succeeded:
\* no change is swallowed, by failing lists in between either.  Under STATE
\* READY stands at least one printer, and no serial number that is still
\* pending (88-98, 118-121, 139-151).
ShowsLatest ==
    \A c \in Clients : Watching(c) =>
        /\ shown[c].state = latest[c]
        /\ shown[c].state = 2 =>
              /\ shown[c].devices # <<>>
              /\ \A i \in 1..Len(shown[c].devices) :
                    shown[c].devices[i].serial_state # "PENDING"

\* A --list that exits with 0 has printed every supported printer that was on
\* the bus when it looked; one that could not look says 1 (58-75).
ExitCodeTells ==
    \A c \in Clients : program[c] = "--list" /\ mpc[c] = "exited" =>
        IF exit_code[c] = 0
        THEN {shown[c].devices[i].dev : i \in 1..Len(shown[c].devices)}
                = found[c]
        ELSE shown[c].devices = <<>>

\* When the supported printers have left for good the watch comes to say
\* DISCONNECTED, provided that its lists do not fail for ever (135-155).
NoticesEmptyBus ==
    \A c \in Clients :
        (/\ Watching(c)
         /\ <>[](keep_running[c] /\ plugged \cap Supported = {})
         /\ []<>(dpc[c] = "done" /\ rc[c] = 0))
            => <>[](shown[c].state = 0)

\* A signal stops the watch, and --list ends (74, 135, 157).
Ends ==
    \A c \in Clients :
        (program[c] = "--list" \/ (Watching(c) /\ ~keep_running[c]))
            ~> mpc[c] = "exited"
=============================================================================
