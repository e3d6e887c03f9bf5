-------------------------------- MODULE WasiFs --------------------------------
(***************************************************************************)
(* wasi_fs.cc, with fd_read and fd_close (wasi.cc): the files that the     *)
(* embedding program lets guests read, the descriptors they are read by,   *)
(* and the FILE of each descriptor that is open.  Nothing is locked:       *)
(* guests on several threads may be in the middle of calls on one          *)
(* descriptor.  The program maps files while no guest runs.                *)
(*                                                                         *)
(* A FILE* is a place in the sequence "files", which says what file was    *)
(* opened there last, and for which descriptor; Null is the null pointer.  *)
(* fclose frees the FILE: a later fopen may return the same FILE*, which a *)
(* thread may still hold.  The bytes of a file are numbered from 0.        *)
(***************************************************************************)
EXTENDS Integers, Sequences

CONSTANTS
  Threads,       \* threads that run guests
  VirtualPaths,
  RealPaths,
  Size,          \* [RealPaths -> Nat]: bytes in each file
  BufLen,        \* bytes that one iovec asks for
  MaxIov,        \* iovecs of one fd_read (bound)
  NoCall,        \* a thread in neither fd_read nor fd_close
  MaxFd,         \* last descriptor given out (bound)
  MaxFiles       \* fopen calls that succeed (bound): no fd_read after them

ASSUME FilesOK ==
  /\ Size \in [RealPaths -> Nat]
  /\ BufLen \in Nat \ {0}
  /\ MaxIov \in Nat
  /\ MaxFd \in Nat /\ MaxFiles \in Nat

Null == 0
FirstFd == 11
Descriptors == FirstFd..MaxFd

VARIABLES
  last_file_descriptor,
  virtual_files,     \* by descriptor
  virtual_file_map,  \* descriptors by virtual path
  files,             \* the FILE objects, by FILE*
  call,              \* the call each thread is in, or how it ended the process
  granted,           \* history: what each descriptor was given out for
  stream,            \* history: bytes read by a descriptor since it was closed
  opens,             \* history: fopen calls that have succeeded
  shared,            \* history: descriptors that two threads used at once
  raced              \* history: those of them that one of the two was closing

mapVars == <<last_file_descriptor, virtual_files, virtual_file_map, granted>>
history == <<stream, opens, shared, raced>>
vars == <<last_file_descriptor, virtual_files, virtual_file_map, files, call,
          granted, stream, opens, shared, raced>>

\* std::optional<FILE*>: what it holds when it is not set is what it held last.
Unopened == [set |-> FALSE, file |-> Null]
Faults == {"no_descriptor", "null_file", "closed_file"}
Points == {"lookup", "fopen", "assign", "return", "fread", "fclose", "reset"} \cup Faults

Calls == [op: {"read", "close"}, fd: Descriptors, at: Points,
          file: 0..MaxFiles, left: 0..MaxIov]

ASSUME NoCallOK == NoCall \notin Calls

Halted == \E t \in Threads : call[t] # NoCall /\ call[t].at \in Faults

Init ==
  /\ last_file_descriptor = FirstFd - 1
  /\ virtual_files = <<>>
  /\ virtual_file_map = <<>>
  /\ files = <<>>
  /\ call = [t \in Threads |-> NoCall]
  /\ granted = <<>>
  /\ stream = [fd \in Descriptors |-> <<>>]
  /\ opens = 0
  /\ shared = {} /\ raced = {}

-------------------------------------------------------------------------------
(* allow_file_read_access *)

Set(f, x, v) == [y \in DOMAIN f \cup {x} |-> IF y = x THEN v ELSE f[y]]

\* As if the old descriptor of the path stayed valid.
KeptAll(path) == DOMAIN virtual_files

\* erase_virtual_if_exists
Kept(path) ==
  IF path \in DOMAIN virtual_file_map
  THEN DOMAIN virtual_files \ {virtual_file_map[path]}
  ELSE DOMAIN virtual_files

\* As if a path that is mapped again kept its descriptor.
AllowInPlace(path, real) ==
  LET fd == IF path \in DOMAIN virtual_file_map THEN virtual_file_map[path]
            ELSE last_file_descriptor + 1
      opened == IF path \in DOMAIN virtual_file_map
                THEN virtual_files[fd].opened_file ELSE Unopened
  IN
  /\ ~Halted
  /\ \A t \in Threads : call[t] = NoCall
  /\ last_file_descriptor < MaxFd
  /\ last_file_descriptor' = IF fd > last_file_descriptor THEN fd
                             ELSE last_file_descriptor
  /\ virtual_files' = Set(virtual_files, fd,
                          [virtual_path |-> path, real_path |-> real,
                           opened_file |-> opened])
  /\ virtual_file_map' = Set(virtual_file_map, path, fd)
  /\ granted' = Set(granted, fd, [virtual_path |-> path, real_path |-> real])
  /\ UNCHANGED <<files, call, history>>

AllowFileReadAccess(path, real) ==
  LET fd == last_file_descriptor + 1
      info == [virtual_path |-> path, real_path |-> real, opened_file |-> Unopened]
  IN
  /\ ~Halted
  /\ \A t \in Threads : call[t] = NoCall
  /\ last_file_descriptor < MaxFd
  /\ last_file_descriptor' = fd
  /\ virtual_files' = [f \in Kept(path) \cup {fd} |->
                         IF f = fd THEN info ELSE virtual_files[f]]
  /\ virtual_file_map' = Set(virtual_file_map, path, fd)
  /\ granted' = Set(granted, fd, [virtual_path |-> path, real_path |-> real])
  /\ UNCHANGED <<files, call, history>>

-------------------------------------------------------------------------------
(* fd_read and fd_close *)

At(t, op, at) == call[t] # NoCall /\ call[t].op = op /\ call[t].at = at

Goto(t, at) == call' = [call EXCEPT ![t].at = at]
End(t) == call' = [call EXCEPT ![t] = NoCall]

Users(fd) == {u \in Threads : call[u] # NoCall /\ call[u].fd = fd}

Begin(t, op, fd, iovecs) ==
  /\ ~Halted
  /\ call[t] = NoCall
  /\ op = "read" => opens < MaxFiles
  /\ call' = [call EXCEPT ![t] = [op |-> op, fd |-> fd, at |-> "lookup",
                                  file |-> Null, left |-> iovecs]]
  /\ shared' = shared \cup {f \in {fd} : Users(fd) # {}}
  /\ raced' = raced \cup {f \in {fd} : \E u \in Users(fd) : "close" \in {op, call[u].op}}
  /\ UNCHANGED <<mapVars, files, stream, opens>>

Opened(t) == virtual_files[call[t].fd].opened_file
Assign(t, opened) ==
  virtual_files' = [virtual_files EXCEPT ![call[t].fd].opened_file = opened]

\* virtual_files.at(pseudo_fd) throws, out of the guest's call.
Throw(t) ==
  /\ ~Halted
  /\ call[t] # NoCall /\ call[t].at = "lookup"
  /\ call[t].fd \notin DOMAIN virtual_files
  /\ Goto(t, "no_descriptor")
  /\ UNCHANGED <<mapVars, files, history>>

\* Is there an opened_file?
LookUp(t) ==
  /\ ~Halted
  /\ call[t] # NoCall /\ call[t].at = "lookup"
  /\ call[t].fd \in DOMAIN virtual_files
  /\ \/ Opened(t).set /\ call' = [call EXCEPT ![t].file = Opened(t).file,
                                   ![t].at = IF call[t].op = "read" THEN "fread" ELSE "fclose"]
     \/ ~Opened(t).set /\ call[t].op = "read" /\ Goto(t, "fopen")
     \/ ~Opened(t).set /\ call[t].op = "close" /\ End(t)
  /\ UNCHANGED <<mapVars, files, history>>

\* The FILE* that fopen may return: of a FILE that was closed, or of a new one.
Unused == {f \in DOMAIN files : ~files[f].open} \cup {Len(files) + 1}

\* std::fopen, which may fail at any time.
Fopen(t) ==
  /\ ~Halted
  /\ At(t, "read", "fopen")
  /\ \/ /\ opens < MaxFiles
        /\ opens' = opens + 1
        /\ \E f \in Unused :
             /\ files' = Set(files, f, [real_path |-> virtual_files[call[t].fd].real_path,
                                       position |-> 0, open |-> TRUE, fd |-> call[t].fd])
             /\ call' = [call EXCEPT ![t].at = "assign", ![t].file = f]
     \/ /\ call' = [call EXCEPT ![t].at = "assign", ![t].file = Null]
        /\ UNCHANGED <<files, opens>>
  /\ UNCHANGED <<mapVars, stream, shared, raced>>

\* As if opened_file were not set.
AssignOpenedNot(t) ==
  /\ ~Halted
  /\ At(t, "read", "assign")
  /\ Assign(t, [set |-> FALSE, file |-> call[t].file])
  /\ Goto(t, "return")
  /\ UNCHANGED <<last_file_descriptor, virtual_file_map, granted, files, history>>

AssignOpened(t) ==
  /\ ~Halted
  /\ At(t, "read", "assign")
  /\ Assign(t, [set |-> TRUE, file |-> call[t].file])
  /\ Goto(t, "return")
  /\ UNCHANGED <<last_file_descriptor, virtual_file_map, granted, files, history>>

\* return *info.opened_file, whatever other threads have done to it.
ReturnOpened(t) ==
  /\ ~Halted
  /\ At(t, "read", "return")
  /\ call' = [call EXCEPT ![t].at = "fread", ![t].file = Opened(t).file]
  /\ UNCHANGED <<mapVars, files, history>>

\* As if the loop over the iovecs ran once too often.
FreadOneMore(t) ==
  /\ ~Halted
  /\ At(t, "read", "fread")
  /\ call[t].left >= 0
  /\ call[t].file # Null /\ files[call[t].file].open
  /\ call' = [call EXCEPT ![t].left = @ - 1]
  /\ UNCHANGED <<mapVars, files, history>>

\* std::fread into the next iovec, from whatever file is open at that FILE*.
Fread(t) ==
  LET f == call[t].file
      left == Size[files[f].real_path] - files[f].position
      count == IF left < BufLen THEN left ELSE BufLen
  IN
  /\ ~Halted
  /\ At(t, "read", "fread")
  /\ call[t].left > 0
  /\ f # Null /\ files[f].open
  /\ files' = [files EXCEPT ![f].position = @ + count]
  /\ stream' = [stream EXCEPT ![call[t].fd] =
                  @ \o [n \in 1..count |-> <<files[f].real_path,
                                             files[f].position + n - 1>>]]
  /\ call' = [call EXCEPT ![t].left = @ - 1]
  /\ UNCHANGED <<mapVars, opens, shared, raced>>

EndRead(t) ==
  /\ ~Halted
  /\ At(t, "read", "fread")
  /\ call[t].left = 0
  /\ End(t)
  /\ UNCHANGED <<mapVars, files, history>>

\* As if the FILE were left open.
FcloseNot(t) ==
  /\ ~Halted
  /\ At(t, "close", "fclose")
  /\ call[t].file # Null /\ files[call[t].file].open
  /\ Goto(t, "reset")
  /\ UNCHANGED <<mapVars, files, history>>

\* Whatever file is open at that FILE* is closed.
Fclose(t) ==
  /\ ~Halted
  /\ At(t, "close", "fclose")
  /\ call[t].file # Null /\ files[call[t].file].open
  /\ files' = [files EXCEPT ![call[t].file].open = FALSE]
  /\ Goto(t, "reset")
  /\ UNCHANGED <<mapVars, history>>

\* As if opened_file were still set after fclose.
ResetOpenedNot(t) ==
  /\ ~Halted
  /\ At(t, "close", "reset")
  /\ End(t)
  /\ UNCHANGED <<mapVars, files, history>>

ResetOpened(t) ==
  /\ ~Halted
  /\ At(t, "close", "reset")
  /\ Assign(t, [set |-> FALSE, file |-> Opened(t).file])
  /\ End(t)
  /\ stream' = [stream EXCEPT ![call[t].fd] = <<>>]
  /\ UNCHANGED <<last_file_descriptor, virtual_file_map, granted, files, opens,
                 shared, raced>>

UsesFile(t) == At(t, "close", "fclose") \/ (At(t, "read", "fread") /\ call[t].left > 0)

\* fread or fclose of a null pointer.
UseNullFile(t) ==
  /\ ~Halted
  /\ UsesFile(t) /\ call[t].file = Null
  /\ Goto(t, "null_file")
  /\ UNCHANGED <<mapVars, files, history>>

\* fread or fclose of a FILE that was closed, before the FILE* is used again: it
\* ends the process, or fails without a word.
UseClosedFile(t) ==
  /\ ~Halted
  /\ UsesFile(t) /\ call[t].file # Null /\ ~files[call[t].file].open
  /\ \/ Goto(t, "closed_file")
     \/ call[t].op = "read" /\ call' = [call EXCEPT ![t].left = @ - 1]
     \/ call[t].op = "close" /\ Goto(t, "reset")
  /\ UNCHANGED <<mapVars, files, history>>

\* Nothing follows the end of the process.
StayHalted == Halted /\ UNCHANGED vars

-------------------------------------------------------------------------------
Step(t) ==
  \/ Throw(t) \/ LookUp(t)
  \/ Fopen(t) \/ AssignOpened(t) \/ ReturnOpened(t) \/ Fread(t) \/ EndRead(t)
  \/ Fclose(t) \/ ResetOpened(t)
  \/ UseNullFile(t) \/ UseClosedFile(t)

Next ==
  \/ \E path \in VirtualPaths, real \in RealPaths : AllowFileReadAccess(path, real)
  \/ \E t \in Threads :
       \/ \E fd \in Descriptors :
            \/ \E iovecs \in 0..MaxIov : Begin(t, "read", fd, iovecs)
            \/ Begin(t, "close", fd, 0)
       \/ Step(t)
  \/ StayHalted

Spec == Init /\ [][Next]_vars

-------------------------------------------------------------------------------
Infos == [virtual_path: VirtualPaths, real_path: RealPaths,
          opened_file: [set: BOOLEAN, file: 0..MaxFiles]]
FileObjects == [real_path: RealPaths, position: Nat, open: BOOLEAN,
                fd: Descriptors]

TypeOK ==
  /\ last_file_descriptor \in Nat /\ last_file_descriptor >= FirstFd - 1
  /\ DOMAIN virtual_files \subseteq Descriptors
  /\ \A fd \in DOMAIN virtual_files : virtual_files[fd] \in Infos
  /\ DOMAIN virtual_file_map \subseteq VirtualPaths
  /\ \A path \in DOMAIN virtual_file_map : virtual_file_map[path] \in Descriptors
  /\ files \in Seq(FileObjects) /\ Len(files) <= opens
  /\ call \in [Threads -> Calls \cup {NoCall}]
  /\ DOMAIN granted \subseteq Descriptors
  /\ \A fd \in DOMAIN granted :
       granted[fd] \in [virtual_path: VirtualPaths, real_path: RealPaths]
  /\ stream \in [Descriptors -> Seq(RealPaths \X Nat)]
  /\ opens \in 0..MaxFiles
  /\ shared \subseteq Descriptors /\ raced \subseteq shared

\* The two maps describe the same files: every descriptor but those whose path
\* was mapped again stays valid, and a path leads to the last descriptor it was
\* given (wasi_fs.cc:22-54).
LatestGrantStands ==
  /\ \A fd \in DOMAIN granted :
       fd \in DOMAIN virtual_files <=>
         \A later \in DOMAIN granted :
           later > fd => granted[later].virtual_path # granted[fd].virtual_path
  /\ \A fd \in DOMAIN virtual_files :
       /\ fd \in DOMAIN granted
       /\ virtual_files[fd].real_path = granted[fd].real_path
       /\ virtual_file_map[granted[fd].virtual_path] = fd
  /\ \A path \in DOMAIN virtual_file_map : virtual_file_map[path] \in DOMAIN virtual_files

\* As long as no descriptor is closed while another thread uses it, a descriptor
\* only ever reads the file that it was given out for, whatever is mapped again,
\* however many threads read it at once and whatever else was opened at the FILE*
\* that it had: descriptors are not used twice (wasi_fs.cc:38), and a FILE* is
\* dropped with its FILE (:114-115).
ReadsOwnFile ==
  raced = {} =>
    \A fd \in Descriptors : \A n \in DOMAIN stream[fd] :
      fd \in DOMAIN granted /\ stream[fd][n][1] = granted[fd].real_path

\* Nor is a FILE used after it was closed, or that of another descriptor: the
\* unlocked check of opened_file (wasi_fs.cc:102 and :113) is enough for that.
\* One descriptor that is closed in use puts the files of every other at risk.
StaleFileNeedsRacedClose ==
  raced = {} =>
    \A t \in Threads :
      UsesFile(t) /\ call[t].file # Null =>
        files[call[t].file].open /\ files[call[t].file].fd = call[t].fd

\* A descriptor that threads do not use at the same time then reads its file from
\* the beginning, without gaps, over any number of calls and iovecs (wasi.cc:108).
StreamInOrder ==
  raced = {} =>
    \A fd \in Descriptors \ shared : \A n \in DOMAIN stream[fd] :
      stream[fd][n][2] = n - 1 /\ n <= Size[stream[fd][n][1]]

\* A FILE stays open only as the opened_file of a descriptor, or on its way to
\* become it, unless the descriptor was replaced or shared (wasi_fs.cc:106).
OpenFilesAreFound ==
  \A f \in DOMAIN files : files[f].open =>
    \/ files[f].fd \notin DOMAIN virtual_files \/ files[f].fd \in shared
    \/ virtual_files[files[f].fd].opened_file = [set |-> TRUE, file |-> f]
    \/ \E t \in Threads : At(t, "read", "assign") /\ call[t].file = f

\* "if set the file is open" (wasi_fs.cc:13), but while close is about to reset it.
SetFilesAreOpen ==
  \A fd \in DOMAIN virtual_files :
    LET opened == virtual_files[fd].opened_file IN
    opened.set /\ (\A t \in Users(fd) : ~At(t, "close", "reset")) =>
      opened.file # Null /\ files[opened.file].open
===============================================================================
