----------------------------- MODULE WasiFsProofs -----------------------------
(***************************************************************************)
(* Proofs about WasiFs: for any number of threads, paths, descriptors and  *)
(* opens, files of any size and reads of any length.                       *)
(***************************************************************************)
EXTENDS WasiFs, SequenceTheorems, TLAPS

-------------------------------------------------------------------------------
(* The inductive invariant *)

\* The descriptors given out are the numbers up to the last one, and both maps
\* know which virtual path each stands for.
GrantInv ==
  /\ DOMAIN granted = FirstFd..last_file_descriptor
  /\ \A fd \in DOMAIN virtual_files : granted[fd].virtual_path \in DOMAIN virtual_file_map
  /\ \A path \in DOMAIN virtual_file_map :
       granted[virtual_file_map[path]].virtual_path = path

\* A FILE is of the file that its descriptor was given out for, and a call is where
\* its operation goes.
FilesInv ==
  /\ \A f \in DOMAIN files :
       /\ files[f].fd \in DOMAIN granted
       /\ files[f].real_path = granted[files[f].fd].real_path
       /\ files[f].position <= Size[files[f].real_path]
  /\ \A fd \in DOMAIN virtual_files :
       virtual_files[fd].opened_file.file \in {Null} \cup DOMAIN files
  /\ \A t \in Threads : call[t] # NoCall =>
       /\ call[t].file \in {Null} \cup DOMAIN files
       /\ call[t].at \notin {"lookup", "no_descriptor"} =>
            call[t].fd \in DOMAIN virtual_files
       /\ call[t].at \in {"fclose", "reset"} => call[t].op = "close"
       /\ call[t].at \in {"fopen", "assign", "return", "fread"} => call[t].op = "read"

\* Threads on one descriptor share it, and race if one of them closes it.
UsersInv ==
  \A t, u \in Threads :
    t # u /\ call[t] # NoCall /\ call[u] # NoCall /\ call[t].fd = call[u].fd =>
      /\ call[t].fd \in shared
      /\ "close" \in {call[t].op, call[u].op} => call[t].fd \in raced

\* Where a thread is when nobody shares its descriptor.
Alone(t) ==
  LET opened == virtual_files[call[t].fd].opened_file IN
  /\ call[t].at \in {"fopen", "assign"} => ~opened.set
  /\ call[t].at \in {"return", "fread", "fclose"} =>
       opened.set /\ opened.file = call[t].file
  /\ call[t].at = "reset" =>
       \A f \in DOMAIN files : files[f].open => files[f].fd # call[t].fd

AloneInv ==
  \A t \in Threads : call[t] # NoCall /\ call[t].fd \notin shared => Alone(t)

\* OpenFilesAreFound, by the descriptor that the FILE was opened for.
FoundInv ==
  \A f \in DOMAIN files : files[f].open =>
    \/ files[f].fd \notin DOMAIN virtual_files \/ files[f].fd \in shared
    \/ virtual_files[files[f].fd].opened_file = [set |-> TRUE, file |-> f]
    \/ \E t \in Threads :
         At(t, "read", "assign") /\ call[t].file = f /\ call[t].fd = files[f].fd

\* An open FILE of descriptor fd.
Owned(f, fd) == files[f].open /\ files[f].fd = fd

\* What a thread holds while no descriptor has been closed in use.
Holds(t) ==
  LET f == call[t].file
      fd == call[t].fd IN
  /\ call[t].at \in {"assign", "fread", "fclose"} /\ f # Null => Owned(f, fd)
  /\ call[t].at = "return" => Opened(t).set
  /\ call[t].at = "assign" /\ f # Null /\ fd \notin shared => files[f].position = 0

\* What a descriptor leads to then: until the thread that closes it has come to the
\* reset, to a FILE of its own that stands where the descriptor has read up to.
Leads(fd) ==
  LET opened == virtual_files[fd].opened_file
      hasFile == opened.set /\ opened.file # Null
  IN
  \/ \E t \in Threads : At(t, "close", "reset") /\ call[t].fd = fd
  \/ /\ hasFile => Owned(opened.file, fd)
     /\ hasFile /\ fd \notin shared => Len(stream[fd]) = files[opened.file].position
     /\ ~hasFile /\ fd \notin shared => Len(stream[fd]) = 0

HoldsInv == raced = {} => \A t \in Threads : call[t] # NoCall => Holds(t)
LeadsInv == raced = {} => \A fd \in DOMAIN virtual_files : Leads(fd)

Inv ==
  /\ TypeOK /\ GrantInv /\ LatestGrantStands
  /\ FilesInv /\ UsersInv /\ AloneInv /\ FoundInv
  /\ HoldsInv /\ LeadsInv
  /\ ReadsOwnFile /\ StreamInOrder

-------------------------------------------------------------------------------
THEOREM InitInv == Init => Inv
<1> SUFFICES ASSUME Init PROVE Inv
  OBVIOUS
<1>1. TypeOK
  BY FilesOK DEF Init, TypeOK, FirstFd
<1>2. GrantInv /\ LatestGrantStands
  BY DEF Init, GrantInv, LatestGrantStands, FirstFd
<1>3. FilesInv /\ ReadsOwnFile /\ StreamInOrder
  BY DEF Init, FilesInv, ReadsOwnFile, StreamInOrder
<1>4. UsersInv /\ AloneInv /\ FoundInv
  BY DEF Init, UsersInv, AloneInv, FoundInv
<1>5. HoldsInv /\ LeadsInv
  BY DEF Init, HoldsInv, LeadsInv
<1> QED
  BY <1>1, <1>2, <1>3, <1>4, <1>5 DEF Inv

\* A mapping takes a descriptor that no call and no FILE has ever had.
LEMMA AllowPreserves ==
  ASSUME Inv, NEW path \in VirtualPaths, NEW real \in RealPaths,
         AllowFileReadAccess(path, real)
  PROVE  Inv'
<1> DEFINE fd == last_file_descriptor + 1
<1> USE FilesOK
<1>0. fd \in Descriptors /\ fd \notin DOMAIN granted /\ fd \notin DOMAIN virtual_files
  BY DEF Inv, TypeOK, GrantInv, LatestGrantStands, AllowFileReadAccess, Descriptors, FirstFd
<1>a. /\ DOMAIN virtual_files' = Kept(path) \cup {fd}
      /\ virtual_files'[fd] = [virtual_path |-> path, real_path |-> real,
                               opened_file |-> Unopened]
      /\ \A d \in Kept(path) : d # fd /\ virtual_files'[d] = virtual_files[d]
      /\ Kept(path) \subseteq DOMAIN virtual_files
  BY <1>0 DEF AllowFileReadAccess, Kept
<1>b. /\ DOMAIN granted' = DOMAIN granted \cup {fd}
      /\ granted'[fd] = [virtual_path |-> path, real_path |-> real]
      /\ \A d \in DOMAIN granted : granted'[d] = granted[d]
  BY <1>0 DEF AllowFileReadAccess, Set
<1>c. /\ DOMAIN virtual_file_map' = DOMAIN virtual_file_map \cup {path}
      /\ virtual_file_map'[path] = fd
      /\ \A p \in DOMAIN virtual_file_map \ {path} : virtual_file_map'[p] = virtual_file_map[p]
  BY DEF AllowFileReadAccess, Set
<1>d. UNCHANGED <<files, call, stream, opens, shared, raced>> /\ \A t \in Threads : call[t] = NoCall
  BY DEF AllowFileReadAccess, history
<1>e. last_file_descriptor' = fd
  BY DEF AllowFileReadAccess
<1>1. TypeOK'
  <2>1. Unopened \in [set: BOOLEAN, file: 0..MaxFiles]
    BY DEF Unopened, Null
  <2>2. last_file_descriptor' \in Nat /\ last_file_descriptor' >= FirstFd - 1
    BY <1>e DEF Inv, TypeOK, FirstFd
  <2>3. DOMAIN virtual_files' \subseteq Descriptors
    BY <1>0, <1>a DEF Inv, TypeOK
  <2>4. \A d \in DOMAIN virtual_files' : virtual_files'[d] \in Infos
    BY <1>a, <2>1 DEF Inv, TypeOK, Infos
  <2>5. /\ DOMAIN virtual_file_map' \subseteq VirtualPaths
        /\ \A p \in DOMAIN virtual_file_map' : virtual_file_map'[p] \in Descriptors
    BY <1>0, <1>c DEF Inv, TypeOK
  <2>6. /\ DOMAIN granted' \subseteq Descriptors
        /\ \A d \in DOMAIN granted' :
             granted'[d] \in [virtual_path: VirtualPaths, real_path: RealPaths]
    BY <1>0, <1>b DEF Inv, TypeOK
  <2> QED
    BY <1>d, <2>2, <2>3, <2>4, <2>5, <2>6 DEF Inv, TypeOK
<1>2. \A d \in DOMAIN virtual_files :
        d \in Kept(path) <=> granted[d].virtual_path # path
  BY DEF Inv, Kept, GrantInv, LatestGrantStands
<1>3. GrantInv'
  <2>1. DOMAIN granted' = FirstFd..last_file_descriptor'
    BY <1>b, <1>e DEF Inv, GrantInv, TypeOK, FirstFd
  <2>2. \A d \in DOMAIN virtual_files' : granted'[d].virtual_path \in DOMAIN virtual_file_map'
    BY <1>a, <1>b, <1>c DEF Inv, GrantInv, LatestGrantStands
  <2>3. \A p \in DOMAIN virtual_file_map' : granted'[virtual_file_map'[p]].virtual_path = p
    BY <1>a, <1>b, <1>c DEF Inv, GrantInv, LatestGrantStands
  <2> QED
    BY <2>1, <2>2, <2>3 DEF GrantInv
<1>4. LatestGrantStands'
  <2>1. ASSUME NEW d \in DOMAIN granted'
        PROVE  d \in DOMAIN virtual_files' <=>
                 \A later \in DOMAIN granted' :
                   later > d => granted'[later].virtual_path # granted'[d].virtual_path
    <3>1. CASE d = fd
      <4>1. \A later \in DOMAIN granted' : ~(later > fd)
        BY <1>0, <1>b DEF Inv, GrantInv, TypeOK, Descriptors, FirstFd
      <4> QED
        BY <3>1, <4>1, <1>a
    <3>2. CASE d # fd
      <4>1. d \in DOMAIN granted /\ fd > d
        BY <3>2, <1>b DEF Inv, GrantInv, TypeOK, FirstFd
      <4>2. d \in DOMAIN virtual_files' <=>
              d \in DOMAIN virtual_files /\ granted[d].virtual_path # path
        BY <3>2, <1>2, <1>a
      <4>3. d \in DOMAIN virtual_files <=>
              \A later \in DOMAIN granted :
                later > d => granted[later].virtual_path # granted[d].virtual_path
        BY <4>1 DEF Inv, LatestGrantStands
      <4> QED
        BY <4>1, <4>2, <4>3, <1>b
    <3> QED
      BY <3>1, <3>2
  <2>2. ASSUME NEW d \in DOMAIN virtual_files'
        PROVE  /\ d \in DOMAIN granted'
               /\ virtual_files'[d].real_path = granted'[d].real_path
               /\ virtual_file_map'[granted'[d].virtual_path] = d
    <3>1. CASE d = fd
      BY <3>1, <1>a, <1>b, <1>c
    <3>2. CASE d # fd
      <4>1. d \in Kept(path) /\ d \in DOMAIN virtual_files /\ d \in DOMAIN granted
        BY <3>2, <1>a DEF Inv, LatestGrantStands
      <4>2. granted[d].virtual_path \in DOMAIN virtual_file_map \ {path}
        BY <4>1, <1>2 DEF Inv, GrantInv
      <4> QED
        BY <4>1, <4>2, <1>a, <1>b, <1>c DEF Inv, LatestGrantStands
    <3> QED
      BY <3>1, <3>2
  <2>3. \A p \in DOMAIN virtual_file_map' : virtual_file_map'[p] \in DOMAIN virtual_files'
    <3>1. \A p \in DOMAIN virtual_file_map \ {path} :
            /\ virtual_file_map[p] \in DOMAIN virtual_files
            /\ granted[virtual_file_map[p]].virtual_path # path
      BY DEF Inv, GrantInv, LatestGrantStands
    <3> QED
      BY <3>1, <1>2, <1>a, <1>c
  <2> QED
    BY <2>1, <2>2, <2>3 DEF LatestGrantStands
<1>5. FilesInv'
  <2>1. \A d \in DOMAIN virtual_files' :
          virtual_files'[d].opened_file.file \in {Null} \cup DOMAIN files
    BY <1>a DEF Inv, FilesInv, Unopened
  <2> QED
    BY <1>b, <1>d, <2>1 DEF Inv, FilesInv
<1>6. ReadsOwnFile'
  BY <1>b, <1>d DEF Inv, ReadsOwnFile
<1>7. UsersInv' /\ AloneInv' /\ HoldsInv'
  BY <1>d DEF UsersInv, AloneInv, HoldsInv
<1>8. LeadsInv'
  <2> SUFFICES ASSUME raced = {}, NEW d \in DOMAIN virtual_files' PROVE Leads(d)'
    BY <1>d DEF LeadsInv
  <2>1. CASE d = fd
    <3>1. Len(stream[fd]) = 0
      <4> DEFINE s == stream[fd]
      <4>1. s \in Seq(RealPaths \X Nat)
        BY <1>0 DEF Inv, TypeOK
      <4>2. DOMAIN s = {}
        BY <1>0 DEF Inv, ReadsOwnFile
      <4> HIDE DEF s
      <4>3. DOMAIN s = 1..Len(s) /\ Len(s) \in Nat
        BY <4>1
      <4>4. 1 \notin DOMAIN s
        BY <4>2
      <4>5. Len(s) = 0
        BY <4>3, <4>4
      <4> QED
        BY <4>5 DEF s
    <3> QED
      BY <1>a, <1>d, <2>1, <3>1 DEF Leads, Unopened
  <2>2. CASE d # fd
    <3>1. d \in DOMAIN virtual_files /\ virtual_files'[d] = virtual_files[d]
      BY <1>a, <2>2
    <3>2. Leads(d) /\ \A t \in Threads : ~At(t, "close", "reset")
      BY <1>d, <3>1 DEF Inv, LeadsInv, At
    <3> QED
      BY <1>d, <3>1, <3>2 DEF Leads, Owned
  <2> QED
    BY <2>1, <2>2
<1>9. StreamInOrder'
  BY <1>d DEF Inv, StreamInOrder
<1>10. FoundInv'
  <2>1. \A f \in DOMAIN files : files[f].fd # fd
    BY <1>0 DEF Inv, FilesInv
  <2> QED
    BY <1>a, <1>d, <2>1 DEF Inv, FoundInv, At
<1> QED
  BY <1>1, <1>3, <1>4, <1>5, <1>6, <1>7, <1>8, <1>9, <1>10 DEF Inv

-------------------------------------------------------------------------------
(* Steps that change nothing but the call of one thread *)

LEMMA BeginPreserves ==
  ASSUME Inv, NEW t \in Threads, NEW op \in {"read", "close"},
         NEW fd \in Descriptors, NEW iovecs \in 0..MaxIov,
         Begin(t, op, fd, iovecs)
  PROVE  Inv'
<1> USE FilesOK
<1> DEFINE c == [op |-> op, fd |-> fd, at |-> "lookup", file |-> Null, left |-> iovecs]
<1>a. UNCHANGED <<mapVars, files, stream, opens>> /\ call[t] = NoCall
  BY DEF Begin
<1>b. /\ DOMAIN call' = Threads
      /\ call'[t] = c
      /\ \A u \in Threads : u # t => call'[u] = call[u]
  BY DEF Begin, Inv, TypeOK
<1>c. /\ shared \subseteq shared' /\ raced \subseteq raced'
      /\ \A u \in Threads : call[u] # NoCall /\ call[u].fd = fd => fd \in shared'
      /\ \A u \in Threads : call[u] # NoCall /\ call[u].fd = fd =>
           ("close" \in {op, call[u].op} => fd \in raced')
  BY DEF Begin, Users
<1>d. shared' \subseteq Descriptors /\ raced' \subseteq shared'
  BY DEF Begin, Users, Inv, TypeOK
<1>1. TypeOK'
  <2>1. c \in Calls
    BY DEF Calls, Points, Null
  <2>2. call' \in [Threads -> Calls \cup {NoCall}]
    BY <2>1 DEF Begin, Inv, TypeOK
  <2> QED
    BY <1>a, <1>d, <2>2 DEF Inv, TypeOK, mapVars
<1>2. GrantInv' /\ LatestGrantStands'
  BY <1>a DEF Inv, GrantInv, LatestGrantStands, mapVars
<1>3. ReadsOwnFile' /\ StreamInOrder'
  BY <1>a, <1>c DEF Inv, ReadsOwnFile, StreamInOrder, mapVars
<1>4. FilesInv'
  BY <1>a, <1>b DEF Inv, FilesInv, mapVars
<1>5. UsersInv'
  BY <1>b, <1>c DEF Inv, UsersInv
<1>6. AloneInv'
  <2>1. Alone(t)'
    BY <1>b DEF Alone
  <2>2. \A u \in Threads : u # t /\ Alone(u) => Alone(u)'
    BY <1>a, <1>b DEF Alone, mapVars
  <2> QED
    BY <1>b, <1>c, <2>1, <2>2 DEF Inv, AloneInv
<1>7. FoundInv'
  BY <1>a, <1>b, <1>c DEF Inv, FoundInv, At, mapVars
<1>8. HoldsInv'
  <2>1. Holds(t)'
    BY <1>b DEF Holds
  <2>2. \A u \in Threads : u # t /\ Holds(u) => Holds(u)'
    BY <1>a, <1>b, <1>c DEF Holds, Owned, Opened, mapVars
  <2> QED
    BY <1>b, <1>c, <2>1, <2>2 DEF Inv, HoldsInv
<1>9. LeadsInv'
  <2>1. \A u \in Threads : At(u, "close", "reset") => u # t /\ At(u, "close", "reset")'
    BY <1>a, <1>b DEF At
  <2>2. ASSUME NEW d \in DOMAIN virtual_files, Leads(d)
        PROVE  Leads(d)'
    BY <1>a, <1>b, <1>c, <2>1, <2>2 DEF Leads, Owned, mapVars
  <2> QED
    BY <1>a, <1>c, <2>2 DEF Inv, LeadsInv, mapVars
<1> QED
  BY <1>1, <1>2, <1>3, <1>4, <1>5, <1>6, <1>7, <1>8, <1>9 DEF Inv

\* A call that moves on without touching what is shared, from a point other than
\* those that others' facts speak of.
LEMMA CallStepPreserves ==
  ASSUME Inv, NEW t \in Threads, NEW c \in Calls \cup {NoCall},
         UNCHANGED <<mapVars, files, history>>,
         call[t] # NoCall, call[t].at \notin {"assign", "reset"},
         call' = [call EXCEPT ![t] = c],
         c # NoCall =>
           /\ c.fd = call[t].fd /\ c.op = call[t].op
           /\ c.file \in {Null} \cup DOMAIN files
           /\ c.at \notin {"lookup", "no_descriptor"} => c.fd \in DOMAIN virtual_files
           /\ c.at \in {"fclose", "reset"} => c.op = "close"
           /\ c.at \in {"fopen", "assign", "return", "fread"} => c.op = "read"
           /\ c.fd \notin shared => Alone(t)'
           /\ raced = {} => Holds(t)'
  PROVE  Inv'
<1> USE FilesOK
<1>a. UNCHANGED <<last_file_descriptor, virtual_files, virtual_file_map, granted, files,
                  stream, opens, shared, raced>>
  BY DEF mapVars, history
<1>b. /\ DOMAIN call' = Threads
      /\ call'[t] = c
      /\ \A u \in Threads : u # t => call'[u] = call[u]
  BY DEF Inv, TypeOK
<1>1. TypeOK'
  <2>1. call' \in [Threads -> Calls \cup {NoCall}]
    BY DEF Inv, TypeOK
  <2> QED
    BY <1>a, <2>1 DEF Inv, TypeOK
<1>2. GrantInv' /\ LatestGrantStands'
  BY <1>a DEF Inv, GrantInv, LatestGrantStands
<1>3. ReadsOwnFile' /\ StreamInOrder'
  BY <1>a DEF Inv, ReadsOwnFile, StreamInOrder
<1>4. FilesInv'
  BY <1>a, <1>b DEF Inv, FilesInv
<1>5. UsersInv'
  BY <1>a, <1>b DEF Inv, UsersInv
<1>6. AloneInv'
  <2>1. \A u \in Threads : u # t /\ Alone(u) => Alone(u)'
    BY <1>a, <1>b DEF Alone
  <2> QED
    BY <1>a, <1>b, <2>1 DEF Inv, AloneInv
<1>7. FoundInv'
  <2>1. \A u \in Threads : At(u, "read", "assign") => u # t /\ call'[u] = call[u]
    BY <1>b DEF At
  <2> QED
    BY <1>a, <2>1 DEF Inv, FoundInv, At
<1>8. HoldsInv'
  <2>1. \A u \in Threads : u # t /\ Holds(u) => Holds(u)'
    BY <1>a, <1>b DEF Holds, Owned, Opened
  <2> QED
    BY <1>a, <1>b, <2>1 DEF Inv, HoldsInv
<1>9. LeadsInv'
  <2>1. \A u \in Threads : At(u, "close", "reset") => u # t /\ call'[u] = call[u]
    BY <1>b DEF At
  <2>2. ASSUME NEW d \in DOMAIN virtual_files, Leads(d)
        PROVE  Leads(d)'
    BY <1>a, <2>1, <2>2 DEF Leads, Owned, At
  <2> QED
    BY <1>a, <2>2 DEF Inv, LeadsInv
<1> QED
  BY <1>1, <1>2, <1>3, <1>4, <1>5, <1>6, <1>7, <1>8, <1>9 DEF Inv

\* While no descriptor is closed in use, a set opened_file that a thread comes upon
\* is a FILE of the descriptor: nobody is closing it.
LEMMA OpenedIsOwned ==
  ASSUME Inv, NEW t \in Threads, call[t] # NoCall, call[t].at # "reset",
         call[t].fd \in DOMAIN virtual_files, Opened(t).set, Opened(t).file # Null,
         raced = {}
  PROVE  Owned(Opened(t).file, call[t].fd)
<1>1. ASSUME NEW u \in Threads, At(u, "close", "reset"), call[u].fd = call[t].fd
      PROVE  FALSE
  BY <1>1 DEF At, Inv, UsersInv
<1> QED
  BY <1>1 DEF Inv, LeadsInv, Leads, Opened

LEMMA ThrowPreserves ==
  ASSUME Inv, NEW t \in Threads, Throw(t)
  PROVE  Inv'
<1> DEFINE c == [call[t] EXCEPT !.at = "no_descriptor"]
<1>1. call[t] \in Calls /\ call[t] # NoCall /\ call[t].at = "lookup"
  BY DEF Throw, Inv, TypeOK
<1>2. /\ c \in Calls /\ c.fd = call[t].fd /\ c.op = call[t].op /\ c.file = call[t].file
      /\ c.at = "no_descriptor"
  BY <1>1 DEF Calls, Points, Faults
<1>3. call' = [call EXCEPT ![t] = c]
  BY DEF Throw, Goto
<1>4. Alone(t)' /\ Holds(t)'
  <2>1. call'[t].at = "no_descriptor"
    BY <1>2, <1>3 DEF Inv, TypeOK
  <2> QED
    BY <2>1 DEF Alone, Holds
<1>5. c.file \in {Null} \cup DOMAIN files
  BY <1>1, <1>2 DEF Inv, FilesInv
<1>6. UNCHANGED <<mapVars, files, history>>
  BY DEF Throw
<1> HIDE DEF c
<1> QED
  BY <1>1, <1>2, <1>3, <1>4, <1>5, <1>6, CallStepPreserves

LEMMA LookUpPreserves ==
  ASSUME Inv, NEW t \in Threads, LookUp(t)
  PROVE  Inv'
<1> USE FilesOK
<1> DEFINE o == Opened(t)
<1>1. /\ call[t] \in Calls /\ call[t].fd \in DOMAIN virtual_files
      /\ call[t] # NoCall /\ call[t].at = "lookup"
      /\ o.set \in BOOLEAN /\ o.file \in 0..MaxFiles
      /\ o.file \in {Null} \cup DOMAIN files
      /\ UNCHANGED <<mapVars, files, history>>
  BY DEF LookUp, Opened, Inv, TypeOK, Infos, FilesInv
<1>2. CASE o.set /\ call' = [call EXCEPT ![t].file = o.file,
                               ![t].at = IF call[t].op = "read" THEN "fread" ELSE "fclose"]
  <2> DEFINE c == [call[t] EXCEPT !.file = o.file,
                     !.at = IF call[t].op = "read" THEN "fread" ELSE "fclose"]
  <2>1. /\ c \in Calls /\ c.fd = call[t].fd /\ c.file = o.file /\ c.op = call[t].op
        /\ \/ c.at = "fread" /\ c.op = "read"
           \/ c.at = "fclose" /\ c.op = "close"
    <3> DEFINE at == IF call[t].op = "read" THEN "fread" ELSE "fclose"
    <3>1. /\ at \in Points
          /\ \/ at = "fread" /\ call[t].op = "read"
             \/ at = "fclose" /\ call[t].op = "close"
      BY <1>1 DEF Calls, Points
    <3> HIDE DEF at
    <3>2. c = [call[t] EXCEPT !.file = o.file, !.at = at]
      BY DEF at
    <3> QED
      BY <1>1, <3>1, <3>2 DEF Calls
  <2>2. call' = [call EXCEPT ![t] = c]
    BY <1>1, <1>2
  <2>3. call'[t] = c /\ UNCHANGED <<virtual_files, files>>
    BY <1>1, <2>2 DEF Inv, TypeOK, mapVars
  <2> HIDE DEF c
  <2>4. Alone(t)'
    BY <1>1, <1>2, <2>1, <2>3 DEF Alone, Opened
  <2>5. raced = {} => Holds(t)'
    <3>1. raced = {} /\ o.file # Null => Owned(o.file, call[t].fd)
      BY <1>1, <1>2, OpenedIsOwned
    <3> QED
      BY <2>1, <2>3, <3>1 DEF Holds, Owned
  <2> QED
    BY <1>1, <2>1, <2>2, <2>4, <2>5, CallStepPreserves
<1>3. CASE ~o.set /\ call[t].op = "read" /\ Goto(t, "fopen")
  <2> DEFINE c == [call[t] EXCEPT !.at = "fopen"]
  <2>1. /\ c \in Calls /\ c.fd = call[t].fd /\ c.file = call[t].file /\ c.at = "fopen"
        /\ c.op = "read"
    BY <1>1, <1>3 DEF Calls, Points
  <2>2. call' = [call EXCEPT ![t] = c]
    BY <1>3 DEF Goto
  <2>3. Alone(t)' /\ Holds(t)'
    <3>1. call'[t].at = "fopen" /\ call'[t].fd = call[t].fd /\ UNCHANGED virtual_files
      BY <1>1, <2>1, <2>2 DEF Inv, TypeOK, mapVars
    <3> QED
      BY <1>3, <3>1 DEF Alone, Holds, Opened
  <2>4. c.file \in {Null} \cup DOMAIN files
    BY <1>1, <2>1 DEF Inv, FilesInv
  <2> HIDE DEF c
  <2> QED
    BY <1>1, <1>3, <2>1, <2>2, <2>3, <2>4, CallStepPreserves
<1>4. CASE End(t)
  BY <1>1, <1>4, CallStepPreserves DEF End
<1> QED
  BY <1>2, <1>3, <1>4 DEF LookUp

LEMMA ReturnOpenedPreserves ==
  ASSUME Inv, NEW t \in Threads, ReturnOpened(t)
  PROVE  Inv'
<1> USE FilesOK
<1> DEFINE o == Opened(t)
           c == [call[t] EXCEPT !.at = "fread", !.file = o.file]
<1>1. /\ call[t] \in Calls /\ call[t].fd \in DOMAIN virtual_files
      /\ call[t] # NoCall /\ call[t].at = "return" /\ call[t].op = "read"
      /\ o.file \in 0..MaxFiles
      /\ o.file \in {Null} \cup DOMAIN files
      /\ UNCHANGED <<mapVars, files, history>>
  BY DEF ReturnOpened, At, Opened, Inv, TypeOK, Infos, FilesInv
<1>2. c \in Calls /\ c.fd = call[t].fd /\ c.file = o.file /\ c.at = "fread" /\ c.op = "read"
  BY <1>1 DEF Calls, Points
<1>3. call' = [call EXCEPT ![t] = c]
  BY DEF ReturnOpened
<1>4. call'[t] = c /\ UNCHANGED <<virtual_files, files, shared, raced>>
  BY <1>1, <1>3 DEF Inv, TypeOK, mapVars, history
<1> HIDE DEF c
<1>5. c.fd \notin shared => Alone(t)'
  <2>1. call[t].fd \notin shared => o.set
    BY <1>1 DEF Inv, AloneInv, Alone, Opened
  <2> QED
    BY <1>1, <1>2, <1>4, <2>1 DEF Alone, Opened
<1>6. raced = {} => Holds(t)'
  <2>1. raced = {} => o.set
    BY <1>1 DEF Inv, HoldsInv, Holds
  <2>2. raced = {} /\ o.file # Null => Owned(o.file, call[t].fd)
    BY <1>1, <2>1, OpenedIsOwned
  <2> QED
    BY <1>2, <1>4, <2>2 DEF Holds, Owned
<1> QED
  BY <1>1, <1>2, <1>3, <1>5, <1>6, CallStepPreserves

LEMMA EndReadPreserves ==
  ASSUME Inv, NEW t \in Threads, EndRead(t)
  PROVE  Inv'
BY CallStepPreserves DEF EndRead, End, At

LEMMA UseNullFilePreserves ==
  ASSUME Inv, NEW t \in Threads, UseNullFile(t)
  PROVE  Inv'
<1> USE FilesOK
<1> DEFINE c == [call[t] EXCEPT !.at = "null_file"]
<1>1. /\ call[t] \in Calls /\ call[t] # NoCall /\ call[t].at \in {"fread", "fclose"}
      /\ call[t].fd \in DOMAIN virtual_files
      /\ call[t].file \in {Null} \cup DOMAIN files
      /\ UNCHANGED <<mapVars, files, history>>
  BY DEF UseNullFile, UsesFile, At, Inv, TypeOK, FilesInv
<1>2. /\ c \in Calls /\ c.fd = call[t].fd /\ c.op = call[t].op /\ c.file = call[t].file
      /\ c.at = "null_file"
  BY <1>1 DEF Calls, Points, Faults
<1>3. call' = [call EXCEPT ![t] = c]
  BY DEF UseNullFile, Goto
<1> HIDE DEF c
<1>4. Alone(t)' /\ Holds(t)'
  <2>1. call'[t].at = "null_file"
    BY <1>2, <1>3 DEF Inv, TypeOK
  <2> QED
    BY <2>1 DEF Alone, Holds
<1> QED
  BY <1>1, <1>2, <1>3, <1>4, CallStepPreserves

\* Only after a descriptor was closed in use.
LEMMA UseClosedFilePreserves ==
  ASSUME Inv, NEW t \in Threads, UseClosedFile(t)
  PROVE  Inv'
<1> USE FilesOK
<1> DEFINE f == call[t].file
<1>1. /\ call[t] \in Calls /\ call[t] # NoCall /\ call[t].at \in {"fread", "fclose"}
      /\ call[t].fd \in DOMAIN virtual_files
      /\ f # Null /\ f \in DOMAIN files /\ ~files[f].open
      /\ At(t, "close", "fclose") \/ (At(t, "read", "fread") /\ call[t].left > 0)
      /\ UNCHANGED <<mapVars, files, history>>
  <2>1. /\ f # Null /\ ~files[f].open /\ UNCHANGED <<mapVars, files, history>>
        /\ UsesFile(t)
    BY DEF UseClosedFile
  <2>2. call[t] \in Calls /\ call[t] # NoCall /\ call[t].at \in {"fread", "fclose"}
    BY <2>1 DEF UsesFile, At, Inv, TypeOK
  <2>3. call[t].fd \in DOMAIN virtual_files /\ f \in DOMAIN files
    BY <2>1, <2>2 DEF Inv, FilesInv
  <2> QED
    BY <2>1, <2>2, <2>3 DEF UsesFile
<1>2. raced # {}
  BY <1>1 DEF Inv, HoldsInv, Holds, Owned
<1>3. CASE Goto(t, "closed_file")
  <2> DEFINE c == [call[t] EXCEPT !.at = "closed_file"]
  <2>1. /\ c \in Calls /\ c.fd = call[t].fd /\ c.op = call[t].op /\ c.file = f
        /\ c.at = "closed_file"
    BY <1>1 DEF Calls, Points, Faults
  <2>2. call' = [call EXCEPT ![t] = c]
    BY <1>3 DEF Goto
  <2> HIDE DEF c
  <2>3. Alone(t)'
    <3>1. call'[t].at = "closed_file"
      BY <2>1, <2>2 DEF Inv, TypeOK
    <3> QED
      BY <3>1 DEF Alone
  <2> QED
    BY <1>1, <1>2, <2>1, <2>2, <2>3, CallStepPreserves
<1>4. CASE call[t].op = "read" /\ call' = [call EXCEPT ![t].left = @ - 1]
  <2> DEFINE c == [call[t] EXCEPT !.left = @ - 1]
  <2>0. call[t].at = "fread" /\ call[t].left > 0
    BY <1>1, <1>4 DEF At
  <2>1. /\ c \in Calls /\ c.fd = call[t].fd /\ c.op = "read" /\ c.file = f
        /\ c.at = "fread"
    BY <1>1, <1>4, <2>0 DEF Calls
  <2>2. call' = [call EXCEPT ![t] = c]
    BY <1>4
  <2> HIDE DEF c
  <2>3. c.fd \notin shared => Alone(t)'
    <3>1. call'[t] = c /\ UNCHANGED virtual_files
      BY <1>1, <2>2 DEF Inv, TypeOK, mapVars
    <3>2. c.fd \notin shared =>
            virtual_files[c.fd].opened_file.set /\ virtual_files[c.fd].opened_file.file = f
      BY <1>1, <2>0, <2>1 DEF Inv, AloneInv, Alone
    <3> QED
      BY <2>1, <3>1, <3>2 DEF Alone
  <2> QED
    BY <1>1, <1>2, <1>4, <2>0, <2>1, <2>2, <2>3, CallStepPreserves
<1>5. CASE call[t].op = "close" /\ Goto(t, "reset")
  <2> DEFINE c == [call[t] EXCEPT !.at = "reset"]
  <2>0. call[t].at = "fclose"
    BY <1>1, <1>5 DEF At
  <2>1. /\ c \in Calls /\ c.fd = call[t].fd /\ c.op = "close" /\ c.file = f
        /\ c.at = "reset"
    BY <1>1, <1>5 DEF Calls, Points
  <2>2. call' = [call EXCEPT ![t] = c]
    BY <1>5 DEF Goto
  <2> HIDE DEF c
  <2>3. c.fd \notin shared => Alone(t)'
    <3>1. call'[t] = c /\ UNCHANGED <<virtual_files, files>>
      BY <1>1, <2>2 DEF Inv, TypeOK, mapVars
    <3>2. ASSUME call[t].fd \notin shared, NEW g \in DOMAIN files,
                 files[g].open, files[g].fd = call[t].fd
          PROVE  FALSE
      <4>1. virtual_files[call[t].fd].opened_file.file = f
        BY <1>1, <2>0, <3>2 DEF Inv, AloneInv, Alone
      <4>2. virtual_files[call[t].fd].opened_file # [set |-> TRUE, file |-> g]
        BY <1>1, <3>2, <4>1
      <4>3. PICK u \in Threads : At(u, "read", "assign") /\ call[u].fd = call[t].fd
        BY <1>1, <3>2, <4>2 DEF Inv, FoundInv
      <4> QED
        BY <1>1, <2>0, <3>2, <4>3 DEF At, Inv, UsersInv
    <3> QED
      BY <2>1, <3>1, <3>2 DEF Alone
  <2>4. /\ call[t].at \notin {"assign", "reset"} /\ c.file \in {Null} \cup DOMAIN files
        /\ c.fd \in DOMAIN virtual_files
    BY <1>1, <2>0, <2>1
  <2> HIDE DEF f
  <2> QED
    BY <1>1, <1>2, <1>5, <2>1, <2>2, <2>3, <2>4, CallStepPreserves
<1> QED
  BY <1>3, <1>4, <1>5 DEF UseClosedFile

-------------------------------------------------------------------------------
(* Steps that change files and what descriptors lead to *)

\* A sequence with one element put at a place of it, or just after it.
LEMMA SetInSeq ==
  ASSUME NEW S, NEW s \in Seq(S), NEW n \in 1..(Len(s) + 1), NEW v \in S,
         NEW r, r = Set(s, n, v)
  PROVE  r \in Seq(S) /\ Len(r) <= Len(s) + 1
<1>1. Len(s) \in Nat /\ s \in [1..Len(s) -> S] /\ DOMAIN s = 1..Len(s)
  BY LenProperties
<1>2. /\ DOMAIN r = 1..Len(s) \cup {n} /\ r[n] = v
      /\ \A i \in 1..Len(s) : i # n => r[i] = s[i]
  BY <1>1 DEF Set
<1>3. PICK m \in Nat : m <= Len(s) + 1 /\ 1..Len(s) \cup {n} = 1..m
  <2>1. CASE n = Len(s) + 1
    <3>1. 1..Len(s) \cup {n} = 1..(Len(s) + 1)
      BY <1>1, <2>1
    <3> QED
      BY <1>1, <3>1
  <2>2. CASE n \in 1..Len(s)
    <3>1. 1..Len(s) \cup {n} = 1..Len(s)
      BY <2>2
    <3> QED
      BY <1>1, <3>1
  <2> QED
    BY <1>1, <2>1, <2>2
<1>4. r \in [1..m -> S]
  <2>1. \A i \in 1..m : r[i] \in S
    BY <1>1, <1>2, <1>3
  <2>2. r = [i \in DOMAIN r |-> r[i]]
    BY DEF Set
  <2> QED
    BY <1>2, <1>3, <2>1, <2>2
<1>5. r \in Seq(S)
  BY <1>4, SeqDef
<1>6. Len(r) = m
  <2>1. DOMAIN r = 1..Len(r) /\ Len(r) \in Nat /\ DOMAIN r = 1..m
    BY <1>4, <1>5, LenProperties
  <2> DEFINE k == Len(r)
  <2> HIDE DEF k
  <2>2. 1..k = 1..m /\ k \in Nat
    BY <2>1 DEF k
  <2>3. ~(k > m) /\ ~(m > k)
    <3>1. k > m => k \in 1..k /\ k \notin 1..m
      BY <2>2
    <3>2. m > k => m \in 1..m /\ m \notin 1..k
      BY <2>2
    <3> QED
      BY <2>2, <3>1, <3>2
  <2> QED
    BY <2>2, <2>3 DEF k
<1> QED
  BY <1>1, <1>2, <1>3, <1>5, <1>6

\* What Goto does to the calls.
LEMMA GotoFacts ==
  ASSUME Inv, NEW t \in Threads, call[t] # NoCall, NEW at \in Points, Goto(t, at)
  PROVE  /\ call' \in [Threads -> Calls \cup {NoCall}]
         /\ call'[t] # NoCall /\ call'[t].at = at
         /\ call'[t].op = call[t].op /\ call'[t].fd = call[t].fd
         /\ call'[t].file = call[t].file
         /\ \A u \in Threads : u # t => call'[u] = call[u]
<1> DEFINE c == [call[t] EXCEPT !.at = at]
<1>1. call[t] \in Calls /\ call \in [Threads -> Calls \cup {NoCall}]
  BY DEF Inv, TypeOK
<1>2. /\ c \in Calls /\ c.op = call[t].op /\ c.fd = call[t].fd
      /\ c.file = call[t].file /\ c.at = at
  BY <1>1 DEF Calls
<1>3. c # NoCall
  BY <1>2, NoCallOK
<1>4. call' = [call EXCEPT ![t] = c]
  BY DEF Goto
<1> HIDE DEF c
<1>5. /\ call'[t] = c /\ call' \in [Threads -> Calls \cup {NoCall}]
      /\ \A u \in Threads : u # t => call'[u] = call[u]
  BY <1>1, <1>2, <1>4
<1> QED
  BY <1>2, <1>3, <1>5

LEMMA FopenPreserves ==
  ASSUME Inv, NEW t \in Threads, Fopen(t)
  PROVE  Inv'
<1> USE FilesOK
<1> DEFINE fd == call[t].fd
           new == [real_path |-> virtual_files[fd].real_path, position |-> 0,
                   open |-> TRUE, fd |-> fd]
<1>0. /\ call[t] \in Calls /\ call[t] # NoCall /\ call[t].at = "fopen" /\ call[t].op = "read"
      /\ fd \in DOMAIN virtual_files /\ fd \in Descriptors
      /\ UNCHANGED <<mapVars, stream, shared, raced>>
  BY DEF Fopen, At, Inv, TypeOK, FilesInv, Calls
<1>1. CASE call' = [call EXCEPT ![t].at = "assign", ![t].file = Null] /\ UNCHANGED <<files, opens>>
  <2> DEFINE c == [call[t] EXCEPT !.at = "assign", !.file = Null]
  <2>1. /\ c \in Calls /\ c.fd = call[t].fd /\ c.file = Null /\ c.at = "assign"
        /\ c.op = "read"
    <3>1. "assign" \in Points /\ Null \in 0..MaxFiles
      BY DEF Points, Null
    <3> QED
      BY <1>0, <3>1 DEF Calls
  <2>2. call' = [call EXCEPT ![t] = c]
    BY <1>1
  <2> HIDE DEF c
  <2>3. call'[t] = c /\ UNCHANGED virtual_files
    BY <1>0, <2>2 DEF Inv, TypeOK, mapVars
  <2>4. c.fd \notin shared => Alone(t)'
    BY <1>0, <2>1, <2>3 DEF Alone, Inv, AloneInv
  <2>5. Holds(t)'
    BY <2>1, <2>3 DEF Holds
  <2>6. UNCHANGED <<mapVars, files, history>>
    BY <1>0, <1>1 DEF history
  <2> QED
    BY <1>0, <2>1, <2>2, <2>4, <2>5, <2>6, CallStepPreserves
<1>2. CASE /\ opens < MaxFiles
           /\ opens' = opens + 1
           /\ \E f \in Unused :
                /\ files' = Set(files, f, new)
                /\ call' = [call EXCEPT ![t].at = "assign", ![t].file = f]
  <2>0. PICK f \in Unused :
          /\ files' = Set(files, f, new)
          /\ call' = [call EXCEPT ![t].at = "assign", ![t].file = f]
    BY <1>2
  <2> DEFINE c == [call[t] EXCEPT !.at = "assign", !.file = f]
  <2>a. UNCHANGED <<last_file_descriptor, virtual_files, virtual_file_map, granted,
                    stream, shared, raced>>
    BY <1>0 DEF mapVars
  <2>f. /\ files \in Seq(FileObjects) /\ Len(files) \in Nat /\ DOMAIN files = 1..Len(files)
        /\ Len(files) <= opens /\ opens \in 0..MaxFiles
        /\ f \in 1..(Len(files) + 1) /\ f # Null /\ f \in 0..MaxFiles
        /\ f \in DOMAIN files => ~files[f].open
    <3>1. files \in Seq(FileObjects) /\ Len(files) <= opens /\ opens \in 0..MaxFiles
      BY DEF Inv, TypeOK
    <3>2. Len(files) \in Nat /\ DOMAIN files = 1..Len(files)
      BY <3>1, LenProperties
    <3> QED
      BY <1>2, <3>1, <3>2 DEF Unused, Null
  <2>b. /\ files' \in Seq(FileObjects) /\ Len(files') <= Len(files) + 1
        /\ Len(files') \in Nat
        /\ DOMAIN files' = DOMAIN files \cup {f}
        /\ files'[f] = new
        /\ \A g \in DOMAIN files : g # f => files'[g] = files[g]
    <3>1. new \in FileObjects
      BY <1>0 DEF FileObjects, Inv, TypeOK, Infos
    <3> HIDE DEF new
    <3>2. files \in Seq(FileObjects) /\ f \in 1..(Len(files) + 1)
      BY <2>f
    <3>3. files' = Set(files, f, new)
      BY <2>0
    <3>4. files' \in Seq(FileObjects) /\ Len(files') <= Len(files) + 1
      BY <3>1, <3>2, <3>3, SetInSeq
    <3>5. Len(files') \in Nat
      BY <3>4, LenProperties
    <3>6. /\ DOMAIN files' = DOMAIN files \cup {f} /\ files'[f] = new
          /\ \A g \in DOMAIN files : g # f => files'[g] = files[g]
      BY <3>3 DEF Set
    <3> QED
      BY <3>4, <3>5, <3>6
  <2>c. /\ c \in Calls /\ c.fd = fd /\ c.op = "read" /\ c.at = "assign" /\ c.file = f
        /\ c # NoCall
    <3>1. "assign" \in Points
      BY DEF Points
    <3>2. c \in Calls /\ c.fd = fd /\ c.op = "read" /\ c.at = "assign" /\ c.file = f
      BY <1>0, <2>f, <3>1 DEF Calls
    <3> QED
      BY <3>2, NoCallOK
  <2>d. call' = [call EXCEPT ![t] = c]
    BY <2>0
  <2> HIDE DEF c
  <2>e. /\ call' \in [Threads -> Calls \cup {NoCall}]
        /\ call'[t] = c
        /\ \A u \in Threads : u # t => call'[u] = call[u]
    BY <2>c, <2>d DEF Inv, TypeOK
  <2>n. new.open /\ new.fd = fd /\ new.position = 0 /\ new.real_path = virtual_files[fd].real_path
    OBVIOUS
  <2> HIDE DEF new
  <2>1. TypeOK'
    <3>1. opens' \in 0..MaxFiles /\ Len(files') <= opens'
      BY <1>2, <2>b, <2>f
    <3> QED
      BY <2>a, <2>b, <2>e, <3>1 DEF Inv, TypeOK
  <2>2. GrantInv' /\ LatestGrantStands' /\ ReadsOwnFile' /\ StreamInOrder'
    BY <2>a DEF Inv, GrantInv, LatestGrantStands, ReadsOwnFile, StreamInOrder
  <2>3. FilesInv'
    <3>1. /\ fd \in DOMAIN granted /\ new.real_path = granted[fd].real_path
          /\ new.real_path \in RealPaths /\ 0 <= Size[new.real_path]
      BY <1>0, <2>n DEF Inv, TypeOK, LatestGrantStands, Infos
    <3>2. \A g \in DOMAIN files' :
            /\ files'[g].fd \in DOMAIN granted
            /\ files'[g].real_path = granted[files'[g].fd].real_path
            /\ files'[g].position <= Size[files'[g].real_path]
      BY <2>b, <2>n, <3>1 DEF Inv, FilesInv
    <3>3. \A d \in DOMAIN virtual_files :
            virtual_files[d].opened_file.file \in {Null} \cup DOMAIN files'
      BY <2>b DEF Inv, FilesInv
    <3>4. ASSUME NEW u \in Threads, call'[u] # NoCall
          PROVE  /\ call'[u].file \in {Null} \cup DOMAIN files'
                 /\ call'[u].at \notin {"lookup", "no_descriptor"} =>
                      call'[u].fd \in DOMAIN virtual_files
                 /\ call'[u].at \in {"fclose", "reset"} => call'[u].op = "close"
                 /\ call'[u].at \in {"fopen", "assign", "return", "fread"} => call'[u].op = "read"
      <4>1. CASE u = t
        BY <1>0, <2>b, <2>c, <2>e, <4>1
      <4>2. CASE u # t
        <5>1. call'[u] = call[u]
          BY <2>e, <4>2
        <5> QED
          BY <2>b, <3>4, <5>1 DEF Inv, FilesInv
      <4> QED
        BY <4>1, <4>2
    <3> QED
      BY <2>a, <3>2, <3>3, <3>4 DEF FilesInv
  <2>4. UsersInv'
    BY <1>0, <2>a, <2>c, <2>e DEF Inv, UsersInv
  <2>5. \A u \in Threads : call[u] # NoCall /\ call[u].fd = fd /\ fd \notin shared => u = t
    BY <1>0 DEF Inv, UsersInv
  <2>6. AloneInv'
    <3>1. fd \notin shared => Alone(t)'
      BY <1>0, <2>a, <2>c, <2>e DEF Alone, Inv, AloneInv
    <3>2. ASSUME NEW u \in Threads, u # t, call[u] # NoCall, call[u].fd \notin shared
          PROVE  Alone(u)'
      <4>1. Alone(u) /\ call'[u] = call[u] /\ call[u].fd # fd
        BY <2>5, <2>e, <3>2 DEF Inv, AloneInv
      <4> QED
        BY <2>a, <2>b, <2>n, <4>1 DEF Alone
    <3> QED
      BY <2>a, <2>c, <2>e, <3>1, <3>2 DEF AloneInv
  <2>7. FoundInv'
    <3>1. ASSUME NEW g \in DOMAIN files', files'[g].open
          PROVE  \/ files'[g].fd \notin DOMAIN virtual_files \/ files'[g].fd \in shared
                 \/ virtual_files[files'[g].fd].opened_file = [set |-> TRUE, file |-> g]
                 \/ \E u \in Threads :
                      At(u, "read", "assign")' /\ call'[u].file = g /\ call'[u].fd = files'[g].fd
      <4>1. CASE g = f
        BY <2>b, <2>c, <2>e, <2>n, <4>1 DEF At
      <4>2. CASE g # f
        <5>1. g \in DOMAIN files /\ files'[g] = files[g]
          BY <2>b, <4>2
        <5>2. \A u \in Threads : At(u, "read", "assign") => call'[u] = call[u]
          BY <1>0, <2>e DEF At
        <5> QED
          BY <3>1, <5>1, <5>2 DEF Inv, FoundInv, At
      <4> QED
        BY <4>1, <4>2
    <3> QED
      BY <2>a, <3>1 DEF FoundInv
  <2>8. \A g, d : g \in {Null} \cup DOMAIN files /\ g # Null /\ Owned(g, d) =>
          g \in DOMAIN files /\ g # f /\ files'[g] = files[g]
    BY <2>b, <2>f DEF Owned
  <2>9. HoldsInv'
    <3>1. Holds(t)'
      BY <2>b, <2>c, <2>e, <2>n DEF Holds, Owned
    <3>2. ASSUME NEW u \in Threads, u # t, call[u] # NoCall, Holds(u)
          PROVE  Holds(u)'
      <4>1. call'[u] = call[u] /\ call[u].file \in {Null} \cup DOMAIN files
        BY <2>e, <3>2 DEF Inv, FilesInv
      <4>2. /\ call[u].at \in {"assign", "fread", "fclose"} /\ call[u].file # Null =>
                 Owned(call[u].file, call[u].fd) /\ files'[call[u].file] = files[call[u].file]
            /\ call[u].at = "return" => Opened(u).set
            /\ call[u].at = "assign" /\ call[u].file # Null /\ call[u].fd \notin shared =>
                 files[call[u].file].position = 0
        BY <2>8, <3>2, <4>1 DEF Holds
      <4> QED
        BY <2>a, <4>1, <4>2 DEF Holds, Owned, Opened
    <3> QED
      BY <2>a, <2>e, <3>1, <3>2 DEF Inv, HoldsInv
  <2>10. LeadsInv'
    <3>1. \A u \in Threads : At(u, "close", "reset") => call'[u] = call[u]
      BY <1>0, <2>e DEF At
    <3>2. ASSUME NEW d \in DOMAIN virtual_files, Leads(d)
          PROVE  Leads(d)'
      <4>1. virtual_files[d].opened_file.file \in {Null} \cup DOMAIN files
        BY DEF Inv, FilesInv
      <4>2. CASE \E u \in Threads : At(u, "close", "reset") /\ call[u].fd = d
        BY <3>1, <4>2 DEF Leads, At
      <4>3. CASE ~\E u \in Threads : At(u, "close", "reset") /\ call[u].fd = d
        <5> DEFINE o == virtual_files[d].opened_file
        <5>1. o.set /\ o.file # Null =>
                Owned(o.file, d) /\ files'[o.file] = files[o.file]
          BY <2>8, <3>2, <4>1, <4>3 DEF Leads
        <5> QED
          BY <2>a, <3>2, <4>3, <5>1 DEF Leads, Owned
      <4> QED
        BY <4>2, <4>3
    <3> QED
      BY <2>a, <3>2 DEF Inv, LeadsInv
  <2> QED
    BY <2>1, <2>2, <2>3, <2>4, <2>6, <2>7, <2>9, <2>10 DEF Inv
<1> QED
  BY <1>1, <1>2 DEF Fopen

\* What Assign does to the descriptors.
LEMMA AssignFacts ==
  ASSUME Inv, NEW t \in Threads, call[t] # NoCall, call[t].fd \in DOMAIN virtual_files,
         NEW o \in [set: BOOLEAN, file: 0..MaxFiles], Assign(t, o)
  PROVE  /\ DOMAIN virtual_files' = DOMAIN virtual_files
         /\ virtual_files'[call[t].fd].opened_file = o
         /\ \A fd \in DOMAIN virtual_files :
              /\ virtual_files'[fd] \in Infos
              /\ virtual_files'[fd].real_path = virtual_files[fd].real_path
              /\ fd # call[t].fd => virtual_files'[fd] = virtual_files[fd]
<1> DEFINE i == [virtual_files[call[t].fd] EXCEPT !.opened_file = o]
<1>1. virtual_files[call[t].fd] \in Infos
  BY DEF Inv, TypeOK
<1>2. i \in Infos /\ i.opened_file = o /\ i.real_path = virtual_files[call[t].fd].real_path
  BY <1>1 DEF Infos
<1>3. virtual_files' = [virtual_files EXCEPT ![call[t].fd] = i]
  BY DEF Assign
<1> HIDE DEF i
<1> QED
  BY <1>2, <1>3 DEF Inv, TypeOK

LEMMA AssignOpenedPreserves ==
  ASSUME Inv, NEW t \in Threads, AssignOpened(t)
  PROVE  Inv'
<1> USE FilesOK
<1> DEFINE fd == call[t].fd
           o == [set |-> TRUE, file |-> call[t].file]
<1>0. /\ call[t] \in Calls /\ call[t] # NoCall /\ call[t].at = "assign" /\ call[t].op = "read"
      /\ fd \in DOMAIN virtual_files /\ fd \in Descriptors
      /\ o \in [set: BOOLEAN, file: 0..MaxFiles]
      /\ UNCHANGED <<last_file_descriptor, virtual_file_map, granted, files, stream, opens,
                     shared, raced>>
  BY DEF AssignOpened, At, Inv, TypeOK, FilesInv, Calls, history
<1>c. o.set /\ o.file = call[t].file
  OBVIOUS
<1>d. Goto(t, "return") /\ Assign(t, o)
  BY DEF AssignOpened
<1> HIDE DEF o
<1>a. /\ call' \in [Threads -> Calls \cup {NoCall}]
      /\ call'[t] # NoCall /\ call'[t].at = "return" /\ call'[t].op = "read"
      /\ call'[t].fd = fd /\ call'[t].file = call[t].file
      /\ \A u \in Threads : u # t => call'[u] = call[u]
  BY <1>0, <1>d, GotoFacts DEF Points
<1>b. /\ DOMAIN virtual_files' = DOMAIN virtual_files
      /\ virtual_files'[fd].opened_file = o
      /\ \A d \in DOMAIN virtual_files :
           /\ virtual_files'[d] \in Infos
           /\ virtual_files'[d].real_path = virtual_files[d].real_path
           /\ d # fd => virtual_files'[d] = virtual_files[d]
  BY <1>0, <1>d, AssignFacts
<1>e. \A u \in Threads : call[u] # NoCall /\ call[u].fd = fd /\ fd \notin shared => u = t
  BY <1>0 DEF Inv, UsersInv
<1>1. TypeOK'
  BY <1>0, <1>a, <1>b DEF Inv, TypeOK
<1>2. GrantInv' /\ LatestGrantStands' /\ ReadsOwnFile' /\ StreamInOrder'
  BY <1>0, <1>b DEF Inv, GrantInv, LatestGrantStands, ReadsOwnFile, StreamInOrder
<1>3. FilesInv'
  <2>1. \A d \in DOMAIN virtual_files' :
          virtual_files'[d].opened_file.file \in {Null} \cup DOMAIN files
    BY <1>0, <1>b, <1>c DEF Inv, FilesInv
  <2>2. \A u \in Threads : call'[u] # NoCall =>
          /\ call'[u].file \in {Null} \cup DOMAIN files
          /\ call'[u].at \notin {"lookup", "no_descriptor"} => call'[u].fd \in DOMAIN virtual_files
          /\ call'[u].at \in {"fclose", "reset"} => call'[u].op = "close"
          /\ call'[u].at \in {"fopen", "assign", "return", "fread"} => call'[u].op = "read"
    BY <1>0, <1>a DEF Inv, FilesInv
  <2> QED
    BY <1>0, <1>b, <2>1, <2>2 DEF Inv, FilesInv
<1>4. UsersInv'
  BY <1>0, <1>a DEF Inv, UsersInv
<1>5. AloneInv'
  <2>1. fd \notin shared => Alone(t)'
    BY <1>0, <1>a, <1>b, <1>c DEF Alone
  <2>2. ASSUME NEW u \in Threads, u # t, call[u] # NoCall, call[u].fd \notin shared
        PROVE  Alone(u)'
    <3>1. call[u].fd # fd /\ Alone(u)
      BY <1>e, <2>2 DEF Inv, AloneInv
    <3>2. call[u].at \notin {"lookup", "no_descriptor"} => call[u].fd \in DOMAIN virtual_files
      BY <2>2 DEF Inv, FilesInv
    <3> QED
      BY <1>0, <1>a, <1>b, <2>2, <3>1, <3>2 DEF Alone
  <2> QED
    BY <1>0, <1>a, <2>1, <2>2 DEF AloneInv
<1>6. FoundInv'
  <2>1. ASSUME NEW f \in DOMAIN files, files[f].open
        PROVE  \/ files[f].fd \notin DOMAIN virtual_files \/ files[f].fd \in shared
               \/ virtual_files'[files[f].fd].opened_file = [set |-> TRUE, file |-> f]
               \/ \E u \in Threads :
                    At(u, "read", "assign")' /\ call'[u].file = f /\ call'[u].fd = files[f].fd
    <3>0. \/ files[f].fd \notin DOMAIN virtual_files \/ files[f].fd \in shared
          \/ virtual_files[files[f].fd].opened_file = [set |-> TRUE, file |-> f]
          \/ \E u \in Threads :
               At(u, "read", "assign") /\ call[u].file = f /\ call[u].fd = files[f].fd
      BY <2>1 DEF Inv, FoundInv
    <3>1. CASE files[f].fd = fd
      <4>1. SUFFICES ASSUME fd \notin shared PROVE call[t].file = f
        BY <1>b, <3>1 DEF o
      <4>2. ~virtual_files[fd].opened_file.set
        BY <1>0, <4>1 DEF Inv, AloneInv, Alone
      <4>3. PICK u \in Threads : At(u, "read", "assign") /\ call[u].file = f /\ call[u].fd = fd
        BY <1>0, <3>0, <3>1, <4>1, <4>2
      <4>4. u = t
        BY <1>e, <4>1, <4>3 DEF At
      <4> QED
        BY <4>3, <4>4
    <3>2. CASE files[f].fd # fd
      BY <1>a, <1>b, <3>0, <3>2 DEF At
    <3> QED
      BY <3>1, <3>2
  <2> QED
    BY <1>0, <1>b, <2>1 DEF FoundInv
<1>7. HoldsInv'
  <2>1. Holds(t)'
    BY <1>a, <1>b, <1>c DEF Holds, Opened
  <2>2. ASSUME NEW u \in Threads, u # t, call[u] # NoCall, Holds(u)
        PROVE  Holds(u)'
    <3>1. call'[u] = call[u]
      BY <1>a, <2>2
    <3>2. call[u].at = "return" => call[u].fd \in DOMAIN virtual_files
      BY <2>2 DEF Inv, FilesInv
    <3>3. call[u].at = "return" => virtual_files'[call[u].fd].opened_file.set
      BY <1>b, <1>c, <2>2, <3>2 DEF Holds, Opened
    <3> QED
      BY <1>0, <2>2, <3>1, <3>3 DEF Holds, Owned, Opened
  <2> QED
    BY <1>0, <1>a, <2>1, <2>2 DEF Inv, HoldsInv
<1>8. LeadsInv'
  <2>1. SUFFICES ASSUME raced = {}, NEW d \in DOMAIN virtual_files PROVE Leads(d)'
    BY <1>0, <1>b DEF LeadsInv
  <2>2. Leads(d) /\ Holds(t)
    BY <1>0, <2>1 DEF Inv, LeadsInv, HoldsInv
  <2>3. \A u \in Threads : At(u, "close", "reset") => call'[u] = call[u]
    BY <1>0, <1>a DEF At
  <2>4. CASE \E u \in Threads : At(u, "close", "reset") /\ call[u].fd = d
    BY <2>3, <2>4 DEF Leads, At
  <2>5. CASE ~\E u \in Threads : At(u, "close", "reset") /\ call[u].fd = d
    <3>1. CASE d # fd
      BY <1>0, <1>b, <2>2, <2>5, <3>1 DEF Leads, Owned
    <3>2. CASE d = fd
      <4>1. o.file # Null => Owned(o.file, fd)
        BY <1>0, <1>c, <2>2 DEF Holds
      <4>2. fd \notin shared => Len(stream[fd]) = 0
        <5>1. fd \notin shared => ~virtual_files[fd].opened_file.set
          BY <1>0 DEF Inv, AloneInv, Alone
        <5> QED
          BY <2>2, <2>5, <3>2, <5>1 DEF Leads
      <4>3. fd \notin shared /\ o.file # Null => files[o.file].position = 0
        BY <1>0, <1>c, <2>2 DEF Holds
      <4> QED
        BY <1>0, <1>b, <1>c, <3>2, <4>1, <4>2, <4>3 DEF Leads, Owned
    <3> QED
      BY <3>1, <3>2
  <2> QED
    BY <2>4, <2>5
<1> QED
  BY <1>1, <1>2, <1>3, <1>4, <1>5, <1>6, <1>7, <1>8 DEF Inv

LEMMA FclosePreserves ==
  ASSUME Inv, NEW t \in Threads, Fclose(t)
  PROVE  Inv'
<1> USE FilesOK
<1> DEFINE fd == call[t].fd
           f == call[t].file
<1>0. /\ call[t] \in Calls /\ call[t] # NoCall /\ call[t].at = "fclose" /\ call[t].op = "close"
      /\ fd \in DOMAIN virtual_files /\ fd \in Descriptors
      /\ f # Null /\ f \in DOMAIN files
      /\ UNCHANGED <<last_file_descriptor, virtual_files, virtual_file_map, granted,
                     stream, opens, shared, raced>>
  BY DEF Fclose, At, Inv, TypeOK, FilesInv, Calls, mapVars, history
<1>a. /\ files' \in Seq(FileObjects) /\ Len(files') = Len(files)
      /\ DOMAIN files' = DOMAIN files
      /\ files'[f].open = FALSE
      /\ \A g \in DOMAIN files :
           /\ files'[g].fd = files[g].fd /\ files'[g].real_path = files[g].real_path
           /\ files'[g].position = files[g].position
           /\ g # f => files'[g] = files[g]
  <2> DEFINE new == [files[f] EXCEPT !.open = FALSE]
  <2>0. files \in Seq(FileObjects) /\ files[f] \in FileObjects /\ f \in 1..Len(files)
    BY <1>0 DEF Inv, TypeOK
  <2>1. /\ new \in FileObjects /\ new.position = files[f].position
        /\ new.fd = files[f].fd /\ new.real_path = files[f].real_path
        /\ new.open = FALSE
    BY <2>0 DEF FileObjects
  <2>2. files' = [files EXCEPT ![f] = new]
    BY DEF Fclose
  <2> HIDE DEF new, f
  <2>4. /\ files' \in Seq(FileObjects) /\ Len(files') = Len(files)
        /\ \A g \in 1..Len(files) : files'[g] = IF g = f THEN new ELSE files[g]
    BY <2>0, <2>1, <2>2, ExceptSeq
  <2>5. DOMAIN files' = 1..Len(files) /\ DOMAIN files = 1..Len(files)
    BY <2>0, <2>4
  <2> QED
    BY <2>0, <2>1, <2>4, <2>5
<1>b. /\ call' \in [Threads -> Calls \cup {NoCall}]
      /\ call'[t] # NoCall /\ call'[t].at = "reset" /\ call'[t].op = "close"
      /\ call'[t].fd = fd /\ call'[t].file = f
      /\ \A u \in Threads : u # t => call'[u] = call[u]
  <2>1. Goto(t, "reset")
    BY DEF Fclose
  <2> QED
    BY <1>0, <2>1, GotoFacts DEF Points
<1>e. \A u \in Threads : call[u] # NoCall /\ call[u].fd = fd /\ u # t => fd \in shared /\ fd \in raced
  BY <1>0 DEF Inv, UsersInv
<1>1. TypeOK'
  BY <1>0, <1>a, <1>b DEF Inv, TypeOK
<1>2. GrantInv' /\ LatestGrantStands' /\ ReadsOwnFile' /\ StreamInOrder'
  BY <1>0 DEF Inv, GrantInv, LatestGrantStands, ReadsOwnFile, StreamInOrder
<1>3. FilesInv'
  <2>1. \A u \in Threads : call'[u] # NoCall =>
          /\ call'[u].file \in {Null} \cup DOMAIN files
          /\ call'[u].at \notin {"lookup", "no_descriptor"} => call'[u].fd \in DOMAIN virtual_files
          /\ call'[u].at \in {"fclose", "reset"} => call'[u].op = "close"
          /\ call'[u].at \in {"fopen", "assign", "return", "fread"} => call'[u].op = "read"
    BY <1>0, <1>b DEF Inv, FilesInv
  <2> QED
    BY <1>0, <1>a, <2>1 DEF Inv, FilesInv
<1>4. UsersInv'
  BY <1>0, <1>b DEF Inv, UsersInv
<1>5. AloneInv'
  <2>1. fd \notin shared => Alone(t)'
    <3>1. SUFFICES ASSUME fd \notin shared, NEW g \in DOMAIN files,
                          files'[g].open, files[g].fd = fd
                   PROVE  FALSE
      BY <1>0, <1>a, <1>b DEF Alone
    <3>2. g # f /\ files[g].open
      BY <1>a, <3>1
    <3>3. virtual_files[fd].opened_file # [set |-> TRUE, file |-> g]
      BY <1>0, <3>1, <3>2 DEF Inv, AloneInv, Alone
    <3>4. PICK u \in Threads : At(u, "read", "assign") /\ call[u].fd = fd
      BY <1>0, <3>1, <3>2, <3>3 DEF Inv, FoundInv
    <3> QED
      BY <1>0, <1>e, <3>1, <3>4 DEF At
  <2>2. ASSUME NEW u \in Threads, u # t, call[u] # NoCall, Alone(u)
        PROVE  Alone(u)'
    <3>1. \A g \in DOMAIN files : files'[g].open => files[g].open
      BY <1>a
    <3> QED
      BY <1>0, <1>a, <1>b, <2>2, <3>1 DEF Alone
  <2> QED
    BY <1>0, <1>b, <2>1, <2>2 DEF Inv, AloneInv
<1>6. FoundInv'
  <2>1. \A g \in DOMAIN files : files'[g].open => files[g].open
    BY <1>a
  <2>2. \A u \in Threads : At(u, "read", "assign") => At(u, "read", "assign")' /\ call'[u] = call[u]
    BY <1>0, <1>b DEF At
  <2>3. ASSUME NEW g \in DOMAIN files, files'[g].open
        PROVE  \/ files[g].fd \notin DOMAIN virtual_files \/ files[g].fd \in shared
               \/ virtual_files[files[g].fd].opened_file = [set |-> TRUE, file |-> g]
               \/ \E u \in Threads :
                    At(u, "read", "assign")' /\ call'[u].file = g /\ call'[u].fd = files[g].fd
    BY <2>1, <2>2, <2>3 DEF Inv, FoundInv
  <2> QED
    BY <1>0, <1>a, <2>3 DEF FoundInv
<1>7. ASSUME raced = {}
      PROVE  /\ Owned(f, fd)
             /\ \A g, d : d # fd /\ Owned(g, d) => g # f
             /\ \A u \in Threads : u # t /\ call[u] # NoCall => call[u].fd # fd
  <2>1. Owned(f, fd)
    BY <1>0, <1>7 DEF Inv, HoldsInv, Holds
  <2> QED
    BY <1>7, <1>e, <2>1 DEF Owned
<1>8. HoldsInv'
  <2>1. Holds(t)'
    BY <1>b DEF Holds
  <2>2. ASSUME raced = {}, NEW u \in Threads, u # t, call[u] # NoCall
        PROVE  Holds(u)'
    <3>1. Holds(u) /\ call'[u] = call[u] /\ call[u].file \in {Null} \cup DOMAIN files
      BY <1>b, <2>2 DEF Inv, HoldsInv, FilesInv
    <3>2. call[u].at \in {"assign", "fread", "fclose"} /\ call[u].file # Null =>
            Owned(call[u].file, call[u].fd) /\ files'[call[u].file] = files[call[u].file]
      BY <1>7, <1>a, <2>2, <3>1 DEF Holds
    <3> QED
      BY <1>0, <3>1, <3>2 DEF Holds, Owned, Opened
  <2> QED
    BY <1>0, <1>b, <2>1, <2>2 DEF HoldsInv
<1>9. LeadsInv'
  <2>1. SUFFICES ASSUME raced = {}, NEW d \in DOMAIN virtual_files PROVE Leads(d)'
    BY <1>0 DEF LeadsInv
  <2>2. Leads(d) /\ virtual_files[d].opened_file.file \in {Null} \cup DOMAIN files
    BY <2>1 DEF Inv, LeadsInv, FilesInv
  <2>3. \A u \in Threads : At(u, "close", "reset") => call'[u] = call[u]
    BY <1>0, <1>b DEF At
  <2>4. CASE \E u \in Threads : At(u, "close", "reset") /\ call[u].fd = d
    BY <2>3, <2>4 DEF Leads, At
  <2>5. CASE d = fd
    BY <1>b, <2>5 DEF Leads, At
  <2>6. CASE d # fd /\ ~\E u \in Threads : At(u, "close", "reset") /\ call[u].fd = d
    <3> DEFINE o == virtual_files[d].opened_file
    <3>1. o.set /\ o.file # Null => Owned(o.file, d) /\ files'[o.file] = files[o.file]
      BY <1>7, <1>a, <2>1, <2>2, <2>6 DEF Leads
    <3> QED
      BY <1>0, <2>2, <2>6, <3>1 DEF Leads, Owned
  <2> QED
    BY <2>4, <2>5, <2>6
<1> QED
  BY <1>1, <1>2, <1>3, <1>4, <1>5, <1>6, <1>8, <1>9 DEF Inv

LEMMA ResetOpenedPreserves ==
  ASSUME Inv, NEW t \in Threads, ResetOpened(t)
  PROVE  Inv'
<1> USE FilesOK
<1> DEFINE fd == call[t].fd
           o == [set |-> FALSE, file |-> Opened(t).file]
<1>0. /\ call[t] \in Calls /\ call[t] # NoCall /\ call[t].at = "reset" /\ call[t].op = "close"
      /\ fd \in DOMAIN virtual_files /\ fd \in Descriptors
      /\ Opened(t).file \in 0..MaxFiles
      /\ UNCHANGED <<last_file_descriptor, virtual_file_map, granted, files, opens, shared, raced>>
  BY DEF ResetOpened, At, Opened, Inv, TypeOK, FilesInv, Calls, Infos
<1>1. o \in [set: BOOLEAN, file: 0..MaxFiles] /\ ~o.set /\ o.file = virtual_files[fd].opened_file.file
  BY <1>0 DEF Opened
<1>2. Assign(t, o)
  BY DEF ResetOpened
<1> HIDE DEF o
<1>a. /\ call' \in [Threads -> Calls \cup {NoCall}]
      /\ call'[t] = NoCall
      /\ \A u \in Threads : u # t => call'[u] = call[u]
  BY DEF ResetOpened, End, Inv, TypeOK
<1>b. /\ DOMAIN virtual_files' = DOMAIN virtual_files
      /\ virtual_files'[fd].opened_file = o
      /\ \A d \in DOMAIN virtual_files :
           /\ virtual_files'[d] \in Infos
           /\ virtual_files'[d].real_path = virtual_files[d].real_path
           /\ d # fd => virtual_files'[d] = virtual_files[d]
  BY <1>0, <1>1, <1>2, AssignFacts
<1>c. /\ stream' \in [Descriptors -> Seq(RealPaths \X Nat)]
      /\ stream'[fd] = <<>>
      /\ \A d \in Descriptors : d # fd => stream'[d] = stream[d]
  BY <1>0 DEF ResetOpened, Inv, TypeOK
<1>e. \A u \in Threads : call[u] # NoCall /\ call[u].fd = fd /\ u # t => fd \in shared /\ fd \in raced
  BY <1>0 DEF Inv, UsersInv
<1>3. TypeOK'
  BY <1>0, <1>a, <1>b, <1>c DEF Inv, TypeOK
<1>4. GrantInv' /\ LatestGrantStands'
  BY <1>0, <1>b DEF Inv, GrantInv, LatestGrantStands
<1>5. ReadsOwnFile' /\ StreamInOrder'
  <2>1. ASSUME NEW d \in Descriptors
        PROVE  \A n \in DOMAIN stream'[d] :
                 n \in DOMAIN stream[d] /\ stream'[d][n] = stream[d][n]
    <3>1. CASE d = fd
      BY <1>c, <3>1
    <3>2. CASE d # fd
      <4>1. stream'[d] = stream[d]
        BY <1>c, <3>2
      <4> QED
        BY <4>1
    <3> QED
      BY <3>1, <3>2
  <2> QED
    BY <1>0, <2>1 DEF Inv, ReadsOwnFile, StreamInOrder
<1>6. FilesInv'
  <2>1. \A d \in DOMAIN virtual_files' :
          virtual_files'[d].opened_file.file \in {Null} \cup DOMAIN files
    BY <1>0, <1>1, <1>b DEF Inv, FilesInv
  <2>2. \A u \in Threads : call'[u] # NoCall =>
          /\ call'[u].file \in {Null} \cup DOMAIN files
          /\ call'[u].at \notin {"lookup", "no_descriptor"} => call'[u].fd \in DOMAIN virtual_files
          /\ call'[u].at \in {"fclose", "reset"} => call'[u].op = "close"
          /\ call'[u].at \in {"fopen", "assign", "return", "fread"} => call'[u].op = "read"
    BY <1>0, <1>a DEF Inv, FilesInv
  <2> QED
    BY <1>0, <1>b, <2>1, <2>2 DEF Inv, FilesInv
<1>7. UsersInv'
  BY <1>0, <1>a DEF Inv, UsersInv
<1>8. AloneInv'
  <2>1. ASSUME NEW u \in Threads, u # t, call[u] # NoCall, call[u].fd \notin shared
        PROVE  Alone(u)'
    <3>1. call[u].fd # fd /\ Alone(u)
      BY <1>e, <2>1 DEF Inv, AloneInv
    <3>2. call[u].at \notin {"lookup", "no_descriptor"} => call[u].fd \in DOMAIN virtual_files
      BY <2>1 DEF Inv, FilesInv
    <3> QED
      BY <1>0, <1>a, <1>b, <2>1, <3>1, <3>2 DEF Alone
  <2> QED
    BY <1>0, <1>a, <2>1 DEF AloneInv
<1>9. FoundInv'
  <2>1. ASSUME NEW f \in DOMAIN files, files[f].open, files[f].fd = fd PROVE fd \in shared
    BY <1>0, <2>1 DEF Inv, AloneInv, Alone
  <2>2. \A u \in Threads : At(u, "read", "assign") => call'[u] = call[u]
    BY <1>0, <1>a DEF At
  <2> QED
    BY <1>0, <1>b, <2>1, <2>2 DEF Inv, FoundInv, At
<1>10. HoldsInv'
  <2>1. ASSUME raced = {}, NEW u \in Threads, u # t, call[u] # NoCall
        PROVE  Holds(u)'
    <3>1. Holds(u) /\ call'[u] = call[u] /\ call[u].fd # fd
      BY <1>a, <1>e, <2>1 DEF Inv, HoldsInv
    <3>2. call[u].at = "return" => call[u].fd \in DOMAIN virtual_files
      BY <2>1 DEF Inv, FilesInv
    <3> QED
      BY <1>0, <1>b, <3>1, <3>2 DEF Holds, Owned, Opened
  <2> QED
    BY <1>0, <1>a, <2>1 DEF HoldsInv
<1>11. LeadsInv'
  <2>1. SUFFICES ASSUME raced = {}, NEW d \in DOMAIN virtual_files PROVE Leads(d)'
    BY <1>0, <1>b DEF LeadsInv
  <2>2. CASE d = fd
    BY <1>1, <1>b, <1>c, <2>2 DEF Leads
  <2>3. CASE d # fd
    <3>1. stream'[d] = stream[d] /\ virtual_files'[d] = virtual_files[d]
      BY <1>b, <1>c, <2>3 DEF Inv, TypeOK
    <3>2. \A u \in Threads : At(u, "close", "reset") /\ call[u].fd = d => call'[u] = call[u]
      BY <1>a, <2>3
    <3> QED
      BY <1>0, <2>1, <3>1, <3>2 DEF Inv, LeadsInv, Leads, Owned, At
  <2> QED
    BY <2>2, <2>3
<1> QED
  BY <1>3, <1>4, <1>5, <1>6, <1>7, <1>8, <1>9, <1>10, <1>11 DEF Inv

LEMMA AppendToStream ==
  ASSUME NEW S, NEW s \in Seq(S), NEW b \in Seq(S)
  PROVE  /\ s \o b \in Seq(S) /\ Len(s) \in Nat
         /\ Len(s \o b) = Len(s) + Len(b)
         /\ \A n \in 1..Len(s) : (s \o b)[n] = s[n]
         /\ \A n \in (Len(s) + 1)..Len(s \o b) :
              n - Len(s) \in 1..Len(b) /\ (s \o b)[n] = b[n - Len(s)]
OBVIOUS

LEMMA FreadPreserves ==
  ASSUME Inv, NEW t \in Threads, Fread(t)
  PROVE  Inv'
<1> USE FilesOK
<1> DEFINE fd == call[t].fd
           f == call[t].file
           left == Size[files[f].real_path] - files[f].position
           count == IF left < BufLen THEN left ELSE BufLen
           bytes == [n \in 1..count |-> <<files[f].real_path, files[f].position + n - 1>>]
           c == [call[t] EXCEPT !.left = @ - 1]
<1>0. /\ call[t] \in Calls /\ call[t] # NoCall /\ call[t].at = "fread" /\ call[t].op = "read"
      /\ call[t].left > 0
      /\ fd \in DOMAIN virtual_files /\ fd \in Descriptors
      /\ f # Null /\ f \in DOMAIN files /\ files[f].open
      /\ UNCHANGED <<last_file_descriptor, virtual_files, virtual_file_map, granted, opens,
                     shared, raced>>
  BY DEF Fread, At, Inv, TypeOK, FilesInv, Calls, mapVars
<1>1. /\ files \in Seq(FileObjects) /\ files[f] \in FileObjects
      /\ files[f].real_path \in RealPaths /\ files[f].position \in Nat
      /\ files[f].position <= Size[files[f].real_path]
      /\ Size[files[f].real_path] \in Nat
  <2>1. files \in Seq(FileObjects)
    BY DEF Inv, TypeOK
  <2>2. files[f] \in FileObjects
    BY <1>0, <2>1
  <2>3. files[f].real_path \in RealPaths /\ files[f].position \in Nat
    BY <2>2 DEF FileObjects
  <2>4. files[f].position <= Size[files[f].real_path]
    BY <1>0 DEF Inv, FilesInv
  <2> QED
    BY <2>1, <2>2, <2>3, <2>4
<1>2. count \in Nat /\ files[f].position + count <= Size[files[f].real_path]
  BY SMTT(30), <1>1
<1>d. /\ files' = [files EXCEPT ![f].position = @ + count]
      /\ stream' = [stream EXCEPT ![fd] = @ \o bytes]
      /\ call' = [call EXCEPT ![t] = c]
  BY DEF Fread
<1> HIDE DEF count
<1>a. /\ files' \in Seq(FileObjects) /\ Len(files') = Len(files)
      /\ DOMAIN files' = DOMAIN files
      /\ files'[f].position = files[f].position + count
      /\ \A g \in DOMAIN files :
           /\ files'[g].fd = files[g].fd /\ files'[g].real_path = files[g].real_path
           /\ files'[g].open = files[g].open
           /\ g # f => files'[g] = files[g]
  <2> DEFINE new == [files[f] EXCEPT !.position = @ + count]
  <2>1. /\ new \in FileObjects /\ new.position = files[f].position + count
        /\ new.fd = files[f].fd /\ new.real_path = files[f].real_path
        /\ new.open = files[f].open
    <3>1. files[f] \in FileObjects /\ files[f].position + count \in Nat
      BY <1>1, <1>2
    <3> HIDE DEF f
    <3> QED
      BY <3>1 DEF FileObjects
  <2>2. files' = [files EXCEPT ![f] = new]
    BY <1>d
  <2>3. f \in 1..Len(files)
    BY <1>0, <1>1
  <2> HIDE DEF new, f
  <2>4. /\ files' \in Seq(FileObjects) /\ Len(files') = Len(files)
        /\ \A g \in 1..Len(files) : files'[g] = IF g = f THEN new ELSE files[g]
    BY <1>1, <2>1, <2>2, <2>3, ExceptSeq
  <2>5. DOMAIN files' = 1..Len(files) /\ DOMAIN files = 1..Len(files)
    BY <1>1, <2>4
  <2> QED
    BY <2>1, <2>3, <2>4, <2>5
<1>b. /\ call' \in [Threads -> Calls \cup {NoCall}]
      /\ call'[t] = c /\ call'[t] # NoCall /\ call'[t].at = "fread"
      /\ call'[t].fd = fd /\ call'[t].file = f /\ call'[t].op = "read"
      /\ \A u \in Threads : u # t => call'[u] = call[u]
  <2>1. c \in Calls /\ c.at = "fread" /\ c.fd = fd /\ c.file = f /\ c.op = "read"
    BY <1>0 DEF Calls
  <2>2. c # NoCall
    BY <2>1, NoCallOK
  <2>3. call' = [call EXCEPT ![t] = c]
    BY <1>d
  <2> HIDE DEF c
  <2>4. /\ call' \in [Threads -> Calls \cup {NoCall}] /\ call'[t] = c
        /\ \A u \in Threads : u # t => call'[u] = call[u]
    BY <2>1, <2>3 DEF Inv, TypeOK
  <2> QED
    BY <1>0, <2>1, <2>2, <2>4
<1>c. /\ stream' \in [Descriptors -> Seq(RealPaths \X Nat)]
      /\ \A d \in Descriptors : d # fd => stream'[d] = stream[d]
      /\ Len(stream'[fd]) = Len(stream[fd]) + count /\ Len(stream[fd]) \in Nat
      /\ \A n \in 1..Len(stream[fd]) : stream'[fd][n] = stream[fd][n]
      /\ \A n \in (Len(stream[fd]) + 1)..Len(stream'[fd]) :
           stream'[fd][n] = <<files[f].real_path,
                              files[f].position + (n - Len(stream[fd])) - 1>>
  <2>1. bytes \in Seq(RealPaths \X Nat) /\ Len(bytes) = count
    <3>1. \A n \in 1..count :
            <<files[f].real_path, files[f].position + n - 1>> \in RealPaths \X Nat
      BY <1>1, <1>2
    <3> HIDE DEF count, f
    <3> QED
      BY <1>2, <3>1
  <2>2. \A n \in 1..count : bytes[n] = <<files[f].real_path, files[f].position + n - 1>>
    OBVIOUS
  <2>3. stream' = [stream EXCEPT ![fd] = @ \o bytes]
    BY <1>d
  <2>4. stream \in [Descriptors -> Seq(RealPaths \X Nat)]
    BY DEF Inv, TypeOK
  <2>5. stream[fd] \in Seq(RealPaths \X Nat) /\ stream'[fd] = stream[fd] \o bytes
    BY <1>0, <2>3, <2>4
  <2> HIDE DEF bytes, f, fd
  <2>6. /\ stream'[fd] \in Seq(RealPaths \X Nat)
        /\ Len(stream'[fd]) = Len(stream[fd]) + count /\ Len(stream[fd]) \in Nat
        /\ \A n \in 1..Len(stream[fd]) : stream'[fd][n] = stream[fd][n]
        /\ \A n \in (Len(stream[fd]) + 1)..Len(stream'[fd]) :
             n - Len(stream[fd]) \in 1..count /\ stream'[fd][n] = bytes[n - Len(stream[fd])]
    <3> DEFINE s == stream[fd] \o bytes
    <3>1. /\ s \in Seq(RealPaths \X Nat) /\ Len(stream[fd]) \in Nat
          /\ Len(s) = Len(stream[fd]) + Len(bytes)
          /\ \A n \in 1..Len(stream[fd]) : s[n] = stream[fd][n]
          /\ \A n \in (Len(stream[fd]) + 1)..Len(s) :
               n - Len(stream[fd]) \in 1..Len(bytes) /\ s[n] = bytes[n - Len(stream[fd])]
      <4> DEFINE b == bytes
                 old == stream[fd]
      <4>1. b \in Seq(RealPaths \X Nat) /\ old \in Seq(RealPaths \X Nat)
        BY <2>1, <2>5
      <4> HIDE DEF b, old
      <4>2. /\ old \o b \in Seq(RealPaths \X Nat) /\ Len(old) \in Nat
            /\ Len(old \o b) = Len(old) + Len(b)
            /\ \A n \in 1..Len(old) : (old \o b)[n] = old[n]
            /\ \A n \in (Len(old) + 1)..Len(old \o b) :
                 n - Len(old) \in 1..Len(b) /\ (old \o b)[n] = b[n - Len(old)]
        BY <4>1, AppendToStream
      <4> QED
        BY <4>2 DEF b, old
    <3>2. stream'[fd] = s
      BY <2>5
    <3> HIDE DEF s
    <3> QED
      BY <2>1, <3>1, <3>2
  <2>7. /\ stream' \in [Descriptors -> Seq(RealPaths \X Nat)]
        /\ \A d \in Descriptors : d # fd => stream'[d] = stream[d]
    BY <2>3, <2>4, <2>5, <2>6
  <2> QED
    BY <2>2, <2>6, <2>7
<1> HIDE DEF count, bytes, c
<1>3. TypeOK'
  BY <1>0, <1>a, <1>b, <1>c DEF Inv, TypeOK
<1>4. GrantInv' /\ LatestGrantStands'
  BY <1>0 DEF Inv, GrantInv, LatestGrantStands
<1>5. FilesInv'
  <2>1. \A g \in DOMAIN files' :
          /\ files'[g].fd \in DOMAIN granted'
          /\ files'[g].real_path = granted'[files'[g].fd].real_path
          /\ files'[g].position <= Size[files'[g].real_path]
    BY <1>0, <1>2, <1>a DEF Inv, FilesInv
  <2>2. ASSUME NEW u \in Threads, call'[u] # NoCall
        PROVE  /\ call'[u].file \in {Null} \cup DOMAIN files
               /\ call'[u].at \notin {"lookup", "no_descriptor"} =>
                    call'[u].fd \in DOMAIN virtual_files
               /\ call'[u].at \in {"fclose", "reset"} => call'[u].op = "close"
               /\ call'[u].at \in {"fopen", "assign", "return", "fread"} => call'[u].op = "read"
    <3>1. CASE u = t
      BY <1>0, <1>b, <3>1
    <3>2. CASE u # t
      <4>1. call'[u] = call[u]
        BY <1>b, <3>2
      <4> QED
        BY <2>2, <4>1 DEF Inv, FilesInv
    <3> QED
      BY <3>1, <3>2
  <2> QED
    BY <1>0, <1>a, <2>1, <2>2 DEF Inv, FilesInv
<1>6. DOMAIN stream'[fd] = 1..Len(stream'[fd]) /\ DOMAIN stream[fd] = 1..Len(stream[fd])
  <2> DEFINE s == stream[fd]
             s2 == stream'[fd]
  <2>1. s \in Seq(RealPaths \X Nat) /\ s2 \in Seq(RealPaths \X Nat)
    BY <1>0, <1>c DEF Inv, TypeOK
  <2> HIDE DEF s, s2
  <2>2. DOMAIN s = 1..Len(s) /\ DOMAIN s2 = 1..Len(s2)
    BY <2>1
  <2> QED
    BY <2>2 DEF s, s2
<1>o. ASSUME raced = {}
      PROVE  /\ files[f].fd = fd
             /\ \A g, d : d # fd /\ Owned(g, d) => g # f
  BY <1>0, <1>o DEF Inv, HoldsInv, Holds, Owned
<1>7. ReadsOwnFile'
  <2> SUFFICES ASSUME raced = {}
               PROVE  \A d \in Descriptors : \A n \in DOMAIN stream'[d] :
                        d \in DOMAIN granted /\ stream'[d][n][1] = granted[d].real_path
    BY <1>0 DEF ReadsOwnFile
  <2>1. fd \in DOMAIN granted /\ files[f].real_path = granted[fd].real_path
    BY <1>0, <1>o DEF Inv, FilesInv
  <2>2. ASSUME NEW n \in DOMAIN stream'[fd]
        PROVE  stream'[fd][n][1] = granted[fd].real_path
    <3>1. CASE n \in 1..Len(stream[fd])
      <4>1. stream[fd][n][1] = granted[fd].real_path
        BY <1>0, <1>6, <3>1 DEF Inv, ReadsOwnFile
      <4> QED
        BY <1>c, <3>1, <4>1
    <3>2. CASE n \in (Len(stream[fd]) + 1)..Len(stream'[fd])
      BY <1>c, <2>1, <3>2
    <3> QED
      BY SMTT(30), <1>2, <1>6, <1>c, <3>1, <3>2
  <2> QED
    <3>1. \A d \in Descriptors \ {fd} : stream'[d] = stream[d]
      BY <1>c
    <3>2. \A d \in Descriptors \ {fd} : \A n \in DOMAIN stream[d] :
            d \in DOMAIN granted /\ stream[d][n][1] = granted[d].real_path
      BY DEF Inv, ReadsOwnFile
    <3> QED
      BY <1>0, <2>1, <2>2, <3>1, <3>2
<1>8. ASSUME raced = {}, fd \notin shared
      PROVE  /\ virtual_files[fd].opened_file.set /\ virtual_files[fd].opened_file.file = f
             /\ Len(stream[fd]) = files[f].position
  <2>1. virtual_files[fd].opened_file.set /\ virtual_files[fd].opened_file.file = f
    BY <1>0, <1>8 DEF Inv, AloneInv, Alone
  <2>2. \A u \in Threads : ~(At(u, "close", "reset") /\ call[u].fd = fd)
    BY <1>0, <1>8 DEF At, Inv, UsersInv
  <2> QED
    BY <1>0, <1>8, <2>1, <2>2 DEF Inv, LeadsInv, Leads
<1>9. StreamInOrder'
  <2> SUFFICES ASSUME raced = {}
               PROVE  \A d \in Descriptors \ shared : \A n \in DOMAIN stream'[d] :
                        stream'[d][n][2] = n - 1 /\ n <= Size[stream'[d][n][1]]
    BY <1>0 DEF StreamInOrder
  <2>1. ASSUME fd \notin shared, NEW n \in DOMAIN stream'[fd]
        PROVE  stream'[fd][n][2] = n - 1 /\ n <= Size[stream'[fd][n][1]]
    <3>1. CASE n \in 1..Len(stream[fd])
      <4>1. stream[fd][n][2] = n - 1 /\ n <= Size[stream[fd][n][1]]
        BY <1>0, <1>6, <2>1, <3>1 DEF Inv, StreamInOrder
      <4> QED
        BY <1>c, <3>1, <4>1
    <3>2. CASE n \in (Len(stream[fd]) + 1)..Len(stream'[fd])
      <4>1. /\ stream'[fd][n][1] = files[f].real_path
            /\ stream'[fd][n][2] = files[f].position + (n - Len(stream[fd])) - 1
        BY SMTT(30), <1>c, <3>2
      <4>2. Len(stream[fd]) = files[f].position /\ n <= Len(stream[fd]) + count
        BY <1>8, <1>c, <2>1, <3>2
      <4> QED
        <5>1. n \in Int /\ n <= files[f].position + count
          BY <3>2, <4>2
        <5>2. n <= Size[files[f].real_path]
          BY <1>1, <1>2, <5>1
        <5>3. files[f].position + (n - Len(stream[fd])) - 1 = n - 1
          BY <1>1, <4>2, <5>1
        <5> QED
          BY <4>1, <5>2, <5>3
    <3> QED
      BY SMTT(30), <1>2, <1>6, <1>c, <3>1, <3>2
  <2> QED
    <3>1. \A d \in Descriptors \ {fd} : stream'[d] = stream[d]
      BY <1>c
    <3>2. \A d \in Descriptors \ (shared \cup {fd}) : \A n \in DOMAIN stream[d] :
            stream[d][n][2] = n - 1 /\ n <= Size[stream[d][n][1]]
      BY DEF Inv, StreamInOrder
    <3> QED
      BY <1>0, <2>1, <3>1, <3>2
<1>10. UsersInv'
  BY <1>0, <1>b DEF Inv, UsersInv
<1>11. AloneInv'
  <2>1. fd \notin shared => Alone(t)'
    <3>1. fd \notin shared =>
            virtual_files[fd].opened_file.set /\ virtual_files[fd].opened_file.file = f
      BY <1>0 DEF Inv, AloneInv, Alone
    <3> QED
      BY <1>0, <1>b, <3>1 DEF Alone
  <2>2. ASSUME NEW u \in Threads, u # t, call[u] # NoCall, Alone(u)
        PROVE  Alone(u)'
    BY <1>0, <1>a, <1>b, <2>2 DEF Alone
  <2> QED
    BY <1>0, <1>b, <2>1, <2>2 DEF Inv, AloneInv
<1>12. FoundInv'
  <2>1. \A u \in Threads : At(u, "read", "assign") => At(u, "read", "assign")' /\ call'[u] = call[u]
    BY <1>0, <1>b DEF At
  <2>2. ASSUME NEW g \in DOMAIN files, files[g].open
        PROVE  \/ files[g].fd \notin DOMAIN virtual_files \/ files[g].fd \in shared
               \/ virtual_files[files[g].fd].opened_file = [set |-> TRUE, file |-> g]
               \/ \E u \in Threads :
                    At(u, "read", "assign")' /\ call'[u].file = g /\ call'[u].fd = files[g].fd
    BY <2>1, <2>2 DEF Inv, FoundInv
  <2> QED
    BY <1>0, <1>a, <2>2 DEF FoundInv
<1>13. HoldsInv'
  <2>1. Holds(t) => Holds(t)'
    BY <1>0, <1>a, <1>b DEF Holds, Owned
  <2>2. ASSUME raced = {}, NEW u \in Threads, u # t, call[u] # NoCall
        PROVE  Holds(u)'
    <3>1. Holds(u) /\ call'[u] = call[u] /\ call[u].file \in {Null} \cup DOMAIN files
      BY <1>b, <2>2 DEF Inv, HoldsInv, FilesInv
    <3>2. call[u].at \in {"assign", "fread", "fclose"} /\ call[u].file # Null =>
            Owned(call[u].file, call[u].fd)' /\ call[u].file \in DOMAIN files
      BY <1>a, <3>1 DEF Holds, Owned
    <3>3. call[u].at = "assign" /\ call[u].file # Null /\ call[u].fd \notin shared =>
            files'[call[u].file] = files[call[u].file]
      <4>1. call[u].fd \notin shared => call[u].fd # fd
        BY <1>0, <2>2 DEF Inv, UsersInv
      <4> QED
        BY <1>a, <1>o, <2>2, <3>1, <4>1 DEF Holds
    <3> QED
      BY <1>0, <3>1, <3>2, <3>3 DEF Holds, Owned, Opened
  <2> QED
    BY <1>0, <1>b, <2>1, <2>2 DEF Inv, HoldsInv
<1>14. LeadsInv'
  <2>1. SUFFICES ASSUME raced = {}, NEW d \in DOMAIN virtual_files PROVE Leads(d)'
    BY <1>0 DEF LeadsInv
  <2> DEFINE o == virtual_files[d].opened_file
             hasFile == o.set /\ o.file # Null
  <2>2. Leads(d) /\ o.file \in {Null} \cup DOMAIN files /\ d \in Descriptors
    BY <2>1 DEF Inv, LeadsInv, FilesInv, TypeOK
  <2>3. \A u \in Threads : At(u, "close", "reset") => call'[u] = call[u]
    BY <1>0, <1>b DEF At
  <2>4. CASE \E u \in Threads : At(u, "close", "reset") /\ call[u].fd = d
    BY <2>3, <2>4 DEF Leads, At
  <2>5. CASE ~\E u \in Threads : At(u, "close", "reset") /\ call[u].fd = d
    <3>1. /\ hasFile => Owned(o.file, d)
          /\ hasFile /\ d \notin shared => Len(stream[d]) = files[o.file].position
          /\ ~hasFile /\ d \notin shared => Len(stream[d]) = 0
      BY <2>2, <2>5 DEF Leads
    <3>2. hasFile => Owned(o.file, d)'
      BY <1>0, <1>a, <2>2, <3>1 DEF Owned
    <3>3. CASE d = fd
      <4>1. d \notin shared => hasFile /\ Len(stream'[d]) = files'[o.file].position
        BY <1>0, <1>1, <1>2, <1>8, <1>a, <1>c, <2>1, <3>3
      <4> QED
        BY <1>0, <3>2, <4>1 DEF Leads
    <3>4. CASE d # fd
      <4>1. hasFile => files'[o.file] = files[o.file]
        BY <1>a, <1>o, <2>1, <2>2, <3>1, <3>4
      <4>2. stream'[d] = stream[d]
        BY <1>c, <2>2, <3>4
      <4> QED
        BY <1>0, <3>1, <3>2, <4>1, <4>2 DEF Leads
    <3> QED
      BY <3>3, <3>4
  <2> QED
    BY <2>4, <2>5
<1> QED
  BY <1>3, <1>4, <1>5, <1>7, <1>9, <1>10, <1>11, <1>12, <1>13, <1>14 DEF Inv

-------------------------------------------------------------------------------
(* Theorems *)

\* Inv is inductive.
THEOREM StepInv == Inv /\ [Next]_vars => Inv'
<1> SUFFICES ASSUME Inv, [Next]_vars PROVE Inv'
  OBVIOUS
<1>1. ASSUME NEW path \in VirtualPaths, NEW real \in RealPaths,
             AllowFileReadAccess(path, real)
      PROVE  Inv'
  BY <1>1, AllowPreserves
<1>2. ASSUME NEW t \in Threads, NEW fd \in Descriptors, NEW iovecs \in 0..MaxIov,
             Begin(t, "read", fd, iovecs)
      PROVE  Inv'
  BY <1>2, BeginPreserves
<1>3. ASSUME NEW t \in Threads, NEW fd \in Descriptors, Begin(t, "close", fd, 0)
      PROVE  Inv'
  <2>1. 0 \in 0..MaxIov
    BY FilesOK
  <2> QED
    BY <1>3, <2>1, BeginPreserves
<1>4. ASSUME NEW t \in Threads, Step(t) PROVE Inv'
  BY <1>4, ThrowPreserves, LookUpPreserves, FopenPreserves, AssignOpenedPreserves,
     ReturnOpenedPreserves, FreadPreserves, EndReadPreserves, FclosePreserves,
     ResetOpenedPreserves, UseNullFilePreserves, UseClosedFilePreserves DEF Step
<1>5. CASE UNCHANGED vars
  <2>1. TypeOK' /\ GrantInv' /\ LatestGrantStands' /\ FilesInv'
    BY <1>5 DEF vars, Inv, TypeOK, GrantInv, LatestGrantStands, FilesInv
  <2>2. UsersInv' /\ AloneInv' /\ FoundInv'
    BY <1>5 DEF vars, Inv, UsersInv, AloneInv, Alone, FoundInv, At
  <2>3. HoldsInv' /\ LeadsInv'
    BY <1>5 DEF vars, Inv, HoldsInv, Holds, LeadsInv, Leads, Owned, Opened, At
  <2>4. ReadsOwnFile' /\ StreamInOrder'
    BY <1>5 DEF vars, Inv, ReadsOwnFile, StreamInOrder
  <2> QED
    BY <2>1, <2>2, <2>3, <2>4 DEF Inv
<1> QED
  BY <1>1, <1>2, <1>3, <1>4, <1>5 DEF Next, StayHalted

THEOREM Invariance == Spec => []Inv
BY InitInv, StepInv, PTL DEF Spec

\* Types, the FILEs never more than the fopen calls that succeeded
\* (wasi_fs.cc, wasi.cc:86-143).
THEOREM TypeCorrect == Spec => []TypeOK
<1>1. Inv => TypeOK
  BY DEF Inv
<1> QED
  BY <1>1, Invariance, PTL

\* Through any sequence of mappings the two maps agree, and only a replaced
\* mapping ends a descriptor (wasi_fs.cc:22-54).
THEOREM MapsAgree == Spec => []LatestGrantStands
<1>1. Inv => LatestGrantStands
  BY DEF Inv
<1> QED
  BY <1>1, Invariance, PTL

\* Until a descriptor is closed while another thread uses it, every descriptor
\* reads its own file only, however many threads read it at once and however
\* often fopen returns the FILE* of a FILE that was closed (wasi_fs.cc:99-117).
THEOREM DescriptorsReadTheirFile == Spec => []ReadsOwnFile
<1>1. Inv => ReadsOwnFile
  BY DEF Inv
<1> QED
  BY <1>1, Invariance, PTL

\* Until then no thread is about to use a FILE that was closed, or that of another
\* descriptor (wasi_fs.cc:102-115).
THEOREM StaleOnlyAfterRace == Spec => []StaleFileNeedsRacedClose
<1>1. Inv => StaleFileNeedsRacedClose
  <2> SUFFICES ASSUME Inv, raced = {}, NEW t \in Threads, UsesFile(t), call[t].file # Null
               PROVE  files[call[t].file].open /\ files[call[t].file].fd = call[t].fd
    BY DEF StaleFileNeedsRacedClose
  <2>1. call[t] # NoCall /\ call[t].at \in {"fread", "fclose"}
    BY DEF UsesFile, At
  <2> QED
    BY <2>1 DEF Inv, HoldsInv, Holds, Owned
<1> QED
  BY <1>1, Invariance, PTL

\* Until then a descriptor that threads do not share reads its file in order from
\* the beginning, for files, buffers and numbers of iovecs of any size
\* (wasi.cc:108).
THEOREM StreamsAreInOrder == Spec => []StreamInOrder
<1>1. Inv => StreamInOrder
  BY DEF Inv
<1> QED
  BY <1>1, Invariance, PTL

\* A FILE that is open and lost had its descriptor replaced or shared, whatever
\* became of other descriptors (wasi_fs.cc:106-115).
THEOREM LostOnlyWhenShared == Spec => []OpenFilesAreFound
<1>1. Inv => OpenFilesAreFound
  BY DEF Inv, FoundInv, OpenFilesAreFound
<1> QED
  BY <1>1, Invariance, PTL
====
