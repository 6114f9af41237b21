---------------------------- MODULE NodeIdentity ----------------------------
(* The identity of a node on disk, from which every process of the node      *)
(* takes it: node/identity.py, and boot() of node.py, which publishes it.    *)
(* The server and the commands of cli.py are such processes; they share a    *)
(* directory without any lock. A file is written by truncating it first, so  *)
(* a process may die, and another one may look, when it is empty.            *)
(*                                                                           *)
(* The machine secret is the one kept in a file. Salt and secret are never   *)
(* replaced, so the process that made one names it. An identity is the       *)
(* number of its key; its node_id is derived from that key.                  *)
EXTENDS Integers

CONSTANTS Procs,      \* processes that use the directory
          MaxKeys,    \* bound on the keys ever made
          MaxCrashes, \* bound on the processes that die
          Absent, Empty

VARIABLES disk, pc, mem, published, made, crashes, raced
identityVars == <<disk, pc, mem, published, made, crashes, raced>>
limits == <<made, crashes, raced>>

NoKey == 0
Keys  == 1 .. MaxKeys
Materials == {"salt", "secret"}
Files == Materials \cup {"key", "meta"}
Material == Procs \cup {Empty}

\* a key, encrypted under a salt and a secret
KeyFile == [key : Keys, salt : Material, secret : Material]

ASSUME IdentityAssumption ==
  /\ Absent # Empty /\ \A x \in {Absent, Empty} : x \notin Procs \cup Keys \cup KeyFile
  /\ MaxKeys \in Nat /\ MaxCrashes \in Nat

(* What a process has: the salt and the secret it read or made, the content  *)
(* of the key file it read, its key, and the node_id it goes by.             *)
Fresh == [salt |-> Absent, secret |-> Absent, file |-> Absent, key |-> NoKey, id |-> NoKey]

Points == {<<x>> : x \in {"idle", "salt", "secret", "decrypt", "meta", "boot", "up"}}
            \cup {"open", "fill"} \X Files

IdentityTypeOK ==
  /\ disk.salt \in Material \cup {Absent} /\ disk.secret \in Material \cup {Absent}
  /\ disk.key \in KeyFile \cup {Absent, Empty}
  /\ disk.meta \in Keys \cup {Absent, Empty}
  /\ pc \in [Procs -> Points]
  /\ \A p \in Procs :
       /\ mem[p].salt \in Material \cup {Absent} /\ mem[p].secret \in Material \cup {Absent}
       /\ mem[p].file \in KeyFile \cup {Absent, Empty}
       /\ mem[p].key \in 0 .. made /\ mem[p].id \in 0 .. made
       /\ pc[p] \in {<<"boot">>, <<"up">>} => NoKey \notin {mem[p].key, mem[p].id}
  /\ published \subseteq [id : Keys, key : Keys]
  /\ made \in 0 .. MaxKeys /\ crashes \in 0 .. MaxCrashes /\ raced \in BOOLEAN

IdentityInit ==
  /\ disk = [f \in Files |-> Absent]
  /\ pc = [p \in Procs |-> <<"idle">>] /\ mem = [p \in Procs |-> Fresh]
  /\ published = {} /\ made = 0 /\ crashes = 0 /\ raced = FALSE
-----------------------------------------------------------------------------
Moves(p, to) == pc' = [pc EXCEPT ![p] = to]
Learns(p, x, v) == mem' = [mem EXCEPT ![p][x] = v]

\* the KeyStore is done with; the node_id is that of the key for now
Keeps(p, k) == mem' = [mem EXCEPT ![p] = [Fresh EXCEPT !.key = k, !.id = k]]

(* load_or_create(): whether there is a key decides what follows. If there   *)
(* is, load_private_key() reads it before it derives the key it is under.    *)
Load(p) ==
  /\ pc[p] = <<"idle">> /\ disk.key # Absent
  /\ Learns(p, "file", disk.key)
  /\ Moves(p, <<"salt">>)
  /\ UNCHANGED <<disk, published, limits>>

Create(p) ==
  /\ pc[p] = <<"idle">> /\ disk.key = Absent /\ made < MaxKeys
  /\ made' = made + 1
  /\ mem' = [mem EXCEPT ![p].key = made + 1, ![p].id = made + 1]
  /\ raced' = (raced \/ \E q \in Procs : pc[q] # <<"idle">>)
  /\ Moves(p, <<"salt">>)
  /\ UNCHANGED <<disk, published, crashes>>

AfterMaterial(p, f) ==
  IF f = "salt" THEN <<"secret">>
  ELSE IF mem[p].file = Absent THEN <<"open", "key">> ELSE <<"decrypt">>

(* Mutant of GetMaterial: what exists is made anew.                          *)
GetMaterialAnew(p, f) ==
  /\ pc[p] = <<f>>
  /\ Moves(p, <<"open", f>>)
  /\ UNCHANGED <<disk, mem, published, limits>>

\* salt and secret are read if the file exists, also if it is empty
GetMaterial(p, f) ==
  /\ pc[p] = <<f>>
  /\ IF disk[f] = Absent
     THEN Moves(p, <<"open", f>>) /\ UNCHANGED mem
     ELSE Moves(p, AfterMaterial(p, f)) /\ Learns(p, f, disk[f])
  /\ UNCHANGED <<disk, published, limits>>

\* write_bytes() and write_text(): the file is there, and empty
Truncate(p, f) ==
  /\ pc[p] = <<"open", f>>
  /\ disk' = [disk EXCEPT ![f] = Empty]
  /\ Moves(p, <<"fill", f>>)
  /\ UNCHANGED <<mem, published, limits>>

Content(p, f) ==
  CASE f \in Materials -> p
    [] f = "key"       -> [key |-> mem[p].key, salt |-> mem[p].salt, secret |-> mem[p].secret]
    [] f = "meta"      -> mem[p].id

AfterFill(p, f) ==
  CASE f \in Materials -> AfterMaterial(p, f)
    [] f = "key"       -> <<"open", "meta">>
    [] f = "meta"      -> <<"boot">>

\* and then it has its content
Fill(p, f) ==
  /\ pc[p] = <<"fill", f>>
  /\ disk' = [disk EXCEPT ![f] = Content(p, f)]
  /\ CASE f \in Materials -> Learns(p, f, p)
       [] f = "key"       -> Keeps(p, mem[p].key)
       [] f = "meta"      -> UNCHANGED mem
  /\ Moves(p, AfterFill(p, f))
  /\ UNCHANGED <<published, limits>>

Decrypts(f, salt, secret) == f \notin {Absent, Empty} /\ f.salt = salt /\ f.secret = secret

\* decrypting the key, or the IdentityError that ends the process
Decrypt(p) ==
  /\ pc[p] = <<"decrypt">>
  /\ IF Decrypts(mem[p].file, mem[p].salt, mem[p].secret)
     THEN Keeps(p, mem[p].file.key) /\ Moves(p, <<"meta">>)
     ELSE mem' = [mem EXCEPT ![p] = Fresh] /\ Moves(p, <<"idle">>)
  /\ UNCHANGED <<disk, published, limits>>

(* Mutant of ReadMeta: a file that cannot be parsed ends the process.        *)
ReadMetaStrict(p) ==
  /\ pc[p] = <<"meta">>
  /\ IF disk.meta = Empty
     THEN Moves(p, <<"idle">>) /\ mem' = [mem EXCEPT ![p] = Fresh]
     ELSE /\ Learns(p, "id", IF disk.meta = Absent THEN mem[p].key ELSE disk.meta)
          /\ Moves(p, <<"boot">>)
  /\ UNCHANGED <<disk, published, limits>>

(* Mutant of ReadMeta: a missing node_id is not derived from the key.        *)
ReadMetaOnly(p) ==
  /\ pc[p] = <<"meta">>
  /\ Learns(p, "id", IF disk.meta \in {Absent, Empty} THEN NoKey ELSE disk.meta)
  /\ Moves(p, <<"boot">>) \/ Moves(p, <<"open", "meta">>)
  /\ UNCHANGED <<disk, published, limits>>

\* the node_id is the one of the meta file, if that can be read; boot() with
\* another alias writes the file again
ReadMeta(p) ==
  /\ pc[p] = <<"meta">>
  /\ Learns(p, "id", IF disk.meta \in {Absent, Empty} THEN mem[p].key ELSE disk.meta)
  /\ Moves(p, <<"boot">>) \/ Moves(p, <<"open", "meta">>)
  /\ UNCHANGED <<disk, published, limits>>

\* what a process tells of itself, signed with its key
SignedCard(p) == [id |-> mem[p].id, key |-> mem[p].key]

\* the signed boot record, or the card the command prints
Publish(p) ==
  /\ pc[p] = <<"boot">>
  /\ published' = published \cup {SignedCard(p)}
  /\ Moves(p, <<"up">>)
  /\ UNCHANGED <<disk, mem, limits>>

\* set_alias(), over the API
SetAlias(p) ==
  /\ pc[p] = <<"up">>
  /\ Moves(p, <<"open", "meta">>)
  /\ UNCHANGED <<disk, mem, published, limits>>

\* a command is done, the server has stopped
Quit(p) ==
  /\ pc[p] = <<"up">>
  /\ Moves(p, <<"idle">>) /\ mem' = [mem EXCEPT ![p] = Fresh]
  /\ UNCHANGED <<disk, published, limits>>

\* a process dies anywhere
Crash(p) ==
  /\ pc[p] # <<"idle">> /\ crashes < MaxCrashes
  /\ crashes' = crashes + 1
  /\ Moves(p, <<"idle">>) /\ mem' = [mem EXCEPT ![p] = Fresh]
  /\ UNCHANGED <<disk, published, made, raced>>

\* the key that a new KeyStore on the directory finds: mesh/host.py makes one
\* for every handshake
DiskKey ==
  IF Decrypts(disk.key, disk.salt, disk.secret) THEN disk.key.key ELSE NoKey

\* whoever runs the node removes a key that no process could decrypt
RemoveKey ==
  /\ \A p \in Procs : mem[p].key = NoKey
  /\ disk.key # Absent /\ DiskKey = NoKey
  /\ disk' = [disk EXCEPT !.key = Absent]
  /\ UNCHANGED <<pc, mem, published, limits>>

ProcStep(p) ==
  \/ Load(p) \/ Create(p) \/ Decrypt(p) \/ ReadMeta(p) \/ Publish(p)
  \/ \E f \in Materials : GetMaterial(p, f)
  \/ \E f \in Files : Truncate(p, f) \/ Fill(p, f)

IdentityNext == RemoveKey \/ \E p \in Procs : ProcStep(p) \/ SetAlias(p) \/ Quit(p) \/ Crash(p)

IdentitySpec == IdentityInit /\ [][IdentityNext]_identityVars

(* Processes are started again and go on; the operator acts in between.      *)
FairIdentitySpec == IdentitySpec /\ SF_identityVars(RemoveKey) /\ \A p \in Procs : WF_identityVars(ProcStep(p))
-----------------------------------------------------------------------------
(* A node_id that was published belongs to the key of the process that       *)
(* published it, and this key can be decrypted from the files ever after:    *)
(* whatever process dies at whatever point, restarts, sets an alias or reads *)
(* files that another is writing. Only two processes that create an identity *)
(* at the same time can break it.                                            *)
IdentityKept == ~raced => \A x \in published : x.id = x.key /\ x.key = DiskKey

(* No crash, and no two processes that create an identity at once, leave     *)
(* files with which the node could not be started, once an operator has      *)
(* removed a key that cannot be decrypted.                                   *)
Recovers == []<>(made = MaxKeys \/ \E p \in Procs : pc[p] = <<"up">>)
=============================================================================
