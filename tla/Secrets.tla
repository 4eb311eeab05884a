------------------------------- MODULE Secrets -------------------------------
(***************************************************************************)
(* The store of secrets (src/src/secrets.rs): a map in memory and the      *)
(* encrypted file it is written to as a whole, through a temporary file    *)
(* that replaces the old one.  A write that fails changes neither.         *)
(*                                                                         *)
(* The maintenance command (--set-secret, --remove-secret; main.rs) is a   *)
(* second process with a map of its own, read when it starts.  Nothing     *)
(* keeps it and the running service apart: each writes its whole map.      *)
(***************************************************************************)
EXTENDS Integers

CONSTANTS
  Secret,     \* the names
  NoCommand,  \* no maintenance command is running
  MaxValue    \* bound on the values ever made up

ASSUME SecretsAssumption == MaxValue \in Nat

VARIABLES
  cache,    \* the service's map; 0: the name is not in it
  file,     \* secrets.enc
  command,  \* the map of the maintenance command
  values    \* the values made up so far

secrets == <<cache, file, command, values>>

Map == [Secret -> 0..MaxValue]

SecretsTypeOK ==
  /\ cache \in Map /\ file \in Map
  /\ command \in Map \cup {NoCommand}
  /\ values \in 0..MaxValue

SecretsInit ==
  /\ cache = [n \in Secret |-> 0]
  /\ file = [n \in Secret |-> 0]
  /\ command = NoCommand
  /\ values = 0

(* flush_map and then the cache: what the service writes is its whole map. *)
Flush(map) == file' = map /\ cache' = map /\ UNCHANGED command

NewValue == values < MaxValue /\ values' = values + 1

SetSecret(n) == NewValue /\ Flush([cache EXCEPT ![n] = values'])

RemoveSecret(n) == Flush([cache EXCEPT ![n] = 0]) /\ UNCHANGED values

(* Mutant: the value is made up whether there is one or not.               *)
EnsureAnew(n) == SetSecret(n)

(* get_or_try_insert_with: under the lock, so that it is one step.         *)
Ensure(n) ==
  IF cache[n] # 0 THEN UNCHANGED secrets
  ELSE SetSecret(n)

CommandOpens == command = NoCommand /\ command' = file /\ UNCHANGED <<cache, file, values>>

CommandWrites(n) ==
  /\ command # NoCommand
  /\ \/ NewValue /\ file' = [command EXCEPT ![n] = values']
     \/ UNCHANGED values /\ file' = [command EXCEPT ![n] = 0]
  /\ command' = NoCommand
  /\ UNCHANGED cache

(* The service starts again.                                               *)
Reopen == cache' = file /\ UNCHANGED <<file, command, values>>

(* One of the two processes holds a map that is not what the file says.    *)
Behind == cache # file \/ command \notin {NoCommand, file}
=============================================================================
