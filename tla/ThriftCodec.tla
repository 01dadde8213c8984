---------------------------- MODULE ThriftCodec -----------------------------
(***************************************************************************)
(* gen-go/com/store.go: how the structures of the StoreNode service are    *)
(* written to and read from a Thrift protocol.                             *)
(*                                                                         *)
(* The generated code of every structure is the same loop over another     *)
(* table of fields.  Here the loops are written once, WriteStruct and      *)
(* ReadStruct, and a structure is its table.  What is on the wire is the   *)
(* sequence of the fields written, ended by Stop; a field is its type, its *)
(* id and its value.  A connection that breaks in the middle of a request  *)
(* leaves a prefix of that sequence, and the read fails.                   *)
(***************************************************************************)
EXTENDS Integers, Sequences, FiniteSetsExt

Field(id, name, type) == [id |-> id, name |-> name, type |-> type]

Stop == [type |-> "stop"]

\* What a field holds when the reader has not met it.
Zero(type) == CASE type = "string" -> ""
                [] type \in {"i32", "i64"} -> 0
                [] type = "bool" -> FALSE
                [] type = "list" -> << >>

\* Fields are written in the order of the table, whatever their values.
WriteStruct(fields, v) ==
  Append([i \in DOMAIN fields |-> [type |-> fields[i].type,
                                   id |-> fields[i].id,
                                   value |-> v[fields[i].name]]], Stop)

\* Reading ends at Stop; without one ReadFieldBegin fails.
Complete(wire) == \E i \in DOMAIN wire : wire[i] = Stop

\* Where a field occurs: fields with other ids are skipped.
Found(field, wire) == {i \in DOMAIN wire : /\ wire[i] # Stop
                                           /\ wire[i].id = field.id}

\* A field met again overwrites the value read before.
ReadStruct(fields, wire) ==
  LET value(f) == IF Found(f, wire) = {} THEN Zero(f.type)
                  ELSE wire[Max(Found(f, wire))].value
  IN  [name \in {fields[i].name : i \in DOMAIN fields} |->
         value(CHOOSE f \in {fields[i] : i \in DOMAIN fields} :
                 f.name = name)]

-----------------------------------------------------------------------------
(* The structures.                                                         *)

SyncCommand == <<Field(1, "key", "string"), Field(2, "count", "i32"),
                 Field(3, "expiry", "i64"), Field(4, "force", "bool")>>

StoreNodeSyncKeysArgs == <<Field(1, "syncs", "list")>>

StoreNodeSyncRateConfigArgs ==
  <<Field(1, "key", "string"), Field(2, "threshold", "i32"),
    Field(3, "window", "i32"), Field(4, "peakaveraged", "bool")>>

StoreNodeIncrActionArgs ==
  <<Field(1, "key", "string"), Field(2, "count", "i32"),
    Field(3, "threshold", "i32"), Field(4, "window", "i32"),
    Field(5, "peakaveraged", "bool")>>

StoreNodeRateLimitGlobalActionArgs ==
  <<Field(1, "key", "string"), Field(2, "count", "i32")>>

\* success is a pointer, written if it is set; GetSuccess takes nil for FALSE.
\* The results of SyncKeys and SyncRateConfig have no fields.
StoreNodeIncrActionResult == <<Field(0, "success", "bool")>>

StoreNodeRateLimitGlobalActionResult == <<Field(0, "success", "bool")>>

\* The list of SyncKeys is written and read element by element.
WriteSyncs(syncs) ==
  WriteStruct(StoreNodeSyncKeysArgs,
              [syncs |-> [i \in DOMAIN syncs |->
                            WriteStruct(SyncCommand, syncs[i])]])

ReadSyncs(wire) ==
  LET list == ReadStruct(StoreNodeSyncKeysArgs, wire).syncs
  IN  [i \in DOMAIN list |-> ReadStruct(SyncCommand, list[i])]
=============================================================================
