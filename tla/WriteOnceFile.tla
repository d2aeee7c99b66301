--------------------------- MODULE WriteOnceFile ---------------------------
(***************************************************************************)
(* What the file layer of cfs.c promises to the requests that bb_read and  *)
(* bb_write send it, as long as every file is open through one handle, no  *)
(* call fails and the process does not crash: a linearizable map from      *)
(* block indexes to blocks in which the FIRST block registered at an index *)
(* stays there.  A later write of the same index is answered like any      *)
(* other, and changes nothing.  That is not what the comment in            *)
(* cfs_file_register_block says ("replace the block hash at this index");  *)
(* it is what its code does, and module CfsFile implements it.             *)
(*                                                                         *)
(* A request has an invocation (Begin), and a response (Finish or Read);   *)
(* a write takes effect in between, at Write, unless the index was taken.  *)
(***************************************************************************)

CONSTANTS
  Threads,   \* the FUSE worker threads
  Files,     \* the CFS files
  Indexes,   \* block indexes, offset / BLOCK_SIZE
  Blocks,    \* block contents
  Hole,      \* what a read of an unwritten index returns
  None       \* no request under way, no answer yet

VARIABLES
  content,   \* content[f][i]: the block at index i of file f, or Hole
  call,      \* call[t]: the request thread t executes, or None
  answer     \* answer[t]: what the last request of thread t returned

vars == <<content, call, answer>>

Requests ==
  [op : {"write"}, file : Files, index : Indexes, block : Blocks] \cup
  [op : {"read"}, file : Files, index : Indexes, block : {None}]

Init ==
  /\ content = [f \in Files |-> [i \in Indexes |-> Hole]]
  /\ call = [t \in Threads |-> None]
  /\ answer = [t \in Threads |-> None]

\* A request arrives.
Begin(t) ==
  /\ call[t] = None
  /\ \E r \in Requests : call' = [call EXCEPT ![t] = r]
  /\ answer' = [answer EXCEPT ![t] = None]
  /\ UNCHANGED content

\* A write of an index that is still a hole takes effect, once.
Write(t) ==
  /\ call[t] # None
  /\ call[t].op = "write"
  /\ content[call[t].file][call[t].index] = Hole
  /\ content' = [content EXCEPT ![call[t].file][call[t].index] =
                   call[t].block]
  /\ UNCHANGED <<call, answer>>

\* A write is answered only when its index holds a block.
Finish(t) ==
  /\ call[t] # None
  /\ call[t].op = "write"
  /\ content[call[t].file][call[t].index] # Hole
  /\ call' = [call EXCEPT ![t] = None]
  /\ answer' = [answer EXCEPT ![t] = "stored"]
  /\ UNCHANGED content

\* A read is answered with what its index holds at that moment.
Read(t) ==
  /\ call[t] # None
  /\ call[t].op = "read"
  /\ call' = [call EXCEPT ![t] = None]
  /\ answer' = [answer EXCEPT ![t] = content[call[t].file][call[t].index]]
  /\ UNCHANGED content

Next == \E t \in Threads : Begin(t) \/ Write(t) \/ Finish(t) \/ Read(t)

Spec == Init /\ [][Next]_vars
=============================================================================
