---------------------------- MODULE AddressSpace ----------------------------
(***************************************************************************)
(* What vmm.c promises: an address space is one map from virtual pages to  *)
(* entries.  A call acts on the page, and with the entry, that it was      *)
(* given, at a single moment between its begin and its return: vmm_map     *)
(* writes the entry, or nothing when it fails; vmm_unmap clears it; and    *)
(* virt2phys, which takes no lock, reads it.  "Not there" is an answer     *)
(* too, and only right when the page is not mapped at that moment.         *)
(***************************************************************************)
CONSTANTS
  Threads,  \* the callers
  Virts,    \* the virtual pages
  Entries,  \* what a caller may map
  None      \* the entry of an unmapped page

VARIABLES
  mapping,  \* the entry of every virtual page
  call,     \* the call that each thread is in, with its arguments
  answer    \* what that call has found, from the moment it acts

vars == <<mapping, call, answer>>

NoCall == [op |-> "none", virt |-> <<>>, free |-> FALSE, entry |-> None]

Calls ==
  [op : {"map"}, virt : Virts, free : {FALSE}, entry : Entries]
    \cup [op : {"unmap", "virt2phys"}, virt : Virts, free : BOOLEAN, entry : {None}]

NoAnswer == [done |-> FALSE, found |-> FALSE, entry |-> None]

Answer(t, found, e) ==
  answer' = [answer EXCEPT ![t] = [done |-> TRUE, found |-> found, entry |-> e]]

Init ==
  /\ mapping = [v \in Virts |-> None]
  /\ call = [t \in Threads |-> NoCall]
  /\ answer = [t \in Threads |-> NoAnswer]

-----------------------------------------------------------------------------
Call(t) ==
  /\ call[t] = NoCall
  /\ call'[t] \in Calls
  /\ call' = [call EXCEPT ![t] = call'[t]]
  /\ UNCHANGED <<mapping, answer>>

(* The call of t has not acted yet. *)
Pending(t, ops) == call[t].op \in ops /\ ~answer[t].done

Write(v, e) == mapping' = [mapping EXCEPT ![v] = e]

Map(t) ==
  /\ Pending(t, {"map"})
  /\ Write(call[t].virt, call[t].entry)
  /\ Answer(t, TRUE, None)
  /\ UNCHANGED call

(* A vmm_unmap that returns true. *)
Unmap(t) ==
  /\ Pending(t, {"unmap"})
  /\ Write(call[t].virt, None)
  /\ Answer(t, TRUE, None)
  /\ UNCHANGED call

(* vmm_unmap returns false, or virt2phys NULL. *)
Nothing(t) ==
  /\ Pending(t, {"unmap", "virt2phys"})
  /\ mapping[call[t].virt] = None
  /\ Answer(t, FALSE, None)
  /\ UNCHANGED <<mapping, call>>

Lookup(t) ==
  /\ Pending(t, {"virt2phys"})
  /\ Answer(t, TRUE, mapping[call[t].virt])
  /\ UNCHANGED <<mapping, call>>

(* Only a vmm_map may return without having acted: out of memory. *)
Return(t) ==
  /\ call[t].op # "none"
  /\ answer[t].done \/ call[t].op = "map"
  /\ call' = [call EXCEPT ![t] = NoCall]
  /\ answer' = [answer EXCEPT ![t] = NoAnswer]
  /\ UNCHANGED mapping

Next ==
  \E t \in Threads :
    Call(t) \/ Map(t) \/ Unmap(t) \/ Nothing(t) \/ Lookup(t) \/ Return(t)

Spec == Init /\ [][Next]_vars

=============================================================================
