----------------------------- MODULE AddressMap -----------------------------
(***************************************************************************)
(* What mount_page, umount_page, remap_pages and alloc_pages promise, said *)
(* without page tables: a map from virtual pages to physical ones.  A call *)
(* changes the entry of the page it was made for and of no other, and      *)
(* returns when that entry is as asked.  PageTables is shown to implement  *)
(* this specification.                                                     *)
(***************************************************************************)
EXTENDS Integers

CONSTANTS Addr,    \* virtual pages
          Frame,   \* physical pages
          Caller   \* tasks that call

VARIABLES vmap,    \* vmap[a]: the page-table entry that translates a
          call,    \* per caller: the call under way
          page,    \* the page it was made for
          entry,   \* what a mount is to enter
          dest     \* where a remap mounts what it unmounted

vars == <<vmap, call, page, entry, dest>>

Entry == [frame : Frame, exists : {0, 1}, user : {0, 1}]

Init ==
    /\ vmap \in [Addr -> Entry]
    /\ call = [c \in Caller |-> "idle"]
    /\ page \in [Caller -> Addr]
    /\ entry \in [Caller -> Entry]
    /\ dest \in [Caller -> Addr]

Start(c) ==
    /\ call[c] = "idle"
    /\ \E k \in {"mount", "umount", "remap"} : call' = [call EXCEPT ![c] = k]
    /\ \E a \in Addr : page' = [page EXCEPT ![c] = a]
    /\ \E e \in Entry : /\ call'[c] = "mount" => e.exists = 1
                        /\ entry' = [entry EXCEPT ![c] = e]
    /\ \E b \in Addr : dest' = [dest EXCEPT ![c] = b]
    /\ UNCHANGED vmap

Mount(c) ==
    /\ call[c] = "mount"
    /\ vmap' = [vmap EXCEPT ![page[c]] = entry[c]]
    /\ UNCHANGED <<call, page, entry, dest>>

\* The physical page stays on record; only the translation is switched off.
Unmount(c) ==
    /\ call[c] \in {"umount", "remap"}
    /\ vmap' = [vmap EXCEPT ![page[c]].exists = 0]
    /\ UNCHANGED <<call, page, entry, dest>>

\* remap_pages: the page that was unmounted is mounted at its new place.
Move(c) ==
    /\ call[c] = "remap"
    /\ vmap[page[c]].exists = 0
    /\ call' = [call EXCEPT ![c] = "mount"]
    /\ page' = [page EXCEPT ![c] = dest[c]]
    /\ entry' = [entry EXCEPT ![c] = [frame |-> vmap[page[c]].frame, exists |-> 1, user |-> 0]]
    /\ UNCHANGED <<vmap, dest>>

Finish(c) ==
    /\ \/ call[c] = "mount" /\ vmap[page[c]] = entry[c]
       \/ call[c] = "umount" /\ vmap[page[c]].exists = 0
    /\ call' = [call EXCEPT ![c] = "idle"]
    /\ UNCHANGED <<vmap, page, entry, dest>>

Next ==
    \E c \in Caller : Start(c) \/ Mount(c) \/ Unmount(c) \/ Move(c) \/ Finish(c)

Spec == Init /\ [][Next]_vars
=============================================================================
