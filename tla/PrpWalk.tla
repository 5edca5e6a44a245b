------------------------------ MODULE PrpWalk -------------------------------
(***************************************************************************)
(* How the data of one command is moved between storage and the memory of  *)
(* the host, which is given by physical pages: the first in prp1, the      *)
(* second in prp2, or, when there are more, all but the first in a list to *)
(* which prp2 points.  The same loop is in __do_perform_io (io.c),         *)
(* __prp_transfer_data (zone report) and three times in kv_ftl.c;          *)
(* __do_perform_io_using_dma first collects the addresses and then moves   *)
(* runs of adjacent pages together.                                        *)
(*                                                                         *)
(* Memory is counted in some unit; address a is unit a % PAGE_SIZE of page *)
(* a \div PAGE_SIZE.  `copied' records for each unit of the data with      *)
(* which address it was exchanged.  All pages, those of the list too, are  *)
(* ordinary memory: the fallback for addresses without a valid page frame  *)
(* (memremap of the address itself, to which the offset in the page is     *)
(* added again, for a list in entries instead of bytes) is not modelled.   *)
(***************************************************************************)
EXTENDS Integers, Sequences, FiniteSetsExt

CONSTANTS
    PAGE_SIZE,  \* units of a page
    MaxLength,  \* bound: units of a command
    NrFrames    \* bound: pages of the memory of the host

ASSUME PrpAssumption ==
    PAGE_SIZE \in Nat \ {0} /\ MaxLength \in Nat /\ NrFrames \in Nat

VARIABLES
    cmd,            \* the command [length, prp1, prp2, list, pages], or None
    prp_offs,       \* entries looked at
    remaining,
    paddr_list,     \* of the DMA variant: the addresses collected
    copied,
    how             \* "copy" with memcpy, or by DMA: "collect", then "move"

prpVars == <<cmd, prp_offs, remaining, paddr_list, copied, how>>

None == [length |-> 0]
NoPage == 0
Frames == 1 .. NrFrames
offs(paddr) == paddr % PAGE_SIZE

InitPrp ==
    /\ cmd = None
    /\ prp_offs = 0
    /\ remaining = 0
    /\ paddr_list = <<>>
    /\ copied = <<>>
    /\ how = "copy"

(***************************************************************************)
(* The host: a buffer of any length that starts anywhere in a page, its    *)
(* pages anywhere in memory.                                               *)
(***************************************************************************)
pages_of(off, length) == (off + length + PAGE_SIZE - 1) \div PAGE_SIZE

\* the pages of a buffer as prp1, prp2 and list
command(off, length, pages) ==
    LET addr == [i \in DOMAIN pages |-> pages[i] * PAGE_SIZE]
    IN  [length |-> length, pages |-> pages,
         prp1 |-> addr[1] + off,
         prp2 |-> IF Len(pages) = 2 THEN addr[2] ELSE NoPage,
         list |-> [i \in 0 .. NrFrames |-> IF Len(pages) > 2 /\ i + 2 \in DOMAIN pages
                                           THEN addr[i + 2] ELSE NoPage]]

submit_buffer(off, length, pages, way) ==
    /\ cmd = None
    /\ cmd' = command(off, length, pages)
    /\ prp_offs' = 0
    /\ remaining' = length
    /\ paddr_list' = <<>>
    /\ copied' = <<>>
    /\ how' = way

(***************************************************************************)
(* The loop of __do_perform_io().                                          *)
(***************************************************************************)
\* mutant: two whole pages are taken for a list
prp2_is_list_early == remaining >= PAGE_SIZE

\* at the second entry
prp2_is_list == remaining > PAGE_SIZE

\* the address of the next piece.  The list is used from the third entry on
paddr ==
    CASE prp_offs = 0 -> cmd.prp1
      [] prp_offs = 1 /\ ~prp2_is_list -> cmd.prp2
      [] prp_offs = 1 /\ prp2_is_list -> cmd.list[0]
      [] OTHER -> cmd.list[prp_offs - 1]

\* what fits into the page
io_size(addr, left) == Min({left, PAGE_SIZE - offs(addr)})

\* the next n units of the data go to addr
exchanged(addr, n) == copied \o [i \in 1 .. n |-> addr + i - 1]

copy_piece ==
    /\ cmd # None /\ how = "copy" /\ remaining > 0
    /\ prp_offs' = prp_offs + 1
    /\ copied' = exchanged(paddr, io_size(paddr, remaining))
    /\ remaining' = remaining - io_size(paddr, remaining)
    /\ UNCHANGED <<cmd, paddr_list, how>>

(***************************************************************************)
(* __do_perform_io_using_dma().                                            *)
(***************************************************************************)
\* the loop that gets the list
collect_piece ==
    /\ cmd # None /\ how = "collect" /\ remaining > 0
    /\ prp_offs' = prp_offs + 1
    /\ paddr_list' = Append(paddr_list, paddr)
    /\ remaining' = remaining - io_size(paddr, remaining)
    /\ UNCHANGED <<cmd, copied, how>>

collected ==
    /\ cmd # None /\ how = "collect" /\ remaining = 0
    /\ how' = "move"
    /\ prp_offs' = 1
    /\ remaining' = cmd.length
    /\ UNCHANGED <<cmd, paddr_list, copied>>

\* the last entry of the run of adjacent pages from entry i on
run_end(i) == Max({j \in i .. Len(paddr_list) :
                    \A k \in i + 1 .. j : paddr_list[k] = paddr_list[k - 1] + PAGE_SIZE})

\* ioat_dma_submit() of a run
move_run ==
    LET start == paddr_list[prp_offs]
        page_size == io_size(start, remaining) + (run_end(prp_offs) - prp_offs) * PAGE_SIZE
        n == Min({remaining, page_size})
    IN  /\ cmd # None /\ how = "move" /\ remaining > 0
        /\ copied' = exchanged(start, n)
        /\ remaining' = remaining - n
        /\ prp_offs' = run_end(prp_offs) + 1
        /\ UNCHANGED <<cmd, paddr_list, how>>

\* the function returns
done ==
    /\ cmd # None /\ how # "collect" /\ remaining = 0
    /\ cmd' = None
    /\ prp_offs' = 0
    /\ paddr_list' = <<>>
    /\ copied' = <<>>
    /\ how' = "copy"
    /\ UNCHANGED remaining

NextPrp ==
    \/ \E length \in 1 .. MaxLength, off \in 0 .. PAGE_SIZE - 1 :
         \E pages \in {s \in [1 .. pages_of(off, length) -> Frames] :
                          \A i, j \in DOMAIN s : i # j => s[i] # s[j]},
            way \in {"copy", "collect"} : submit_buffer(off, length, pages, way)
    \/ copy_piece
    \/ collect_piece
    \/ collected
    \/ move_run
    \/ done

PrpSpec == InitPrp /\ [][NextPrp]_prpVars

(***************************************************************************)
(* Properties.                                                             *)
(***************************************************************************)
\* unit i of the buffer of a command
buffer_addr(i) ==
    LET at == offs(cmd.prp1) + i - 1
    IN  cmd.pages[1 + at \div PAGE_SIZE] * PAGE_SIZE + offs(at)

\* whatever the length of a transfer and wherever its buffer starts, and also
\* when adjacent pages are moved in one go: each unit of the data is exchanged
\* with its own place in the buffer, in order, none twice, and when the loop
\* ends none is left out
BufferExact ==
    cmd # None =>
        /\ Len(copied) <= cmd.length
        /\ \A i \in DOMAIN copied : copied[i] = buffer_addr(i)
        /\ how # "collect" => Len(copied) + remaining = cmd.length
=============================================================================
