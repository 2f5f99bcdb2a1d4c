------------------------------ MODULE MCMemory ------------------------------
(* Cartridges and bytes for the checks of Memory.                          *)
EXTENDS Memory

Cart(type, rom, ram, cgb) == [mbc |-> type, rom |-> rom, ram |-> ram, cgb |-> cgb]

(* One cartridge per way of banking.  The MBC1 has a ROM that masks off     *)
(* part of the high register, the MBC5 one that needs all of it; the MBC3  *)
(* and MBC2 have less RAM than they can select.  The colour game, whose    *)
(* other banks multiply every state, is one without a mapper.              *)
MCCarts == {Cart("MBC1", 64, 4, FALSE), Cart("MBC2", 4, 1, FALSE),
            Cart("MBC3", 4, 1, FALSE), Cart("MBC5", 512, 16, FALSE),
            Cart("NONE", 2, 1, TRUE)}

(* Zero, which selects bank one; the byte that opens the RAM gate and      *)
(* selects a clock register; and one that sets the high halves.            *)
MCBytes == {0, 10, 33}
=============================================================================
