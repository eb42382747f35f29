----------------------------- MODULE Preferences -----------------------------
(***************************************************************************)
(* The preferences of a PicoW node: the object in RAM, which a phone        *)
(* replaces by a packet that carries the right key, and its copy in a flash *)
(* sector, which is erased and programmed, and read at the next boot.       *)
(* Both flash operations run with the rest of the node stopped; only the    *)
(* power can go between them.  A page is programmed whole or not at all.    *)
(***************************************************************************)
EXTENDS PacketCodec

CONSTANTS
    Page,        \* FLASH_PAGE_SIZE
    Sector,      \* FLASH_SECTOR_SIZE
    PhonePackets \* bound: the preferences that phones send

ASSUME FlashAssumption == Page \in Nat /\ Sector \in Nat /\ Page <= Sector
(* Phones claim the length of what this firmware reads in their packets.    *)
ASSUME PhoneAssumption ==
    \A w \in PhonePackets :
        /\ IsPacket(w) /\ w.kind = "preferences"
        /\ w.claimed = FieldsLength("preferences", Decode(w).fields)

VARIABLES
    prefs,  \* BleConnectionTracker::prefs
    flash,  \* the sector: Erased, or the packet programmed into it
    saving, \* the sector is erased and about to be programmed
    saved   \* ghost: the fields in RAM when the sector was last programmed

prefsVars == <<prefs, flash, saving, saved>>

Erased == [kind |-> "erased"]
NoPreferences == [kind |-> "preferences", ttl |-> 0, to |-> "nobody",
                  length |-> 0, fields |-> <<>>]

(* The size of a packet: header, recipient, payload and padding.            *)
PacketSize(w) == 22 + (IF w.to = "nobody" THEN 0 ELSE 8) + Remainder(w)

PreferencesInit ==
    /\ prefs = NoPreferences
    /\ flash = Erased
    /\ saving = FALSE
    /\ saved = <<>>

------------------------------------------------------------------------------
(* Mutants: the key not compared, the fields copied without the header.     *)
KeyUnchecked(p) == TRUE
AdoptedFields(p) == [p EXCEPT !.length = prefs.length]

KeyMatches(p) ==
    "key" \in DOMAIN prefs.fields =>
        /\ "key" \in DOMAIN p.fields
        /\ p.fields.key = prefs.fields.key
Adopted(p) == p

(* processWrite of a preferences packet and updatePreferences with `save`.  *)
(* The sector is erased if the packet fits a page; the erasure may fail.    *)
UpdatePreferences(w) ==
    LET p == Decode(w)
    IN /\ ~saving
       /\ p.to = "me"
       /\ KeyMatches(p)
       /\ p.fields # prefs.fields
       /\ prefs' = Written(Adopted(p))
       /\ \/ /\ PacketSize(Encode(Adopted(p))) < Page
             /\ flash' = Erased
             /\ saving' = TRUE
          \/ UNCHANGED <<flash, saving>>
       /\ UNCHANGED saved

(* flash_range_program, or its failure.                                     *)
ProgramPage ==
    /\ saving
    /\ saving' = FALSE
    /\ \/ flash' = Encode(prefs) /\ saved' = prefs.fields
       \/ UNCHANGED <<flash, saved>>
    /\ UNCHANGED prefs

(* What the boot reads from the sector.  A packet that claims more than was *)
(* programmed is read on into what lay behind it in memory: any one field   *)
(* may then come out as anything.                                           *)
FieldsInFlash ==
    LET n == ReadTo(flash, Sector)
        whole == FieldsRead(flash, MaxItems)
    IN IF n > 0 THEN {FieldsRead(flash, n)}
       ELSE {[f \in DOMAIN whole \cup {g} |-> IF f = g THEN v ELSE whole[f]] :
               g \in {Reads.preferences[t] : t \in DOMAIN Reads.preferences},
               v \in DOMAIN Bytes}

(* The power goes and comes back: main reads the sector.                    *)
PowerCut ==
    /\ IF flash = Erased
         THEN prefs' = NoPreferences
         ELSE \E fields \in FieldsInFlash :
                prefs' = [kind |-> "preferences", ttl |-> flash.ttl, to |-> flash.to,
                          length |-> flash.claimed, fields |-> fields]
    /\ saving' = FALSE
    /\ UNCHANGED <<flash, saved>>

------------------------------------------------------------------------------
(* A key that was saved is enforced from then on: whatever power cuts,      *)
(* failures of the flash and preferences too large to be saved came in      *)
(* between, the key in flash is the key updatePreferences asks for.         *)
KeyEnforced ==
    flash # Erased =>
        LET fields == FieldsRead(flash, MaxItems)
        IN "key" \in DOMAIN fields =>
             "key" \in DOMAIN prefs.fields /\ prefs.fields.key = fields.key

(* A boot restores the preferences as they were when they were programmed,  *)
(* or none at all, and never part of them: the length remembered by the     *)
(* object agrees with what writePacket wrote behind it.                     *)
BootRestores ==
    [][PowerCut => prefs'.fields = IF flash = Erased THEN <<>> ELSE saved]_prefsVars
==============================================================================
