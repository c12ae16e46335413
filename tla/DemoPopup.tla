------------------------------- MODULE DemoPopup -------------------------------
(***************************************************************************)
(* Two of the demo extension's hard corners, in its popup                  *)
(* (demo-extension/src/popup.ts) and its service worker (background.ts):   *)
(* the log, appended to through a chain of promises, kept in session       *)
(* storage and drawn incrementally, and the bootstrap field, filled by     *)
(* probes that are slower than the person who picks another preset.        *)
(*                                                                         *)
(* A definition named X_Why is X with a plausible slip, which a property   *)
(* has to notice; the specification uses none of them.                     *)
(***************************************************************************)
EXTENDS SequencesExt, Naturals

CONSTANTS
  LogRows,    \* LOG_ROWS
  MaxRows,    \* how many rows are ever appended (bound)
  Chains,     \* the chains of the presets
  MaxProbes   \* how many times the popup looks for an endpoint (bound)

ASSUME LogRowsAssumption == LogRows \in Nat \ {0}

VARIABLES
  rows,       \* session storage: the log's rows, the n-th appended being n
  tail,       \* logTail: how many appends are called for, begun and stored, and
              \* what the one that is begun has loaded
  cleared,    \* history: the rows that had been stored or loaded at the last clear
  reply,      \* the rows on their way to the popup, or none
  clearing,   \* the popup has yet to hear that the log is cleared
  drawer,     \* what the popup shows, and the length it remembers drawing
  field,      \* the bootstrap field: its value, chain and placeholder
  proven,     \* bootstraps: the chains with an endpoint that has served
  probes      \* the probes under way

logVars == <<rows, tail, cleared, reply, clearing, drawer>>
fieldVars == <<field, proven, probes>>

Blank == [shown |-> <<>>, drawn |-> 0]

PopupInit ==
  /\ rows = <<>>
  /\ tail = [asked |-> 0, begun |-> 0, stored |-> 0, loaded |-> <<>>]
  /\ cleared = 0
  /\ reply = <<>>
  /\ clearing = FALSE
  /\ drawer = Blank
  /\ field = [value |-> "empty", chain |-> 0, note |-> 0]
  /\ proven \in SUBSET Chains
  /\ probes = <<>>

-----------------------------------------------------------------------------
(* The log *)

AppendLog ==
  /\ tail.asked < MaxRows
  /\ tail' = [tail EXCEPT !.asked = @ + 1]
  /\ UNCHANGED <<rows, cleared, reply, clearing, drawer>>

AppendLoads_AtOnce ==
  /\ tail.begun < tail.asked
  /\ tail' = [tail EXCEPT !.begun = @ + 1, !.loaded = Append(@, Append(rows, tail.begun + 1))]
  /\ UNCHANGED <<rows, cleared, reply, clearing, drawer>>

\* an append begins when the one before it has stored
AppendLoads ==
  /\ tail.begun < tail.asked /\ tail.stored = tail.begun
  /\ tail' = [tail EXCEPT !.begun = @ + 1, !.loaded = Append(@, Append(rows, tail.begun + 1))]
  /\ UNCHANGED <<rows, cleared, reply, clearing, drawer>>

AppendStores ==
  LET all == Head(tail.loaded)
  IN  /\ tail.loaded # <<>>
      /\ rows' = SubSeq(all, Max({0, Len(all) - LogRows}) + 1, Len(all))
      /\ tail' = [tail EXCEPT !.stored = @ + 1, !.loaded = Tail(@)]
      /\ UNCHANGED <<cleared, reply, clearing, drawer>>

(***************************************************************************)
(* renderLogs: rows at or past the length already drawn are appended, and  *)
(* anything shorter is drawn anew.                                         *)
(***************************************************************************)
Render(received) ==
  LET append == Len(received) >= drawer.drawn /\ drawer.drawn > 0
      from == IF append THEN drawer.drawn ELSE 0
  IN  drawer' = [shown |-> SubSeq(drawer.shown, 1, IF append THEN Len(drawer.shown) ELSE 0)
                           \o SubSeq(received, from + 1, Len(received)),
                 drawn |-> Len(received)]

\* the clear is not one of the chain of appends
ClearLogs ==
  /\ rows # <<>> /\ ~clearing
  /\ rows' = <<>>
  /\ cleared' = tail.begun
  /\ clearing' = TRUE
  /\ UNCHANGED <<tail, reply, drawer>>

ClearTold ==
  /\ clearing
  /\ clearing' = FALSE
  /\ drawer' = Blank
  /\ UNCHANGED <<rows, tail, cleared, reply>>

RefreshLogs ==
  /\ reply = <<>>
  /\ reply' = <<rows>>
  /\ UNCHANGED <<rows, tail, cleared, clearing, drawer>>

LogsArrive ==
  /\ reply # <<>>
  /\ Render(reply[1])
  /\ reply' = <<>>
  /\ UNCHANGED <<rows, tail, cleared, clearing>>

\* the popup is closed and opened again, which draws nothing yet
Reopen ==
  /\ drawer # Blank
  /\ drawer' = Blank /\ reply' = <<>> /\ clearing' = FALSE
  /\ UNCHANGED <<rows, tail, cleared>>

-----------------------------------------------------------------------------
(* The bootstrap field *)

\* a chain's name is its number, and so is a value found or proven for it
Prefill(chain) ==
  probes' = Append(probes, [chain |-> chain, restore |-> field.note])

UseChain(chain) ==
  IF chain = field.chain /\ field.value # "empty" THEN UNCHANGED <<field, probes>>
  ELSE IF chain \in proven
       THEN /\ field' = [field EXCEPT !.chain = chain, !.value = ToString(chain)]
            /\ UNCHANGED probes
       ELSE /\ field' = [value |-> "empty", chain |-> chain, note |-> chain]
            /\ Prefill(chain)

\* a preset is picked, or the specifier edited into one
ApplyPreset(chain) ==
  /\ Len(probes) < MaxProbes
  /\ UseChain(chain)
  /\ UNCHANGED proven

Type ==
  /\ field.chain # 0
  /\ field' = [field EXCEPT !.value = "typed"]
  /\ UNCHANGED <<proven, probes>>

ProbeEnds_FillsAnyway(i, found) ==
  LET probe == probes[i]
  IN  /\ probes' = RemoveAt(probes, i)
      /\ field' = [field EXCEPT !.note = probe.restore,
           !.value = IF found /\ @ = "empty" THEN ToString(probe.chain) ELSE @]
      /\ UNCHANGED proven

ProbeEnds(i, found) ==
  LET probe == probes[i]
      stale == field.chain # probe.chain
  IN  /\ probes' = RemoveAt(probes, i)
      /\ field' = [field EXCEPT !.note = probe.restore,
           !.value = IF found /\ @ = "empty" /\ ~stale THEN ToString(probe.chain) ELSE @]
      /\ UNCHANGED proven

LogNext ==
  \/ AppendLog \/ AppendLoads \/ AppendStores \/ ClearLogs \/ ClearTold
  \/ RefreshLogs \/ LogsArrive \/ Reopen

FieldNext ==
  \/ \E chain \in Chains : ApplyPreset(chain)
  \/ Type
  \/ \E i \in DOMAIN probes, found \in BOOLEAN : ProbeEnds(i, found)

-----------------------------------------------------------------------------

(***************************************************************************)
(* background.ts:113: no append is lost to another.  What is stored is the *)
(* newest rows up to the last that was stored, back to the last clear or   *)
(* to the buffer's limit.                                                  *)
(***************************************************************************)
LogKept ==
  LET kept == {n \in 1 .. tail.stored : n > cleared /\ n > tail.stored - LogRows}
  IN  /\ kept \subseteq ToSet(rows)
      /\ \A i, j \in DOMAIN rows : i < j => rows[i] < rows[j]

(***************************************************************************)
(* popup.ts:190-192: a probe never overwrites what was typed, and what it  *)
(* fills in is for the chain the picker is on.                             *)
(***************************************************************************)
FieldHonest ==
  [][/\ field'.value \in {ToString(c) : c \in Chains} => field'.value = ToString(field'.chain)
     /\ field.value = "typed" /\ field'.value # "typed" => field'.chain # field.chain]_fieldVars

(***************************************************************************)
(* popup.ts:79: "The buffer is a capped window, so it can shrink from the  *)
(* front as well as grow at the back.  Only an append is incremental;      *)
(* anything else redraws."  In a log that is never cleared, what the       *)
(* drawer shows when rows were received is those rows.                     *)
(***************************************************************************)
DrawerShowsRows ==
  [][reply # <<>> /\ reply' = <<>> /\ drawer' # Blank /\ cleared' = 0
       => drawer'.shown = reply[1]]_logVars

=============================================================================
