------------------------------ MODULE Composer ------------------------------
(* The prompt composer of the terminal interface (state/composer.rs): the text
   and its cursor, the attachments behind placeholders such as [Paste #1], the
   attachment rows, the kill buffer, and the histories that recall drafts.

   The text is a sequence of tokens. A placeholder is two of them, its opening
   ("[Paste #1") and the closing bracket, so the cursor can stand inside it and an
   edit can break or restore it. An opening also carries the payload it was
   inserted for, which the code does not know: two openings with the same kind
   and number are the same text. Files behave as images and are left out. *)
EXTENDS Naturals, FiniteSets, Sequences, SequencesExt, FiniteSetsExt

CONSTANTS MaxPastes,    \* bound: payloads of large pastes, numbered
          Images,       \* local images, inserted behind a placeholder
          MaxRemotes,   \* bound: remote images, numbered, kept as rows above the prompt
          MaxText,      \* bound: tokens of a text
          MaxHistory,   \* MAX_COMPOSER_HISTORY_ENTRIES
          MaxSteps      \* bound: operations that change the draft or record it

VARIABLES draft,        \* input, input_cursor, draft_attachments
          selected,     \* selected_row_attachment, counted from 1, 0 for None
          nav,          \* input_history_navigation, index 0 for None
          provenance,   \* composer_input_provenance
          kill,         \* kill_buffer
          hist,         \* the persisted and the session-local histories
          steps         \* how many operations were made

composerVars == <<draft, selected, nav, provenance, kill, hist, steps>>

Word(k) == [k |-> k, n |-> 0, id |-> 0]
Close == Word("close")
Opening(k, n, id) == [k |-> k, n |-> n, id |-> id]
Remote(i) == [k |-> "remote", n |-> 0, id |-> i]
Draft(t, c, a) == [text |-> t, cursor |-> c, atts |-> a]
NoDraft == Draft(<<>>, 0, <<>>)
FromText(t) == Draft(t, Len(t), <<>>)

(* str::contains for a placeholder, and where str::find finds it. *)
OccursAt(t, k, n, i) ==
    /\ i < Len(t) /\ t[i].k = k /\ t[i].n = n
    /\ t[i + 1] = Close
Occurs(t, k, n) == \E i \in DOMAIN t : OccursAt(t, k, n, i)
Find(t, a) == Min({i \in DOMAIN t : OccursAt(t, a.k, a.n, i)})

IsRow(a) == a.n = 0
IsInline(a) == a.n # 0
Rows(atts) == SelectSeq(atts, IsRow)
Inlines(atts) == SelectSeq(atts, IsInline)

(* normalize_attachment_placeholders: pastes count from one, inline images after
   the remote ones. Every occurrence of a changed placeholder is renamed through a
   temporary name, attachment by attachment. *)
Count(atts, k, upTo) == Cardinality({j \in 1..upTo : atts[j].k = k /\ (k = "image" => atts[j].n # 0)})
Renumbered(atts, i) ==
    CASE atts[i].k = "paste" -> Count(atts, "paste", i)
      [] atts[i].k = "image" /\ atts[i].n # 0 ->
            Count(atts, "remote", Len(atts)) + Count(atts, "image", i)
      [] OTHER -> 0
Renaming(atts, token) ==
    {i \in DOMAIN atts : /\ atts[i].n # 0 /\ atts[i].k = token.k /\ atts[i].n = token.n
                         /\ Renumbered(atts, i) # atts[i].n}
(* Fault: renaming in place, without temporary names. *)
RenamedInPlace(t, atts) ==
    [i \in DOMAIN t |->
        IF i < Len(t) /\ t[i + 1] = Close /\ Renaming(atts, t[i]) # {}
        THEN LET first == Min(Renaming(atts, t[i]))
                 once == [t[i] EXCEPT !.n = Renumbered(atts, first)]
                 again == {j \in Renaming(atts, once) : j > first}
             IN IF again = {} THEN once ELSE [once EXCEPT !.n = Renumbered(atts, Min(again))]
        ELSE t[i]]

NormalizeText(t, atts) ==
    [i \in DOMAIN t |->
        IF i < Len(t) /\ t[i + 1] = Close /\ Renaming(atts, t[i]) # {}
        THEN [t[i] EXCEPT !.n = Renumbered(atts, Min(Renaming(atts, t[i])))]
        ELSE t[i]]
NormalizeAtts(atts) == [i \in DOMAIN atts |-> [atts[i] EXCEPT !.n = Renumbered(atts, i)]]
Renormalize(d) ==
    Draft(NormalizeText(d.text, d.atts), Min({d.cursor, Len(d.text)}), NormalizeAtts(d.atts))

(* prune_draft_attachments and ComposerDraftState::normalized: attachments whose
   placeholder is gone from the text are dropped first. *)
Normalized(d) ==
    LET bound(a) == IsRow(a) \/ Occurs(d.text, a.k, a.n)
    IN Renormalize([d EXCEPT !.atts = SelectSeq(@, bound)])

Starts(t, k) == t # <<>> /\ t[1].k = k
IsCommand(d) == Starts(d.text, "slash")

(* submitted_prompt_snapshot_from_draft: what the code can compare of a draft. *)
Snapshot(d) ==
    [text |-> [i \in DOMAIN d.text |-> <<d.text[i].k, d.text[i].n>>], atts |-> d.atts]
Bounded(s) == IF Len(s) > MaxHistory THEN Tail(s) ELSE s
Pushed(s, d) ==
    IF s # <<>> /\ Snapshot(Last(s)) = Snapshot(d) THEN s ELSE Bounded(Append(s, d))

(* record_local_input_draft and stash_current_input_draft. *)
RecordLocal(h, d) ==
    IF d.text = <<>> /\ d.atts = <<>> THEN h
    ELSE IF IsCommand(d) THEN [h EXCEPT !.localCommands = Pushed(@, d)]
    ELSE [h EXCEPT !.localPrompts = Pushed(@, d)]

(* record_input_history and record_command_history: the list of the kind first, and
   the combined list only when that one took the entry. *)
RecordPersistent(h, kind, d) ==
    LET list == IF kind = "command" THEN h.commands ELSE h.prompts
        entry == [kind |-> kind, prompt |-> d]
        fresh == ~(list # <<>> /\ Snapshot(Last(list)) = Snapshot(d))
        entries == IF h.entries # <<>> /\ Last(h.entries).kind = kind
                      /\ Snapshot(Last(h.entries).prompt) = Snapshot(d)
                   THEN h.entries ELSE Bounded(Append(h.entries, entry))
    IN IF (d.text = <<>> /\ d.atts = <<>>) \/ ~fresh THEN h
       ELSE IF kind = "command"
            THEN [h EXCEPT !.commands = Bounded(Append(@, d)), !.entries = entries]
            ELSE [h EXCEPT !.prompts = Bounded(Append(@, d)), !.entries = entries]

(* history_entry_drafts_for_mode: the session's own drafts follow the persisted
   entries and replace the suffix they share with them. *)
PromptOf(e) == e.prompt
EntriesFor(h, mode) ==
    LET persisted == CASE mode = "prompts" -> h.prompts
                       [] mode = "commands" -> h.commands
                       [] OTHER -> [i \in DOMAIN h.entries |-> PromptOf(h.entries[i])]
        local == IF mode = "commands" THEN h.localCommands ELSE h.localPrompts
        same(j) == Snapshot(local[Len(local) - j]) = Snapshot(persisted[Len(persisted) - j])
        shared == Max({c \in 0..Min({Len(local), Len(persisted)}) :
                          \A j \in 0..(c - 1) : same(j)})
    IN SubSeq(persisted, 1, Len(persisted) - shared) \o local

BrowseMode ==
    IF provenance = "manual" /\ IsCommand(draft) THEN "commands"
    ELSE IF hist.entries = <<>> THEN "prompts" ELSE "combined"

NoNav == [mode |-> "none", index |-> 0, draft |-> NoDraft, provenance |-> "empty"]
NoKill == [text |-> <<>>, atts |-> <<>>]
Provenance(d, p) == IF d.text = <<>> THEN "empty" ELSE p

(* load_input_history and set_input_history: the lists of the two kinds are read off
   the combined one, and the session's own histories are empty. *)
EntriesOf(entries, kind) ==
    LET is(e) == e.kind = kind
        some == SelectSeq(entries, is)
    IN [i \in DOMAIN some |-> PromptOf(some[i])]
Loaded(entries) ==
    [prompts |-> EntriesOf(entries, "prompt"), commands |-> EntriesOf(entries, "command"),
     entries |-> entries, localPrompts |-> <<>>, localCommands |-> <<>>]

(* A workspace without a history, and one with a history, whose entries count as
   steps already made. *)
Earlier == <<[kind |-> "command", prompt |-> FromText(<<Word("slash")>>)],
             [kind |-> "prompt", prompt |-> FromText(<<Word("char")>>)]>>
ComposerInit ==
    /\ draft = NoDraft /\ selected = 0 /\ nav = NoNav /\ provenance = "empty"
    /\ kill = NoKill
    /\ hist \in {Loaded(<<>>), Loaded(Earlier)} /\ steps = Len(hist.entries)

-----------------------------------------------------------------------------
(* Fault: an edit leaves the navigation. *)
EditedBrowsing(d, p) ==
    /\ draft' = d /\ provenance' = Provenance(d, p)
    /\ selected' = 0 /\ UNCHANGED nav

(* What an edit of the draft resets: the selected row and the navigation. *)
Edited(d, p) ==
    /\ draft' = d /\ provenance' = Provenance(d, p)
    /\ selected' = 0 /\ nav' = NoNav

Inserted(d, tokens) ==
    [d EXCEPT !.text = SubSeq(@, 1, d.cursor) \o tokens \o SubSeq(@, d.cursor + 1, Len(@)),
              !.cursor = @ + Len(tokens)]
Fits(tokens) == Len(draft.text) + Len(tokens) <= MaxText

(* push_input_char: the attachments are not looked at. *)
Type(k) ==
    /\ Fits(<<k>>) /\ Edited(Inserted(draft, <<Word(k)>>), "manual")
    /\ UNCHANGED <<kill, hist>>

(* push_large_paste: numbered after the highest paste of the draft. The payload is one
   that neither the draft nor the kill buffer holds. *)
NextPaste == Max({0} \cup {a.n : a \in {b \in Range(draft.atts) : b.k = "paste"}}) + 1
Payloads(atts) == {atts[i].id : i \in DOMAIN atts}
PushLargePaste ==
    LET unused == 1..MaxPastes \ (Payloads(draft.atts) \cup Payloads(kill.atts))
        att == [k |-> "paste", n |-> NextPaste, id |-> Min(unused)]
        tokens == <<Opening("paste", att.n, att.id), Close>>
    IN /\ unused # {} /\ Fits(tokens)
       /\ Edited([Inserted(draft, tokens) EXCEPT !.atts = Append(@, att)], "manual")
       /\ UNCHANGED <<kill, hist>>

(* push_inline_attachment of an image path pasted into the draft: always inserted as
   [Image #1], then renumbered. *)
WithInline(d, im) ==
    LET att == [k |-> "image", n |-> 1, id |-> im]
    IN IF att \in Range(d.atts) THEN d
       ELSE Renormalize([Inserted(d, <<Opening("image", 1, im), Close>>) EXCEPT !.atts = Append(@, att)])
PushInlineAttachment(im) ==
    /\ Fits(<<im, Close>>) /\ WithInline(draft, im) # draft
    /\ Edited(WithInline(draft, im), "manual")
    /\ UNCHANGED <<kill, hist>>

(* pop_input_char. *)
PopInputChar ==
    /\ draft.cursor > 0
    /\ Edited(Normalized(Draft(RemoveAt(draft.text, draft.cursor), draft.cursor - 1, draft.atts)),
              "manual")
    /\ UNCHANGED <<kill, hist>>

(* kill_input_to_end: the buffer keeps the attachments named by the killed text. *)
KillInputToEnd ==
    LET tail == SubSeq(draft.text, draft.cursor + 1, Len(draft.text))
        named(a) == IsInline(a) /\ Occurs(tail, a.k, a.n)
    IN /\ draft.cursor < Len(draft.text)
       /\ kill' = [text |-> tail, atts |-> SelectSeq(draft.atts, named)]
       /\ Edited(Normalized([draft EXCEPT !.text = SubSeq(@, 1, draft.cursor)]), "manual")
       /\ UNCHANGED hist

(* yank_kill_buffer: an attachment whose placeholder is in use is not added. *)
YankKillBuffer ==
    LET free(a) == \A b \in Range(draft.atts) : <<b.k, b.n>> # <<a.k, a.n>>
    IN /\ kill.text # <<>> /\ Fits(kill.text)
       /\ Edited([Inserted(draft, kill.text) EXCEPT !.atts = @ \o SelectSeq(kill.atts, free)], "manual")
       /\ UNCHANGED <<kill, hist>>

(* move_input_cursor_left, _right, _home and _end, repeated. *)
MoveCursor ==
    \E i \in 0..Len(draft.text) :
        /\ <<i, 0>> # <<draft.cursor, selected>>
        /\ draft' = [draft EXCEPT !.cursor = i] /\ selected' = 0
        /\ UNCHANGED <<nav, provenance, kill, hist>>

(* select_previous_row_attachment and select_next_row_attachment. *)
RowCount == Len(Rows(draft.atts))
SelectRow ==
    /\ \/ /\ RowCount > 0 /\ (selected # 0 \/ draft.cursor = 0)
          /\ selected' = IF selected = 0 THEN RowCount ELSE Max({selected - 1, 1})
       \/ /\ selected # 0
          /\ selected' = IF selected < RowCount THEN selected + 1 ELSE 0
    /\ nav' = NoNav
    /\ UNCHANGED <<draft, provenance, kill, hist>>

(* remove_selected_row_attachment. *)
RemoveSelectedRow ==
    /\ selected \in 1..RowCount
    /\ LET gone == Rows(draft.atts)[selected]
           kept(a) == a # gone
       IN draft' = Renormalize([draft EXCEPT !.atts = SelectSeq(@, kept)])
    /\ selected' = Min({selected, RowCount - 1}) /\ nav' = NoNav
    /\ UNCHANGED <<provenance, kill, hist>>

(* browse_input_history: from a boundary of the text or while browsing already. *)
AtBoundary == draft.cursor \in {0, Len(draft.text)}
Shown(mode, index, d, p) ==
    /\ draft' = Normalized(EntriesFor(hist, mode)[index])
    /\ provenance' = Provenance(draft', "recall") /\ selected' = 0
    /\ nav' = [mode |-> mode, index |-> index, draft |-> d, provenance |-> p]
    /\ UNCHANGED <<kill, hist>>
BrowseBack ==
    /\ nav = NoNav => AtBoundary
    /\ LET mode == IF nav = NoNav THEN BrowseMode ELSE nav.mode
           count == Len(EntriesFor(hist, mode))
       IN /\ count > 0
          /\ IF nav = NoNav THEN Shown(mode, count, Normalized(draft), provenance)
             ELSE Shown(mode, Max({nav.index - 1, 1}), nav.draft, nav.provenance)
BrowseForward ==
    /\ nav # NoNav
    /\ \/ /\ nav.index < Len(EntriesFor(hist, nav.mode))
          /\ Shown(nav.mode, nav.index + 1, nav.draft, nav.provenance)
       \/ /\ nav.index = Len(EntriesFor(hist, nav.mode))
          /\ Edited(Normalized(nav.draft), nav.provenance) /\ UNCHANGED <<kill, hist>>

(* stash_composer_draft_on_ctrl_c. *)
Stash ==
    /\ (draft.text # <<>> \/ draft.atts # <<>>)
    /\ hist' = RecordLocal(hist, Normalized(draft))
    /\ draft' = NoDraft /\ provenance' = "empty" /\ selected' = 0 /\ nav' = NoNav
    /\ UNCHANGED kill

(* Enter or Tab on a prompt: take_submission, which leaves the selected row, and
   record_submitted_prompt. *)
AtEnd(d) == [d EXCEPT !.cursor = Len(d.text)]
Submit ==
    /\ ~IsCommand(draft) /\ (draft.text # <<>> \/ draft.atts # <<>>)
    /\ LET d == AtEnd(Normalized(draft))
       IN hist' = RecordPersistent(RecordLocal(hist, d), "prompt", d)
    /\ draft' = NoDraft /\ provenance' = "empty" /\ nav' = NoNav
    /\ UNCHANGED <<selected, kill>>

(* expanded_input_text: a payload is some text. *)
Expanded(d) ==
    LET bound(i) == \E a \in Range(Inlines(d.atts)) : OccursAt(d.text, a.k, a.n, i)
        kept == SetToSortSeq({i \in DOMAIN d.text : i = 1 \/ ~bound(i - 1)}, <)
    IN [j \in DOMAIN kept |-> IF bound(kept[j]) THEN Word("char") ELSE d.text[kept[j]]]

(* Enter on a command. The draft is cleared, with clear_input when completion is
   armed and with take_input when it is not, before the command runs: /image finds
   an empty draft, and so do /detach and the other commands. *)
EnterCommand(arg) ==
    /\ IsCommand(draft)
    /\ \E armed \in {provenance = "manual", FALSE} :
        /\ LET d == FromText(IF armed THEN draft.text ELSE Expanded(draft))
           IN hist' = RecordPersistent(RecordLocal(hist, d), "command", d)
        /\ selected' = IF armed \/ arg # "other" THEN 0 ELSE selected
    /\ draft' = CASE arg = "remote" -> [NoDraft EXCEPT !.atts = <<Remote(1)>>]
                  [] arg \in Images -> WithInline(NoDraft, arg)
                  [] OTHER -> NoDraft
    /\ provenance' = Provenance(draft', "manual")
    /\ nav' = NoNav
    /\ UNCHANGED kill

(* apply_external_edit: the editor may cut or rotate the prompt and drop or reorder
   the rows. Inline attachments follow the order of the new text. *)
Editions(t) ==
    LET cuts == {i \in 0..Len(t) : i < Len(t) => t[i + 1] # Close}
    IN {SubSeq(t, i + 1, Len(t)) \o SubSeq(t, 1, j) : <<i, j>> \in {c \in cuts \X cuts : c[2] <= c[1]}}
Arrangements(rows) == UNION {{SetToSeq(s), Reverse(SetToSeq(s))} : s \in SUBSET Range(rows)}
ApplyExternalEdit ==
    \E t \in Editions(draft.text), rows \in Arrangements(Rows(draft.atts)) :
        LET found(a) == IsInline(a) /\ Occurs(t, a.k, a.n)
            earlier(a, b) == Find(t, a) < Find(t, b)
            inline == SetToSortSeq({a \in Range(draft.atts) : found(a)}, earlier)
        IN /\ Edited(Renormalize(Draft(t, Len(t), rows \o inline)), "manual")
           /\ UNCHANGED <<kill, hist>>

(* restore_input_draft of a message that was rolled back or loaded: its remote images
   are rows, its embedded image is inline (composer_draft_from_message). *)
RestoreInputDraft(im) ==
    LET rows == [i \in 1..MaxRemotes |-> Remote(i)]
        message == Draft(<<Opening("image", 1, im), Close>>, 2,
                         Append(rows, [k |-> "image", n |-> 1, id |-> im]))
    IN /\ Edited(Normalized(message), "programmatic") /\ UNCHANGED <<kill, hist>>

(* A new process in the same workspace. *)
Restart ==
    /\ draft' = NoDraft /\ provenance' = "empty" /\ selected' = 0 /\ nav' = NoNav
    /\ kill' = NoKill
    /\ hist' = Loaded(hist.entries)

(* What changes a draft or a history, and what only moves through them. *)
Operation ==
    \/ Type("char") \/ (draft.text = <<>> /\ Type("slash"))
    \/ PushLargePaste
    \/ \E im \in Images : PushInlineAttachment(im) \/ RestoreInputDraft(im)
    \/ PopInputChar \/ KillInputToEnd \/ YankKillBuffer
    \/ RemoveSelectedRow
    \/ Stash \/ Submit \/ Restart \/ ApplyExternalEdit
    \/ \E arg \in {"other", "remote"} \cup Images : EnterCommand(arg)

ComposerNext ==
    \/ steps < MaxSteps /\ steps' = steps + 1 /\ Operation
    \/ UNCHANGED steps /\ (MoveCursor \/ SelectRow \/ BrowseBack \/ BrowseForward)

ComposerSpec == ComposerInit /\ [][ComposerNext]_composerVars
-----------------------------------------------------------------------------
Tokens == [k : {"char", "slash", "close"}, n : {0}, id : {0}]
    \cup [k : {"paste", "image"}, n : 1..(MaxText + 2), id : 1..MaxPastes \cup Images]

(* The cursor stands in the text, and no history holds more than
   MAX_COMPOSER_HISTORY_ENTRIES drafts. *)
ComposerTypeOK ==
    /\ \A i \in DOMAIN draft.text : draft.text[i] \in Tokens
    /\ draft.cursor \in 0..Len(draft.text)
    /\ provenance \in {"empty", "manual", "recall", "programmatic"}
    /\ \A f \in DOMAIN hist : Len(hist[f]) <= MaxHistory

(* Whole placeholders are bound, if at all, to the payload they were inserted for. *)
Faithful(d) ==
    \A j \in DOMAIN d.atts : d.atts[j].n # 0 =>
        \A i \in DOMAIN d.text :
            OccursAt(d.text, d.atts[j].k, d.atts[j].n, i) => d.atts[j].id = d.text[i].id
AllFaithful ==
    /\ Faithful(draft) /\ Faithful(kill) /\ Faithful(nav.draft)
    /\ \A i \in DOMAIN hist.prompts : Faithful(hist.prompts[i])
    /\ \A i \in DOMAIN hist.localPrompts : Faithful(hist.localPrompts[i])
    /\ \A i \in DOMAIN hist.localCommands : Faithful(hist.localCommands[i])

(* Every opening of a text is whole and some attachment answers to it. *)
Intact(d) ==
    \A i \in DOMAIN d.text : d.text[i].n # 0 =>
        \E a \in Range(d.atts) : OccursAt(d.text, a.k, a.n, i)

(* Renumbering keeps every placeholder with its payload: unless a placeholder was
   broken by hand, or an image or a yank brings in one of a name in use, no step makes
   a placeholder stand for another payload (normalize_attachment_placeholders, in
   edits, kills, row changes, recalls and external edits). *)
NameClash ==
    \/ \E im \in Images : PushInlineAttachment(im) /\ Occurs(draft.text, "image", 1)
    \/ YankKillBuffer /\ \E i \in DOMAIN kill.text : Occurs(draft.text, kill.text[i].k, kill.text[i].n)
RenumberingKeeps ==
    [][~AllFaithful' /\ AllFaithful /\ Intact(draft) /\ Intact(kill) => NameClash]_composerVars

(* While the history is browsed the composer shows the entry the navigation stands
   at: nothing records or edits under it. *)
ShowsEntry ==
    nav # NoNav =>
        /\ nav.index \in DOMAIN EntriesFor(hist, nav.mode)
        /\ LET d == Normalized(EntriesFor(hist, nav.mode)[nav.index])
           IN draft.text = d.text /\ draft.atts = d.atts
=============================================================================
