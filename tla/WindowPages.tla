---------------------------- MODULE WindowPages ----------------------------
(* How the window moves between its pages (app/main_window.py), the tools of *)
(* the diagnostics page (app/ui/tabs/diagnostics/core.py) and the large view *)
(* of their results (result_dock.py, app/ui/common/result_focus.py): lists,  *)
(* stacks, buttons and the help panel follow each other by signals, and      *)
(* pages load when they are first seen.  One operator stands for one slot;   *)
(* an action is the whole chain of slots that a click runs through.          *)
EXTENDS Naturals, Sequences, SequencesExt

CONSTANTS
    Pages,          \* "home", "interface", "diagnostics", "wireless", "transfer", "settings"
    Tools,          \* "ping", "iperf", "arp", ..., "transfer"
    ResultKeys      \* tools with a table that can be shown large

ASSUME PagesAssumption ==
    /\ {"home", "diagnostics", "transfer"} \subseteq Pages
    /\ {"ping", "transfer"} \subseteq Tools /\ ResultKeys \subseteq Tools
    \* the groups of tools that load together (GroupOf) are no pages
    /\ {"tools", "iperf"} \cap Pages = {}

VARIABLES
    win,         \* the window: what its widgets show
    seen,        \* what was on the screen since the start-up had ended
    winSaved     \* the ui_state of the last session: page and tool

winVars == <<win, seen, winSaved>>

NoGuide == "no guide"
Selectable == Tools \ {"transfer"}     \* what the list of tools on the page offers

----------------------------------------------------------------------------
(* First loads.                                                              *)
LoadsAtFirst == {"interface", "diagnostics", "wireless"}
GroupOf(tool) == CASE tool \in {"arp", "subnet", "oui", "commands"} -> {"tools"}
                   [] tool = "iperf" -> {"iperf"} [] OTHER -> {}

\* _start_tool_initialization, once the page itself was loaded
LoadTool(w) == IF "diagnostics" \in w.loaded THEN [w EXCEPT !.loaded = @ \cup GroupOf(w.tool)] ELSE w

\* _start_tab_initial_load, start_initial_refresh
LoadPage(w) ==
    IF ~w.activated \/ w.page \notin LoadsAtFirst THEN w
    ELSE LET l == [w EXCEPT !.loaded = @ \cup {w.page}] IN IF w.page = "diagnostics" THEN LoadTool(l) ELSE l

(* Help: current_guide_id, _refresh_context_help.                            *)
GuideOf(w) == IF w.page = "diagnostics" THEN w.tool ELSE w.page
Help(w) == IF w.guide = NoGuide THEN w ELSE [w EXCEPT !.guide = GuideOf(w)]

----------------------------------------------------------------------------
(* The large view of results. It has tabs and a stack of its own.            *)
Position(w, key) == CHOOSE i \in DOMAIN w.views : w.views[i] = key

\* release_result_focus, take_panel, _attach_result_panel: the tab next to it moves up
Attach(w, key) ==
    IF key \notin w.docks THEN w
    ELSE LET left == RemoveAt(w.views, Position(w, key))
             at == IF w.tab > Position(w, key) \/ w.tab > Len(left) THEN w.tab - 1 ELSE w.tab IN
         [w EXCEPT !.views = left, !.tab = at, !.docks = @ \ {key}, !.checked = @ \ {key},
                   !.large = @ /\ left # <<>>]

\* close_result_focus: the tables go back one after the other, until no tab is left
CloseResultFocus(w) ==
    [w EXCEPT !.views = <<>>, !.tab = 0, !.docks = @ \ ToSet(w.views), !.checked = @ \ ToSet(w.views),
              !.large = FALSE]

\* set_result_dock_visible(True): _focus_result_panel, or the panel that is there
ShowLarge(w, key) ==
    IF key \in w.docks THEN [w EXCEPT !.tab = Position(w, key), !.large = TRUE]
    ELSE [w EXCEPT !.views = Append(@, key), !.tab = Len(w.views) + 1, !.docks = @ \cup {key},
                   !.checked = @ \cup {key}, !.large = TRUE]

----------------------------------------------------------------------------
(* Pages and tools.                                                          *)
\* _sync_nav_to_tab
SyncNav(w) == [w EXCEPT !.nav = w.page]

\* setCurrentIndex, _handle_main_tab_changed
SetPage(w, page) == IF page = w.page THEN w ELSE LoadPage(Help(SyncNav([w EXCEPT !.page = page])))

ClosedIfLarge(w) == IF w.large THEN CloseResultFocus(w) ELSE w

\* select_diagnostic_tab, _handle_tool_changed: the page of transfers is a page of its own
SelectTool(w, tool) ==
    IF tool = w.tool THEN w
    ELSE LET moved == Help([w EXCEPT !.tool = tool, !.combo = IF tool \in Selectable THEN tool ELSE "none"])
         IN LoadTool(IF tool = "transfer" THEN SetPage(ClosedIfLarge(moved), "transfer") ELSE moved)

NavigateWithTransfer(w, page) == SetPage(ClosedIfLarge(w), page)    \* MUTANT: the tool stays what it is

\* navigate_to
Navigate(w, page) ==
    LET c == ClosedIfLarge(w) IN
    SetPage(IF page = "diagnostics" /\ c.tool = "transfer" THEN SelectTool(c, "ping") ELSE c, page)

----------------------------------------------------------------------------
(* Sessions.                                                                 *)
Fresh == [page |-> "home", nav |-> "home", tool |-> "ping", combo |-> "ping", loaded |-> {}, activated |-> FALSE,
          shown |-> FALSE, views |-> <<>>, tab |-> 0, docks |-> {}, checked |-> {}, large |-> FALSE,
          guide |-> NoGuide]

\* _restore_ui_state; a tool of an older version may still be "transfer"
Restored(saved) ==
    LET w == SelectTool(Fresh, saved.tool)
        page == IF saved.page = "diagnostics" /\ w.tool = "transfer" THEN "transfer" ELSE saved.page IN
    Navigate(w, page)

OnScreen(w) ==
    IF ~w.activated THEN {}
    ELSE {w.page} \cup (IF w.page = "diagnostics" THEN GroupOf(w.tool) ELSE {})

Becomes(w) == win' = w /\ seen' = seen \cup OnScreen(w) /\ UNCHANGED winSaved

PagesInit ==
    /\ winSaved \in [page : Pages, tool : Tools]
    /\ win = Restored(winSaved)
    /\ seen = {}

\* activate_startup_loading; its timer loads the page that is visible then
Activate == ~win.activated /\ Becomes([win EXCEPT !.activated = TRUE])
StartVisibleTab == win.activated /\ ~win.shown /\ Becomes(LoadPage([win EXCEPT !.shown = TRUE]))

Click(page) == Becomes(Navigate(win, page))

\* the hidden tab bar still obeys Ctrl+Tab
CtrlTab(page) == ~win.large /\ Becomes(SetPage(win, page))

ChooseTool(tool) ==
    /\ win.page = "diagnostics" /\ ~win.large /\ tool \in Selectable
    /\ Becomes(SelectTool(win, tool))

\* the button under the results, and the menu of every page
ToggleLarge(key) ==
    Becomes(IF key \in win.docks THEN Attach(win, key) ELSE ShowLarge(win, key))

ChooseTab(i) ==
    /\ win.large /\ i \in DOMAIN win.views
    /\ Becomes([win EXCEPT !.tab = i])

\* Esc, or the button
BackFromLarge == win.large /\ Becomes(CloseResultFocus(win))

ShowHelp == Becomes([win EXCEPT !.guide = GuideOf(win)])
HideHelp == Becomes([win EXCEPT !.guide = NoGuide])

\* closeEvent and the next start
NextStart ==
    /\ winSaved' = [page |-> win.page, tool |-> win.tool]
    /\ win' = Restored(winSaved')
    /\ seen' = {}

\* _restart_as_admin: the new process may read before the old one has saved
RestartAsAdmin ==
    /\ UNCHANGED winSaved
    /\ win' = Restored(winSaved)
    /\ seen' = {}

Clicks ==
    \/ \E page \in Pages : Click(page) \/ CtrlTab(page)
    \/ \E tool \in Tools : ChooseTool(tool)
    \/ \E key \in ResultKeys : ToggleLarge(key)
    \/ \E i \in 1..Len(win.views) : ChooseTab(i)
    \/ BackFromLarge \/ ShowHelp \/ HideHelp \/ NextStart \/ RestartAsAdmin

\* no event of the user is handled before the start-up has called for it
PagesNext == Activate \/ StartVisibleTab \/ (win.activated /\ Clicks)

----------------------------------------------------------------------------
(* List, stack, selector and menu show the same page, tool and results.      *)
WidgetsAgree ==
    /\ win.nav = win.page
    /\ win.combo = IF win.tool \in Selectable THEN win.tool ELSE "none"
    /\ win.checked = win.docks
    /\ win.guide \in {NoGuide, GuideOf(win)}

(* A table that is shown large is in the large view and nowhere else, and    *)
(* the view is on the screen exactly as long as it has one: no page is left  *)
(* covered by an empty view, no table is out of reach.                       *)
ResultsAreReachable ==
    /\ ToSet(win.views) = win.docks /\ IsInjective(win.views)
    /\ win.large <=> win.docks # {}
    /\ IF win.views = <<>> THEN win.tab = 0 ELSE win.tab \in DOMAIN win.views

(* What is on the screen has been loaded, and nothing was loaded that has    *)
(* not been on the screen: start-up asks no adapter, no tool for nothing.    *)
LoadedWhenSeen ==
    win.shown => /\ OnScreen(win) \cap (LoadsAtFirst \cup {"tools", "iperf"}) \subseteq win.loaded
                 /\ win.loaded \subseteq seen

(* A click on a page shows that page and never the empty place the transfer  *)
(* page has left among the tools (core.py take_transfer_page).               *)
ClickShowsThePage ==
    \A page \in Pages :
        LET w == Navigate(win, page) IN
        w.page = page /\ ~w.large /\ (page = "diagnostics" => w.tool # "transfer")

(* The window shows what was chosen and loads what it shows.                 *)
WindowIsConsistent == WidgetsAgree /\ ResultsAreReachable /\ LoadedWhenSeen /\ ClickShowsThePage
============================================================================
