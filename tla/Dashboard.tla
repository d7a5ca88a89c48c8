------------------------------- MODULE Dashboard -------------------------------
(***************************************************************************)
(* The dashboard (frontend/src) in one tab of a browser: the visualizer,   *)
(* the documentation, two pages without state, and around them the         *)
(* navigation bar and the theme.  A page exists while it is on display;    *)
(* the theme lives as long as the document.  The modules of the parts have *)
(* the properties, which must hold wherever the reader goes meanwhile.     *)
(***************************************************************************)
EXTENDS Visualizer, DocsSection, ThemeContext

VARIABLE pathname   \* the page on display

vars == <<visualizer, docs, themes, pathname>>

Pages == {"/", "/visualizer", "/scaling", "/docs"}

Init ==
  /\ VisualizerInit /\ DocsInit /\ ThemeInit
  /\ pathname \in Pages

\* The effect of the provider runs before the reader can do anything.
LoadTheme ==
  /\ ReadSaved
  /\ UNCHANGED <<visualizer, docs, pathname>>

UseVisualizer ==
  /\ mounted /\ pathname = "/visualizer"
  /\ VisualizerNext
  /\ UNCHANGED <<docs, themes, pathname>>

ReadDocs ==
  /\ mounted /\ pathname = "/docs"
  /\ DocsNext
  /\ UNCHANGED <<visualizer, themes, pathname>>

\* The navigation bar's button, or another tab.
SwitchTheme ==
  /\ mounted
  /\ toggleTheme \/ ToggleThrows \/ OtherTab
  /\ UNCHANGED <<visualizer, docs, pathname>>

\* The page p comes into being and the one on display ceases to.
Show(p) ==
  /\ mounted
  /\ p # pathname
  /\ pathname' = p
  /\ LeaveVisualizer /\ LeaveDocs
  /\ UNCHANGED themes

\* A link of the navigation bar, which every page has.
Navigate == \E p \in Pages : Show(p)

\* A link of the landing page.
Launch == pathname = "/" /\ \E p \in {"/visualizer", "/docs"} : Show(p)

Reload ==
  /\ LeaveVisualizer /\ LeaveDocs /\ ReloadTheme
  /\ UNCHANGED pathname

Next ==
  \/ LoadTheme
  \/ UseVisualizer
  \/ ReadDocs
  \/ SwitchTheme
  \/ Navigate
  \/ Launch
  \/ Reload

Spec == Init /\ [][Next]_vars

------------------------------------------------------------------------------
\* The values of the variables; the visualizer awaits no more than a chunk of each
\* call of processRequests at once.
TypeOK ==
  /\ VisualizerTypeOK /\ DocsTypeOK /\ ThemeTypeOK
  /\ pathname \in Pages

==============================================================================
