----------------------------- MODULE ThemeContext ------------------------------
(***************************************************************************)
(* The theme of the dashboard (frontend/src/context/ThemeContext.tsx) in   *)
(* one tab: the state of ThemeProvider, the classes of the document, and   *)
(* the theme in the local storage, which the tabs of a browser share.      *)
(***************************************************************************)
CONSTANT NoTheme   \* nothing is stored

ASSUME ThemeAssumption == NoTheme \notin {"dark", "light"}

VARIABLES
  theme,        \* the provider's state
  classes,      \* the theme classes of the document element
  saved,        \* localStorage 'throttle-theme'
  mounted,      \* the provider's effect has run
  overtaken,    \* history: since this tab stored a theme, another tab has stored
                \* one, or this one failed to
  threw         \* history: the last theme of this tab could not be stored

themes == <<theme, classes, saved, mounted, overtaken, threw>>

Themes == {"dark", "light"}

\* The page as the server renders it, in whatever was stored before.
Loaded ==
  /\ theme = "dark"
  /\ classes = {"dark"}
  /\ mounted = FALSE
  /\ overtaken = FALSE /\ threw = FALSE

ThemeInit == Loaded /\ saved \in Themes \cup {NoTheme}

\* The document takes the class of t in place of the other's.
ShowClass(t) ==
  IF t = "light" THEN classes' = (classes \ {"dark"}) \cup {"light"}
                 ELSE classes' = (classes \ {"light"}) \cup {"dark"}

\* The document still has the class the server rendered.
ReadSaved_StateOnly ==
  /\ ~mounted
  /\ theme' = IF saved = NoTheme THEN "dark" ELSE saved
  /\ mounted' = TRUE
  /\ UNCHANGED <<classes, saved, overtaken, threw>>

\* The effect of the provider, before any event is handled.
ReadSaved ==
  /\ ~mounted
  /\ LET savedTheme == IF saved = NoTheme THEN "dark" ELSE saved
     IN  theme' = savedTheme /\ ShowClass(savedTheme)
  /\ mounted' = TRUE
  /\ UNCHANGED <<saved, overtaken, threw>>

NextTheme == IF theme = "dark" THEN "light" ELSE "dark"

toggleTheme ==
  /\ mounted
  /\ theme' = NextTheme /\ saved' = NextTheme /\ ShowClass(NextTheme)
  /\ overtaken' = FALSE /\ threw' = FALSE
  /\ UNCHANGED mounted

\* localStorage.setItem throws, as it does when the storage is full or denied: the
\* state is set by then, and the document is not.
ToggleThrows ==
  /\ mounted
  /\ theme' = NextTheme
  /\ overtaken' = TRUE /\ threw' = TRUE
  /\ UNCHANGED <<classes, saved, mounted>>

\* The same in another tab.
OtherTab ==
  /\ saved' \in Themes
  /\ overtaken' = TRUE
  /\ UNCHANGED <<theme, classes, mounted, threw>>

\* The tab is loaded again.
ReloadTheme ==
  /\ theme' = "dark"
  /\ classes' = {"dark"}
  /\ mounted' = FALSE
  /\ overtaken' = FALSE /\ threw' = FALSE
  /\ UNCHANGED saved

\* The values of the variables.
ThemeTypeOK ==
  /\ theme \in Themes
  /\ classes \subseteq Themes
  /\ saved \in Themes \cup {NoTheme}
  /\ {mounted, overtaken, threw} \subseteq BOOLEAN

\* The document shows the theme the navigation bar says, and the next tab or visit
\* starts with the theme of the tab that was switched last, unless that theme could
\* not be stored; the next switch that is stored sets both right again.
ThemeShown ==
  /\ ~threw => classes = {theme}
  /\ mounted /\ ~overtaken =>
       saved \in {theme, NoTheme} /\ (saved = NoTheme => theme = "dark")

==============================================================================
