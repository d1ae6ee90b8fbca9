----------------------------- MODULE FileBrowser -----------------------------
(***************************************************************************)
(* neutron-app/src/lib.rs: the two views of NeutronSpaceApp, and the folder *)
(* the file browser shows. What it shows was true when it was scanned.      *)
(***************************************************************************)
CONSTANTS Folder,
          ParentOf,           \* folder -> the one it is in; "/" is in itself
          Installable,        \* folder -> the files in it named as an APK or a bundle
          Download, Storage   \* the two folders the browser begins with

ASSUME FolderAssumption ==
  {Download, Storage} \subseteq Folder /\ ParentOf \in [Folder -> Folder]

VARIABLES view, current_dir,
          shown   \* folders with Open, files with Install

browser == <<view, current_dir, shown>>

SubFolders(d) == {e \in Folder \ {d} : ParentOf[e] = d}

BrowserInit == view = "main" /\ current_dir = Storage /\ shown = {}

\* A folder that cannot be read shows nothing, and is the current one nevertheless.
ScanDirectory(d) ==
  /\ current_dir' = d
  /\ shown' \in {{}, SubFolders(d) \cup Installable[d]}

\* Import: the download folder, or if that cannot be read the storage.
OpenBrowser ==
  /\ view = "main" /\ view' = "browser"
  /\ ScanDirectory(Download) \/ ScanDirectory(Storage)

GoUp == view = "browser" /\ ScanDirectory(ParentOf[current_dir]) /\ UNCHANGED view

EnterDir(d) ==
  view = "browser" /\ d \in shown \cap Folder /\ ScanDirectory(d) /\ UNCHANGED view

Cancel == view = "browser" /\ view' = "main" /\ UNCHANGED <<current_dir, shown>>
\* An import that succeeded.
ToMain == view' = "main" /\ UNCHANGED <<current_dir, shown>>

Browse == OpenBrowser \/ GoUp \/ Cancel \/ \E d \in Folder : EnterDir(d)

\* What has a button lies in the folder that is shown (lib.rs:76-153).
BrowserShowsFolder ==
  /\ view \in {"main", "browser"} /\ current_dir \in Folder
  /\ shown \subseteq SubFolders(current_dir) \cup Installable[current_dir]
=============================================================================
