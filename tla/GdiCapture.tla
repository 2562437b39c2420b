------------------------------ MODULE GdiCapture ------------------------------
(***************************************************************************)
(* crates/quicview-capture/src/gdi.rs: screen capture by GDI.  A grab is a *)
(* chain of Win32 calls, each of which may fail, that acquires a screen    *)
(* device context, a memory one and a bitmap, and gives them back on every *)
(* way out.  GDI is external: a bitmap that is selected into a device      *)
(* context cannot be deleted.  The screen may change its size at any time. *)
(***************************************************************************)
EXTENDS Naturals

CONSTANTS
  ScreenSizes,       \* resolutions of the primary screen
  NoScreen,          \* GetSystemMetrics gives no size
  DisplayIds,        \* arguments of start
  Primary,           \* DisplayId::PRIMARY
  MaxGrabs           \* bound: frames grabbed

ASSUME GdiAssumption ==
  /\ NoScreen \notin ScreenSizes
  /\ Primary \in DisplayIds
  /\ MaxGrabs \in Nat

VARIABLES
  screen,            \* what GetSystemMetrics says
  active,            \* the source has been started
  resolution,        \* of the screen when it was started
  frame_count,       \* frames grabbed
  grab,              \* the last call of the present grab that succeeded
  gdi                \* the handles held, and "selection" if the bitmap is selected

gdiVars == <<screen, active, resolution, frame_count, grab, gdi>>

Handles == {"screenDC", "memDC", "bitmap", "selection"}

GdiTypeOK ==
  /\ screen \in ScreenSizes \cup {NoScreen}
  /\ active \in BOOLEAN
  /\ resolution \in ScreenSizes \cup {NoScreen}
  /\ active => resolution # NoScreen
  /\ frame_count \in 0..MaxGrabs
  /\ grab \in {"none", "GetDC", "CreateCompatibleDC", "CreateCompatibleBitmap",
               "SelectObject", "BitBlt"}
  /\ gdi \subseteq Handles

GdiInit ==
  /\ screen \in ScreenSizes \cup {NoScreen}
  /\ active = FALSE
  /\ resolution = NoScreen
  /\ frame_count = 0
  /\ grab = "none"
  /\ gdi = {}

-----------------------------------------------------------------------------
(* GDI                                                                     *)

Acquire(handle) == gdi' = gdi \cup {handle}

RestoreObject(g) == g \ {"selection"}
DeleteObject(g) == IF "selection" \in g THEN g ELSE g \ {"bitmap"}
DeleteDC(g) == g \ {"memDC", "selection"}
ReleaseDC(g) == g \ {"screenDC"}

\* Mutant: the bitmap is deleted before the old object is selected again.
ReleaseUnordered(g) == ReleaseDC(DeleteDC(RestoreObject(DeleteObject(g))))

\* The last calls of a grab, from the innermost out.
ReleaseAll(g) == ReleaseDC(DeleteDC(DeleteObject(RestoreObject(g))))

\* A grab ends, with a frame or an error, when it has given back what it held.
EndGrab(g) ==
  /\ gdi' = g
  /\ grab' = "none"

-----------------------------------------------------------------------------
(* GdiCaptureSource                                                        *)

ScreenChanges(size) ==
  /\ screen' = size
  /\ UNCHANGED <<active, resolution, frame_count, grab, gdi>>

\* enumerate_displays knows the primary screen alone; start fails for another
\* display, or when there is no size, and leaves everything as it was.
Start(id) ==
  /\ grab = "none"
  /\ screen # NoScreen
  /\ id = Primary
  /\ resolution' = screen
  /\ active' = TRUE
  /\ UNCHANGED <<screen, frame_count, grab, gdi>>

Stop ==
  /\ grab = "none"
  /\ active' = FALSE
  /\ UNCHANGED <<screen, resolution, frame_count, grab, gdi>>

\* One call of grab succeeds.  SelectObject may fail unnoticed.
Goes(from, to) ==
  /\ grab = from
  /\ grab' = to
  /\ UNCHANGED <<screen, active, resolution, frame_count>>

GrabGetDC == active /\ frame_count < MaxGrabs /\ Goes("none", "GetDC") /\ Acquire("screenDC")
GrabCreateDC == Goes("GetDC", "CreateCompatibleDC") /\ Acquire("memDC")
GrabCreateBitmap == Goes("CreateCompatibleDC", "CreateCompatibleBitmap") /\ Acquire("bitmap")
GrabSelect ==
  /\ Goes("CreateCompatibleBitmap", "SelectObject")
  /\ UNCHANGED gdi \/ Acquire("selection")
GrabBitBlt == Goes("SelectObject", "BitBlt") /\ UNCHANGED gdi

\* The next call fails, and grab with it.
Fails(after, g) ==
  /\ grab = after
  /\ EndGrab(g)
  /\ UNCHANGED <<screen, active, resolution, frame_count>>

GrabFails ==
  \/ Fails("GetDC", ReleaseDC(gdi))
  \/ Fails("CreateCompatibleDC", ReleaseDC(DeleteDC(gdi)))
  \/ Fails("SelectObject", ReleaseAll(gdi))
  \/ Fails("BitBlt", ReleaseAll(gdi))

GrabFrame ==
  /\ grab = "BitBlt"
  /\ EndGrab(ReleaseAll(gdi))
  /\ frame_count' = frame_count + 1
  /\ UNCHANGED <<screen, active, resolution>>

GdiNext ==
  \/ \E size \in ScreenSizes \cup {NoScreen} : ScreenChanges(size)
  \/ \E id \in DisplayIds : Start(id)
  \/ Stop
  \/ GrabGetDC
  \/ GrabCreateDC
  \/ GrabCreateBitmap
  \/ GrabSelect
  \/ GrabBitBlt
  \/ GrabFails
  \/ GrabFrame

GdiSpec == GdiInit /\ [][GdiNext]_gdiVars

-----------------------------------------------------------------------------
(* Properties                                                              *)

\* "All GDI handles are properly acquired and released" (gdi.rs:90): whichever
\* calls failed, nothing is held between two grabs.
HandlesReleased == grab = "none" => gdi = {}
=============================================================================
