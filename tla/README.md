# TLA+ models of the handheld device

This directory models the firmware of an ESP32 handheld device (`src/main`, with
the parts of `src/libraries` that the firmware changes or depends on): a menu on a
4x4 keypad and an OLED, WiFi with a web console, an SD card, an RFID reader and a
joystick. The models are checked with TLC on small instances; the safety
properties that carry the design are proved with TLAPS for every value of the
constants.

- [1. The system](#1-the-system)
- [2. The modules and the code](#2-the-modules-and-the-code)
- [3. What the runs check](#3-what-the-runs-check)
- [4. Fairness](#4-fairness)
- [5. What is proved](#5-what-is-proved)
- [6. What the models found in the code](#6-what-the-models-found-in-the-code)
- [7. What is not modelled](#7-what-is-not-modelled)
- [8. Plan](#8-plan)

To check one run: `tlc -workers 2 -config Menu.cfg MCMenu.tla`; to check the
proofs of one module: `tlapm MenuProofs.tla`. The list of runs, the line of the
source that each definition models, and the hazards that each property is for are
in `PROJECT.json`.

## 1. The system

### Threads

| thread | code | what it does |
|---|---|---|
| loop | `loop()`, main.ino:48 | polls the keypad for ever (`handleKeypad`); every program of the menu runs inside that call; then `ElegantOTA.loop()` |
| WiFiAutoConnect | SettingWifi.h:87 | started by `setup()` and by every AP Mode / Off; scans, joins a known network, at most 1 + 10 tries, begins the server, ends |
| server task | AsyncTCP, deviceServer.h, WebReadSDCard.cpp | runs the handlers of HTTP and of the console's web socket |
| WiFi events | the core library | moves the station between idle, joining and linked |
| updateWiFiStatus, updateBattery | main.ino:12, 19 | redraw an icon each, every 5 s and every 2 s |

No lock protects anything that these threads share: the radio and the one scan
result of the library, `wifiList` and `wifiCount`, `WifiStatus` and `isAPMode`, the
server, the frame buffer of the OLED, the SPI bus.

### Components

For each: its state, its operations, what it interacts with, what is hard, and the
properties that make it correct.

**Keypad menu** (Menu.h). State: the level (main menu, sub-menu, option list), an
index for each, the top row of the sub-menu, the option list with its callback, the
program that holds the loop. Operations: keys A and C move, B opens or runs, D goes
back; sixteen entries lead to programs, some of which loop until D. Hard: one piece
of scrolling arithmetic for windows of different heights; drawing and state change
are separate statements in every branch; programs nest their own key loops and
return by different conventions (some redraw, some do not, one sets the index to
-1). Correct when: the selection is an entry and visible; what has the keys belongs
to the selected entry; the screen shows the state; D leads home.

**Text prompt** (SettingKeypad.h). State: text, case, last key, position in the
cycle, time of the last press. Operations: ten digits with multi-tap, `*` deletes,
`#` changes case, B and D return. Used for WiFi passwords. Hard: the last key and
the position survive deletions and changes of case, and index into the text and the
table without a check. Correct when: the character that is replaced exists and is the
one this key wrote; the text is that of an abstract multi-tap editor.

**SD card browser** (GUI.h:503-583, ReadSD.h). State: current path (global, it
outlives the browser), the list of that folder, mark, window. Operations: move,
enter, leave, choose. Hard: recursion per folder, a card that may go at any moment,
paths built from names. Correct when: the mark is an entry and visible; B on a folder
leads into it (it does not, section 6); D leads back to the root.

**WiFi scan and network list** (SettingWifi.h:138-239, deviceServer.h:60-85,
WiFiScan.cpp, WiFiMulti.cpp). State: the library's result and running bit, the
firmware's copy (`wifiList`, `wifiCount`), the list's mark and window. Operations:
scan from the keys, from the console, from WiFiMulti; list, choose, ask for the
password. Hard: three threads use one result and one copy, with no lock; scans may be
refused; more networks than the array. Correct when: the mark stays in the window; the
list is that of the last scan; the password asked for is that of the network that was
marked.

**WiFi connection and web server** (SettingWifi.h:48-135, Menu.h:324-350,
deviceServer.h). State: station, access point, server, two flags, where each thread is
and how often it has tried. Operations: connect, AP on and off, reconnecting task, mode
change of a scan, the console's `wifi-<SSID>-<PASSWORD>`, `scan wifi` and `reboot`.
Hard: five parties start and stop one radio and one server, waiting 10 s in between with
the world moving on; the link may come late, be lost, or be ended by another thread,
also by one whose scan is refused. Correct when: a device that is on line serves; all
waiting ends; a reconnecting task brings the device on line.

**OLED and icons** (GUI.h, Adafruit_SH110X.cpp). State: frame buffer, cursor, dirty
window, the row address of the panel, what the panel shows. Operations: clear and set
the cursor, print, and `display()`, which sends the dirty rows one address and one
row of bytes at a time and then resets the window. Hard: the loop and two tasks on two
cores do this with no lock on any of the four, and every pixel reads, changes and
writes a byte of eight rows. Correct when: a page drawn while both tasks sleep is shown
and stays, whatever they draw later; the percentage, however mixed up, comes right.

**Web pages of the SD card** (WebReadSDCard.cpp). State: the tree of the card, one
static file and one static folder for all uploads. Operations: uploads piece by piece,
create, delete, rename, reboot, beside the menu's Remove SD. Hard: the page sends
up to three files at once; connections are lost with the file open. Correct
when: what was stored undisturbed stays, whole; no piece goes into a file that was there
before.

**Keypad scanning** (Keypad.cpp). State: a list of slots with a key and its state each,
two timers. Operations: one scan of the matrix per debounce time, one step of each
listed key, new keys into free slots; `getKey` reports slot 0. Hard: contacts shake,
keys overlap, one hold timer serves all, slots come free in any order. Correct
when: one press gives at most one report, no key is listed twice, the list empties, and
a key pressed alone is reported.

**Over-the-air update** (ElegantOTA.cpp, Updater.cpp). State: the one object `Update`
(running, error, partition, what was written, the expected sum), the flash, the chosen
boot partition, the reboot timer. Operations: start, pieces, answer, reboot from the
loop. Hard: several clients, lost connections, restarts in between, a loop that is held
by programs. Correct when: an update that met no other is installed; the firmware
installed last is the one that starts; the reboot comes.

**Web console** (WebSerialMonitor.cpp, deviceServer.h). Its commands are actions of
Connectivity and WiFiList; its handlers, added again with each begin, are not.

**RFID reader** (RFID.h), **clock** (SettingTime.h), **battery, buzzer, joystick**
(Action.h, Joystick.h), **information screens** (GUI.h): programs of the menu (Menu
keeps when they hold the loop and what they leave on the screen), and the battery's
task is a thread of Oled. Their inner state is not modelled; section 7 says why.

Vendored libraries, pictures and the files of the printed circuit are not modelled;
of the libraries the models keep what the firmware relies on.

### Interactions

The menu calls every other component from the loop, and its keys stop while a
program runs. The list of networks calls the prompt (password) and then the
connection. The prompt, the browser and the list each poll the keypad themselves.
Scans change the radio's mode, which ends the access point, so WiFiList and
Connectivity share the radio: WiFiList keeps the result of a scan and Connectivity
its effect on the mode. The connection begins the server, whose task then runs
commands that scan, connect and restart, the uploads to the card, and the update. The
update's reboot is made by the loop, and so waits for the menu's programs. Everything
that draws meets in the frame buffer.

## 2. The modules and the code

| module | models | notes |
|---|---|---|
| `Menu` | `handleKeypad`, `executeSubMenuAction` and the callbacks (Menu.h) | constants: the sizes of the menus; `MCMenu` has the device's own |
| `TextInput` | `getTextInput` (SettingKeypad.h:43-94) | constants: the rows of `t9Mapping` |
| `TextEditor` | nothing of the code: the abstract multi-tap editor | TextInput implements it (`ImplementsEditor`) |
| `ListWindow` | the scrolling that `showFileList` and `showWiFiList` share | operators only |
| `FileBrowser` | `showFileList` (GUI.h), `readSDFiles` (ReadSD.h) | constant: what is on the card |
| `WiFiList` | `scanWiFi`, `showWiFiList`, `enterWiFiPassword`, the console's scan, WiFiMulti's scan | constants: what scans find, the size of the array, who scans |
| `Connectivity` | `connectWifi`, `startAPMode`, `WiFiAutoConnect`, AP Off, the commands | constants: the tasks, the retries, the worlds |
| `KeypadScan` | `getKey`, `getKeys`, `updateList`, `nextKeyState` (Keypad.cpp) | constants: the matrix, the length of the list |
| `Oled` | what loop, `updateBattery`, `updateWiFiStatus` draw, and `display()` | constant: pages |
| `WebSD` | `handleUpload`, `handleFileAction`, `handleRename`, `handleReboot` (WebReadSDCard.cpp) | constants: the uploads, their paths, what is created and renamed |
| `OtaUpdate` | `/ota/start`, `/ota/upload`, `ElegantOTA.loop`, `Update.begin`, `write`, `end` | constants: the images, their sizes, the partition |
| `MC*` | constants for TLC | |
| `*Proofs` | theorems | |

**Menu.** One action per branch of the key handling. `menuState`,
`mainMenuIndex`, `subMenuIndex`, `menuIndex`, `subMenu2Index` and `isAPMode` are the
globals of those names; `subMenu2` stands for `subMenu2Items`, its callback and its
`drawExtra`, which are always set together; `running` is the program whose loop is on
the stack; `screen` is what was drawn last in the body of the OLED. `Program(m, i)`
is the dispatch of `executeSubMenuAction`. Programs are of five sorts, by how they
use keys and screen: those that loop until D and redraw the sub-menu, those
that loop and return without drawing, those that paint once, those that do
neither, and the two that open an option list. `EndRedrawing` has the order of the
code: draw, and then (readRFID) set `subMenuIndex` to -1. `PickOption` lets
`startAPMode` fail, which leaves `isAPMode` as it was.

**TextInput.** A character is the cell of `t9Mapping` that was read, with its case,
so that reading past a row is visible: the table is `char[10][6]`, the row of key 1
fills all six cells, and `strlen` runs on (`CharCount`). Time is the outcome of
`now - lastPressTime < 500`: `NextChar` (soon) and `NewChar` (late, or another key)
are both possible. `uppercase` is a global that survives the prompt. `answer` is the
String returned. The text is bounded by `MaxText`, in the guard of `NewChar`.

**FileBrowser.** A path is the sequence of its components. `showFileList` calls
itself for each folder and returns as soon as that call returns, so the calls
pending on the stack have nothing left to do and the state is that of the innermost.
`EnterFolder` goes to `<<Marked.name>>`, not to `Append(currentPath, Marked.name)`:
`File::name()` gives the last component only. `ReadFiles` leaves an empty list when
the card is away or the folder does not exist, and any first part of the entries when the
card goes while they are read one by one, after the path was changed in all of these
cases. A path is never longer than one name, because entering always starts from the
root.

**WiFiList.** The variables `scanning`, `onAir` and `results` are the library's;
`wifiCount`, `wifiList` the firmware's. `onAir` is separate from the bit
`WIFI_SCANNING_BIT` because `scanDelete()` clears the bit of a scan that another
thread has begun meanwhile. A thread scans (`ScanStart`), waits, is woken by
`ScanDone`, assigns the count (`Found`) and copies name by name (`CopyName`), each a
step in which others can come between. A scan and its answer to the same thread are
one step only where nothing can come between. The list draws, waits for a key, moves
or chooses in separate steps (`Draw`, `NoKey`, `MoveMark`, `Choose`), so a count that
changes between drawing and key is part of the model. `session`, chosen in Init and
never changed, says which threads scan and whether scans may be refused.

**Connectivity.** Each thread has a label. A try of WiFiMulti is `run` (about to
scan), `scan` (waiting for the scan) or `refused` (the scan did not start or never ended);
then `begin` (about to call `WiFi.begin`), `wait`, `check` (the status is asked once
more), `serve` (the server's `begin`); and for the access point `softAP` and `serveAP`.
`AutoDisconnect` is what follows a refused scan: `WiFi.disconnect()`, which ends a link and
a join that other threads wait for, unless that still associates, and a scan that nobody
waits for. `AutoBusy` is the try that finds another scan running. `allFailed` stands for
the marks `hasFailed`: a network is marked when its wait runs out, all marks are taken
back when the station is linked, and a scan that finds only marked networks takes them
back and joins none. The link comes
and goes in steps of its own. `TimeIsUp` is the end of the 10 s or 5 s: it may happen
whenever the station is not linked, unless the thread waits alone for a join on a
good radio, in which case the seconds are enough. `world`, chosen in Init and never
changed, says what may happen beside the keys: `web` (a console is in use), `ap` (the
access point may fail to start), `drop` (links are lost), `radio` (scans and joins
fail or take too long). `left` marks the moment from which nobody gives commands.
`MaxRetry` is 10 in the code.

Abstractions of Connectivity, all of them towards fewer interleavings unless said:
the status follows the radio's events at once; a thread's check of the status and its
write of the flag are one step, as no other thread reads the flag in between to
decide anything; `server.begin()` and `end()` are one step each (their own race is
section 7); which network is joined is left out, so the marks are one bit, and a
wait that runs out may have marked the last network or not; whose scan runs is left out,
so `AutoBusy` is possible at every try. AP Off is one step up to the start of its
task. The waits for NTP and for the name service, both bounded, have no effect on the
rest.

**KeypadScan.** `key` is the list; `held` and `rested` say that holdTime and
debounceTime have passed, so time is two bits. `Scan` is one call of `getKey` that scans:
it reads the matrix (`Readings`: a shaking contact reads either way), removes idle keys,
moves the others one step and puts fresh keys into free slots in scanning order, all as
one function of the old list. `HeldAt` keeps that the hold timer is shared: a key added
earlier in the same pass sets it back for those after it. `due` is history: the keys
pressed since `getKey` last returned them. The firmware's 10 ms debounce time is longer
than a contact shakes, which `Rest` says.

**Oled.** Three cells stand for the screen: the icon's in the left and the percentage's
in the right columns of the header row, and the page's below, in both. Each statement that
another thread can come between is a step: `Clear` (fillRect, setCursor), `PrintText`,
`Display` (reads the window), `SetAddress` and `SendBytes` for each row, `ResetWindow`.
Bytes sent after another thread moved the address go to that row. The icon task draws
and never sends.

A drawing is a step, and so is each drawing of another thread that it overlaps with:
`drawn[t]` is what others have drawn since `t` began. `drawPixel` reads, changes and
writes a byte of eight rows, with no lock, and the lowest rows of the header are in
bytes of the page: when the drawing of `t` ends, any of the cells that share columns with it
and were drawn meanwhile, and its own, may be torn (`Torn`), and its bounds of the
window, or theirs, may have been written over by older ones (`Lost`; `wiped[t]` when it was
the reset that came between). A cell that is torn, or has two texts, shows `Mess`, until
it is cleared. `ResetWindow` may bring back bounds that a thread drawing at the time
had read. The bounds of the window are one box around what was drawn (`Within`), from
the first row to the end, as `display()` sends it. The picture of the icon's cell is left
out, as no property is about it; what its drawing does to the bytes and bounds of the
others is not. `fillRect` and `setCursor` are one step: a step of another thread between
them does the same before both or after both.

**WebSD.** A path is the sequence of its names, the content of a file the sequence of
the pieces written to it. `FirstPiece` and `LaterPiece` are the callback with
`index == 0` and without; `uploadFile` and `folder` are its static variables, so a client
that names no folder writes into the folder of the one before. A file that cannot be
opened is answered OK like the others. `turn` and `kept` are history: who alone wrote
the open file, and what was stored undisturbed. FatFs is external: a file deleted or
renamed while open is written no more.

**OtaUpdate.** A piece is at least one flash sector of an image. `Begin` is `setMD5`
and then `begin`, in that order, so that a begin that takes effect forgets the sum and
one that does not (an update is running) leaves it. `Fail` is `_abort`, `EndUpdate` is
`_verifyEnd`. `Restart` is the boot loader as well: it starts the chosen partition if an
image is in it. It happens from the loop two seconds after an answer, or at any time
(menu, command, power). `own` and `kept` are history: the upload whose update met no
other client, and the firmware installed last and not written over.

## 3. What the runs check

| run | instance | distinct states | properties |
|---|---|---|---|
| `menu` | the device's tables: 6 menus of 6, 2, 4, 2, 2, 2 entries, 3 rows | 2,216 | TypeOK, SelectionVisible, NoEmptyRows, SelectionOwnsKeys, ScreenTruth, HomeByD |
| `text_input` | keys 0 and 1 of the real table, 3 characters | 227,814 | TypeOK, CycleHasTarget, ImplementsEditor |
| `file_browser` | a card with nested, empty and long folders, taken out and put back at any time, also while it is listed | 288 | TypeOK, MarkedShown, BackToRootIfSeen |
| `wifi_list` | array of 3; scans find 1 or 4 networks; loop and reconnecting task, loop and console, loop alone | 211,386 | TypeOK, MarkInRows, ListIsLastScan, ChosenMarkedAlone |
| `connectivity` | loop, console, two reconnecting tasks, one retry; three worlds | 939,050 | TypeOK, ServesWhenOnline, Quiesces, EndsOnline |
| `keypad` | three keys, a list of two slots | 136 thousand | TypeOK, ListedOnce, OncePerPress, ListEmpties, FirstIsReported |
| `oled` | two pages | 1.70 million | TypeOK, UndisturbedShown, PercentHeals |
| `web_sd` | two uploads of two pieces, one with a folder; three paths; two renames | 1.59 million | WebTypeOK, StoredStays, BeginsAtFirst |
| `ota` | two firmwares of 2 and 1 pieces, a file system of 1, a partition of 2 | 1.07 million | TypeOK, OwnInstalled, BootsInstalled, RebootComes |

And the runs that end in a counterexample: `wifi_list_auto`, `web_sd_page`,
`ota_answer` (section 6).

**menu.** `SelectionVisible` and `NoEmptyRows`: whatever keys are pressed, the entry
that B would run is an entry of this sub-menu and on the screen, and the window never
passes the end. `SelectionOwnsKeys`: a program or an option list belongs to the selected
entry, so an old callback is never run for a new entry. `ScreenTruth`: a menu on the
screen is the one that the keys act on. It leaves out two states on purpose, since the
code does reach them: after readRFID (section 6), and after a program that returns
without redrawing, whose picture stays until the next key. `HomeByD`: pressing D and
nothing else ends in the main menu, drawn, from programs and option lists too. The
tables are the device's and the state space is complete: nothing is bounded.

**text_input.** `CycleHasTarget`: when a repeated key would replace
`inputText[length - 1]`, the text is not empty and that character is the one this key
wrote. `ImplementsEditor`: under the refinement mapping (the last character is pending
while its key may be cycled) each step is a step of `TextEditor`; a settled character is
never replaced, also not after `*`, `#`, a pause or another prompt. Keys 0
and 1 are a short row and the row that overflows; three characters are enough for a
character that is settled, one pending, and one deleted in between, since no action
looks at more than the last character.

**file_browser.** `MarkedShown`: over lists shorter and longer than the screen, cut
short or not, with the card leaving between any two keys. `BackToRootIfSeen`: somebody
who presses only D, and reopens the browser when it ends, sees the root again and again,
provided the browser can be seen at all (without the proviso the code fails,
section 6). The card has two folders of one name at different depths, an
empty folder, and lists of 2 to 6 entries around the 3 rows.

**wifi_list.** `TypeOK`: whatever another thread makes of `wifiCount` while a thread
copies, its index stays in the array or just behind it. `MarkInRows`: the entry that B
reads is in one of the three rows, while others change `wifiCount` under the open list,
and also where a scan finds more than the array holds. That the entry is one of the array
is not said: it is not, in the second case (section 6). `ListIsLastScan`: loop and
console scanning and copying at the same time leave no mixture; it excludes the
reconnecting task, which destroys results (`wifi_list_auto`). `ChosenMarkedAlone`: with
the loop alone and no refused scan, the password is asked for the network that was marked
in the last frame; with another thread scanning the code does not promise this, since the
list may be replaced between frame and key. Finding 4 with an array of 3 and 3 rows lets
the window scroll, and go past the array; finding 1 makes the count shrink below the mark.

**connectivity.** `ServesWhenOnline`: when all threads are idle, a device that
believes it is connected and is, or that believes it is an access point and is, has
its server listening: no order of the threads' `end` and `begin` leaves it down. It
excludes worlds with a console (the command `wifi-` ends the server before it knows that
it can begin it again) and, for the access point, worlds where starting it may fail.
`Quiesces`: once nobody gives commands, every thread ends, on every radio.
`EndsOnline`: on a good radio and with no console, once the last command has been given and
the reconnecting tasks have made their last scan, any thread that is then about to join
brings the device on line, linked, flagged and serving, and it stays so. The premise on
the scans is needed: a refused scan ends the link of another thread (WiFiMulti.cpp:313),
and the tries of both may be over when they look again. Two tasks are the boot's and one
of AP Off, the least that can overlap; with one retry a task can fail, try again and give
up. Deadlock is not
checked, because the system may stop: after the last command, with all threads idle
and a link that does not drop, nothing is left to happen.

**keypad.** `OncePerPress` and `ListedOnce`: contacts may be read either way at every
scan while they shake, keys overlap in every way, the poll may come late or early,
and still no press is reported twice and no key has two slots (it would keep one for
good).
`ListEmpties`: with the fingers off, every slot comes free, so slot 0
is never lost. `FirstIsReported`: a key pressed alone on an empty list is
reported if it is held until the next scan. It does not say more because the code does not
do more: a key pressed while another is down, or not yet off the list, goes into
a later slot and is never reported, and a tap shorter than the `delay(1000)` of the
clock's loop is missed. Two slots for three keys let the list fill, and the third
key wait; three keys let a key before and a key after another in scanning order
meet it.

**oled.** `UndisturbedShown`: a page that the loop draws while both tasks sleep is on
the panel and stays, whatever the tasks draw and send afterwards, at a time or one
after the other, into bytes that hold rows of the page as well. `PercentHeals`: whatever
cursor, bytes, window and address did before, the percentage comes right for good once
the loop only waits and the battery task has drawn at least once more without the icon task
coming in between. A page drawn while a task draws is promised nothing: its text can
land in the header, its pixels can be lost with the byte that the icon's task writes
back, and it can be left unsent when another thread resets the window. Two pages let
the old one show through the new.

**web_sd.** `StoredStays`: a file whose upload met no other is whole, and stays so until
it is uploaded anew or deleted: late pieces, aborted uploads that left the file open,
renames of the folder above it, Remove SD and reboots do not touch it.
`BeginsAtFirst`: no piece is ever appended to a file that was closed before. Two
uploads of two pieces are the least that can interleave; the runs' paths let one
upload's folder be the folder that is deleted and renamed.

**ota.** `OwnInstalled`: an update whose start found none running, and that met
no other client, is installed when it is answered, whatever updates failed and
connections were lost before it. `BootsInstalled`: a restart, at any moment, starts the
firmware installed last, unless another was written over it; then the one that
ran. `RebootComes`: the reboot that was promised comes, if programs of the menu
end and nobody starts updates any more, since every update sets the timer back. Three
images let one be left behind by a lost connection, one take its place, and
one be of the other partition; a partition of two pieces can overflow. Deadlock is checked.

## 4. Fairness

- `Menu`: `WF(KeyD)`; `FileBrowser`: `WF(KeyD)` and `WF(ShowFileList)`. These say that
  a person who presses only D goes on pressing it, and that the press is seen: every loop of the
  firmware that holds the keys polls the keypad without end, and none waits for
  anything else. The properties are of the form "if from some point on only these keys
  are pressed, then".
- `Connectivity`: weak fairness of each thread's steps: FreeRTOS schedules tasks of
  equal priority in turn, and every wait of a thread is a delay, which yields. Weak fairness
  of `LinkUp` only where the radio is good: a join that is not disturbed ends. No
  fairness of the user, of a loss of the link, or of a failing join.
- `KeypadScan`: weak fairness of `GetKey` and `Rest`: every loop of the firmware polls
  the keypad without end, and time passes. No fairness of fingers or of the hold timer.
- `Oled`: weak fairness of the battery task, which is periodic and takes no lock. None of
  the loop, of keys or of the icon task.
- `OtaUpdate`: weak fairness of `TwoSeconds` (time), and of the loop outside the programs
  of the menu. No fairness of clients, and none of the end of a program: `RebootComes`
  has it as a premise.
- `TextInput`, `WiFiList` and `WebSD` have safety properties only and state no fairness.

## 5. What is proved

Forty-nine theorems in eight modules, each for every value of the constants that
satisfies the assumptions of its module. In each module the strengthened invariant
`IInv` is shown to hold initially and to be kept by every step, with one case for each
action, and the properties follow from it. TLC has checked each of these invariants
on the instance of the module's run.

| module | theorems | assumptions | inductive invariant |
|---|---|---|---|
| `MenuProofs` | Invariant, Typed, SelectionVisible, NoEmptyRows, SelectionOwnsKeys, ScreenTruth, HomeByD | at least one main entry, one entry in each sub-menu, one row | the four together: the wrap lands on the last full window only because of NoEmptyRows, and the -1 of readRFID meets a window at its top only because the reader's program belongs to entry 0 (SelectionOwnsKeys); ScreenTruth is inductive on top of them |
| `TextInputProofs` | Invariant, Typed, CycleHasTarget, ImplementsEditor | each row has 1 to RowWidth characters; a full row is followed by one that is not full | types and CycleHasTarget: a digit is the last key only after a step that wrote the last character; the refinement's lemmas cut the text in front of its pending character, and map each action to one of the editor |
| `SDCardProofs` (browser) | Invariant, Typed, MarkedShown, BackToRoot | the root is a folder of the card | types, the mark in the window, and that the list is made of entries of the card (`ListOfCard`); `Len(fileList) - 1` is unsigned in the code, and the proof needs that an empty list is never browsed |
| `SDCardProofs` (web pages) | Invariant, Typed, StoredStays, BeginsAtFirst, OneAtATime | paths are sequences of names; the values for "no folder" and "no file" are none | `WebIInv`: the whole way to every file is made of folders (`IsTree`), so a rename or a deletion of a folder takes all that is in it along; the open file is begun, is not one of those kept, and holds what `turn` has sent while it is the only writer (`OpenFile`) |
| `WiFiListProofs` | Invariant, Typed, MarkInRows, IsLastScan, ChosenMarked, NamesSaved | for NamesSaved that the empty String is no network's name | types and the mark in the window, for any count, also one that changes under the open list (`MoveInRows`); `NamesOwed` says of each listed entry that it is the result's or that a thread that scans or copies has still to write it; `AloneOwnsList` that with the loop alone the rows on the screen are the array's until a key; `OwnResult` that with one scanner the result it copies is the one it counted |
| `ConnectivityProofs` | Invariant, Typed, Serves, WorkRunsOut, JoinWaited, EndsOnline | the boot's task is one of the Autos | see below |
| `KeypadScanProofs` | Invariant, Typed, ListedOnce, OncePerPress, FirstIsReported, ListEmpties | the codes are natural numbers, at least one slot | every key that could be read closed without a new press (down, or still shaking after the last scan that saw it) is in a slot, pressed or held, so it is not fresh; the slots filled in one pass are given to different keys because ranks in a finite set are different |
| `OledProofs` | Invariant, Typed, UndisturbedShown, PercentHeals | the pictures are different | `PageUnderWay`: while both tasks sleep the loop has cursor, address, bytes and window to itself; what it has not sent yet is in its window, what it has sent is on the panel; `PageKept`: afterwards the two tasks share no column, so no byte, and what they send of the page is what is there; `PercentUnderWay` the same for the battery task while nobody comes in |
| `OtaUpdateProofs` | Invariant, Typed, OwnInstalled, BootsInstalled, UploadsRunOut, RebootComes, OneAtATime | no image is longer than the partition | `OwnProgress`: what was written is the prefix that the client has sent, in its partition, with no sum to compare; `KeptBoots`: what boot chooses holds the firmware kept, and no other image can be read there (two whole images of one content are one) |

`ServesWhenOnline` speaks only of moments when all threads are idle. Its strengthening
says what holds in between: while the server is down and the device believes it is on
line, with the station linked or joining, some thread is connecting (`run`, `scan`,
`refused`, `begin`, `wait`, `check`, `serve`), and so will either begin the server or
clear the flag (`StationServed`); and while the server is down in AP mode with the
access point on, the loop is about to serve, or to end the access point
(`AccessPointServed`). The first needs that the console's thread does nothing in a world
without a console (`WebRests`). The proof has a lemma for each kind of step: the radio,
a thread that goes on, the check, the serving, and each of the user's commands.

Liveness. Seven of the eight liveness properties are proved as well, each under a
hypothesis that names what the prover cannot do. Their progress goes through a number of
phases that the constants do not change, so each phase needs two facts about single
steps, proved like the safety lemmas (no step leaves the phase but to the next one or to
the goal; the fair action does leave it), and the temporal prover joins them:

| theorem | phases |
|---|---|
| `MenuHomeByD` | a program, or the options, over a sub-menu; the sub-menu; the main menu, drawn (`KeyDLeadsUp`) |
| `FileBrowserBackToRoot` | a path is at most one name long (`ShortPath`: entries carry their bare names), so one D is enough |
| `KeypadFirstIsReported` | the contact shakes and this was not seen; was seen; is at rest; at every scan between them the key is reported or nothing is (`ScanOfFirst`) |
| `KeypadListEmpties` | the contacts come to rest; then every slot is pressed, held, released or idle; not pressed; not held either; idle; free (`OneScan`, used four times for all slots at once) |
| `OledPercentHeals` | the text in the buffer and in the window (`Printed`, as in every round that the battery task begins and draws alone); both rows to be sent (`ReadyToSend`); the header's address set (`HeaderAddressed`); sent: `Healed`, which every later step keeps, those of the icon task included |
| `ConnectivityEndsOnline` | somebody is bound to connect: about to join, waiting, checking or serving, with the station joining or linked (`Bound`); no step ends that in a world without hardships once the last scan is made, because nobody leaves a join while others wait for it (`JoinWaited`); so when all threads have ended, what is left of `Bound` is a device on line |
| `OtaRebootComes` | the timer runs; two seconds have passed; the loop comes by outside of a program; the reboot, or another restart |

Weak fairness says something only where its action is enabled, and the prover takes
ENABLED for an unknown. So these theorems have the fairness itself written out as a
hypothesis, with the guards of the actions for their ENABLED: `DIsPressed` (of the menu, and
of the browser), `ScansMade` and `RestPasses`, `BatteryGoesOn` (a drawing task always has a
next step), `TimePasses` and `LoopRuns`. TLC checks the same properties without them, from
the fairness of the specifications.

Only model-checked: that those hypotheses follow from the fairness of the specifications;
`Quiesces`, which is the hypothesis of `ConnectivityEndsOnline`; and that the answers come
to an end once nobody starts updates (`AnswersEnd`), the hypothesis of `OtaRebootComes`: TLC
checks `RebootComes` without it. How many steps the last two take depends on the constants (the
number of tries, of tasks, of uploads under way), so they need an induction over time,
which the temporal prover does not have. The steps of that induction are proved.
`ConnectivityWorkRunsOut`: once nobody gives commands, every thread has at most
`6 + 4 * MaxRetry` steps left; its own steps make them fewer, and no step of the radio
or of another thread makes them more. `OtaUploadsRunOut`: once nobody starts updates the
same holds of every upload, and the time to the reboot is set back by the last step of
an upload only.

The three violated properties (section 6). Each is proved for the behaviours in which
its cause does not occur, of the run's specification or of a wider one, which says how
far the fault reaches:

| theorem | property | holds while |
|---|---|---|
| `WiFiListNamesSaved` | `NamesSaved` | at most one thread scans, whichever it is, whether or not its scans are refused (`OneScanner`) |
| `WebOneAtATime` | `AnsweredStored` | one file is on its way at a time (`OneAtATime`, which `MaxConcurrent = 1` gives: lemma `OneByOne`), and nobody creates, deletes or renames anything or removes the card meanwhile (`Undisturbed`); connections may be lost and the device may reboot; the files have no folder and are not empty (`PlainFiles`), like those of the page |
| `OtaOneAtATime` | `OKIsInstalled` | one upload is under way at a time, and all images are for one partition; connections may be lost and the device may restart |

The last needs the most: an update left behind by a lost connection does run on into
the next upload, and what saves that one is the sum, which `setMD5` then leaves to be
compared because `begin` does nothing. The invariant `Believable` says so: an
upload under way is all that was written, or is the one the sum is of, or there is an error.
An image for the other partition breaks it.

## 6. What the models found in the code

| run | where | what |
|---|---|---|
| `wifi_list_auto` | SettingWifi.h:157 | the reconnecting task deletes the result between the loop's scan and its copy: empty names |
| `web_sd_page` | WebReadSDCard.cpp:122 | two files sent by the page at once: the later piece of the first goes into the file of the second, or nowhere, and both are answered OK |
| `ota_answer` | ElegantOTA.cpp:95 | a start while another update runs, or was left behind by a lost connection, is answered OK and only sets the sum. In the run a firmware is started while the update of a file system runs: it goes into the partition of the file system, matches the sum, and is answered OK, with the firmware's partition untouched |

Each of these runs checks one property, taken from a line of the code that
`PROJECT.json` quotes. When it does hold is proved (section 5).

Seen while modelling, and kept as premises of the passing properties:

- After readRFID the arrow points at 'Read ID' while no entry is selected (Menu.h:181):
  B does nothing until a key moves. `SelectionVisible` and `ScreenTruth` leave it out.
- The row of key 1 has no terminating zero (SettingKeypad.h:62): cycling key 1 goes on
  with the row of key 2.
- The "full path" of an entry is its bare name (ReadSD.h:51, against its own comment "Path
  đầy đủ để truy cập lại", the full path to come back to it, and against GUI.h:553, "Vào
  folder con", into the child folder): folders of folders are looked for in the root.
  `EnterFolder => currentPath' = Append(currentPath, Marked.name)` fails at the second
  folder entered. `EnterFolder` does what the code does, and no property of the passing
  run rests on the comment.
- An empty folder ends the browser with the path still there (GUI.h:506): it never opens
  again until a restart. `BackToRootIfSeen` leaves it out.
- `wifiCount` is not cut to the array (SettingWifi.h:219): the list scrolls behind its
  end, draws what is there and joins it. The run has such scans; `TypeOK` and `MarkInRows`
  say what holds even so.
- AP mode leaves `WifiStatus` set (SettingWifi.h:120): the icon shows a connection that
  was ended.
- `displayFailConnect` prints, waits for three seconds and clears before it
  calls `display()` (GUI.h:96): the message is visible only if the battery task sends the frame meanwhile.
- `setMD5` before `begin` (ElegantOTA.cpp:64): the sum is never compared at a first try;
  after a lost connection the next start leaves it set, so a good retry fails with
  it, and the one after that works.
- A file that cannot be opened is answered OK (WebReadSDCard.cpp:118), and a client that
  names no folder writes into the one that was named before (line 123).

## 7. What is not modelled

- The race inside `AsyncServer::begin` and `end` (AsyncTCP.cpp:1534), and the handlers
  that every begin adds again while the server's task walks the list.
- The text size, which moves with the cursor in every place that prints (Oled has the
  cursor); the picture data, and what of the icon is to be seen.
- The static flag that fetches the WiFi information once (GUI.h:171): one bit that no
  other code reads.
- The SPI bus that the reader ends under the SD card (RFID.h:61): what a card access then
  does is inside the bus library; FileBrowser lets the card be gone at any call.
- EXIT as a typed text (SettingKeypad.h:80): the prompt's answer keeps how it was left,
  and callers compare the text; the two differ for one input only.
- What sums and checks of the image would catch: bytes changed on the way.
- Which network is joined: the reconnecting task may join another one while
  `connectWifi` waits for the chosen one (SettingWifi.h:93).
- The depth of the stack: folders and EXIT from the password prompt are calls inside
  calls. The models keep the innermost call, which decides all later behaviour; no
  constant of the code bounds the depth.
- Arithmetic without state: battery percentage, joystick ranges, height of the RSSI
  bars.
- Vendored libraries (graphics, reader, HTTP client, ping, web server), fonts, pictures
  and the board: third-party code and data. They are the bulk of the repository's lines
  (one file of fonts alone is half of them), so the share of lines that the models
  cover stays small, although the firmware's own code with shared state is covered.

## 8. Plan

Done, in this order because the rest depends on them: the menu (it owns the keys), the
prompt and its abstract specification, the two lists, the connection; the keypad's scan,
which Menu and TextInput take as given; the screen, the card's web pages, the update.

Left:

1. `AsyncServer`: begin and end step by step, by three threads, with the handlers that
   accumulate; an abstract server that either listens or does not, as Connectivity
   takes it, as its specification.
2. `Connectivity` with the identity of the network, so that "connected" means
   connected to the chosen one.
3. A composition of Menu, WiFiList and TextInput: keys from the menu to the password.
4. `Quiesces` and `AnswersEnd` for all constants, from the counts that
   `ConnectivityWorkRunsOut` and `OtaUploadsRunOut` bound, and the liveness theorems from
   the fairness of the specifications alone, once the prover can do an induction over time and ENABLED.
