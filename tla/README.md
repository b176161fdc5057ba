# Emul-MIPS: TLA+ models, checks and proofs

Emul-MIPS is a MIPS emulator in C. It loads an ELF object next to a small libc,
executes it in a simulated five-stage pipeline, and lets a user, a script or a
window run, step, set breakpoints and inspect registers and memory. This
directory models all of it but the drawing of the window: what a load puts in
memory, what the pipeline computes and where it stops, and what each command
answers. Paths below are relative to `src/` of the repository root
(`src/pipeline.c` is `src/src/pipeline.c` in `PROJECT.json`).

## Inventory

| Component | Source | State | Operations | What makes it correct | Modules |
|---|---|---|---|---|---|
| Pipeline | `src/pipeline.c`, `src/fonctions.c:721-868` | `vpipeline[5]`, `reg_mips`, `return_addr` | `pipeiter`, `initprog` | computes what the instruction set says; stops where asked; drains at the end | Pipeline, PipelineIsa, StepOver |
| Instructions | `src/execute.c`, `dico.dico` | none of its own (registers, memory, the block's `tmp`, `tmp2`) | one function per instruction, a case per stage | each write in the stage where later instructions see it; bits, signs and bytes | Mips, Isa, Alu |
| run / step / break | `src/user_int.c:561-766` | the local `flag`, `breaklist` | `RUN`, `STEP`, `BREAK` | a command ends, where the help says | Pipeline, StepOver, BreakList, Symbols |
| Breakpoint list | `src/liste.c` | linked list | `insert`, `del`, `present`, `overlap`, `freeList` | behaves as a set, loses no cell | BreakSet, BreakList |
| Memory | `src/mem.c`, `src/emul.c:323-389` | segments | `memRead`, `memWrite` | a word written is the word read, inside one segment | ByteStore, Memory |
| Loader | `src/emul.c:25-132, 407-556`, `src/mem.c` | `memory`, `symtab`, `textStart` .. `libcTextEnd` | `loadELF`, `fill_mem_segment` | segments apart; all or nothing | Elf, Loader, SegTable |
| Symbols | `src/fonctions.c:870-955`, `src/user_int.c:669-760` | none | `seg_from_scnidx`, `addr_from_symnb` | a name is placed where its file defines it | Symbols |
| Relocation | `src/emul.c:149-310` | the pending HI16 of a section | `reloc_segment` | a pair of halves is the symbol's address | Reloc |
| ELF reading | `src/elf.c`, `src/syms.c`, `src/bits.c` | tables read from the file | `elf_load_symtab`, `elf_extract_scn_by_name` | both byte orders are read alike | Elf, ElfFile |
| Dictionary, decoder | `src/fonctions.c:476-719`, `src/pipeline.c:152-163` | `dico_data`, `nbinstr` | `readDico`, `decode` | the most specific mask wins | Dico, Decode |
| Other commands | `src/user_int.c` | registers, memory, `verbose`, `clocktime` | `SET`, `ASSERT`, `DISP`, `DISASM`, `CLOCK`, `VERB`, `HELP`, `EXIT` | refused input changes nothing | Commands |
| Command loop | `src/main.c`, `src/fonctions.c:18-68` | `scriptmode`, the script file | `getCommand`, `DEBUG`, `RESUME`, end of file | the exit status tells whether a line failed | Shell |
| Lexer, register names | `src/fonctions.c:71-474` | none | `string_standardise`, `what_type`, `isReg`, `parseReg` | a number is what the documentation calls one; a name shown is read back | Lexer, Registers |
| Disassembler | `src/disasm.c` | none | `disasm` | every instruction once, the right labels | Disasm |
| Window | `src/affichage.c` | window, panels, the console | SDL event loop | the panels follow the emulator; exit leaves | Gui, Panels |
| Text edition widget | `src/textedition.c` | text fields | third-party library | not part of the emulator's own logic | - |

How they interact: `main` reads a command and calls `decrypt`; `LOAD` calls
`loadELF`, which reads two ELF files, lays their sections out, fills them,
relocates them and sets the bounds; `RUN` and `STEP` call `pipeiter` until it
returns a value that is not positive; `pipeiter` calls the instruction functions
through the dictionary for WB, MEM and EX in this order, then decodes and
fetches. Everything is shared through global variables. There are no threads.
The window calls `decrypt` from SDL's event loop, and `decrypt` can open a
window.

What is hard here is not concurrency of processes but of INSTRUCTIONS: three of
them share `reg_mips` in every cycle, and who sees whose write depends on the
order of the stages, on the stall, and on the stage in which `execute.c` chose
to do each write. Next come the sequences of commands: a command starts on
whatever pipeline, symbol tables, breakpoints or script position the previous
one left. Then the failures half way: a load that has already replaced the
tables when the second file cannot be read, a table of segments whose slots are
counted in one function and filled in another. `PROJECT.json` lists these hazards
line by line, each with the properties that would catch it.

## Modules of the pipeline

- **Mips**: the instruction set as operators. `ReadedReg` and `WritedReg` are
  `listReadedReg` and `listWritedReg`; `EXTmp`/`EXBlock`/`EXReg`,
  `MEMReg`/`MEMBlock`/`MEMMemory` and `WBReg` are the `case EX`, `case MEM` and
  `case WB` parts of the functions of `execute.c`.
- **Pipeline** (extends Mips): the state machine. The variables are the
  program's globals (`reg_mips`, `memory`, `vpipeline`, `breaklist`,
  `return_addr`) plus `mode`, which is `decrypt`'s `flag`. `Advance` is one call
  of `pipeiter`, from the stall test to the value it returns; `StepReturned` is
  the call that returns at once because a stepped-over procedure is back. `Run`,
  `Step`, `StepRefused`, `RunFrom`, `RunRefused`, `BreakAdd` and `BreakDel` are the
  commands; the two that are refused have changed PC, or started the program again,
  before they look at the rest of the line.
- **Isa**: what the pipeline promises: a machine without a pipeline, one
  instruction per step, one delay slot.
- **PipelineIsa** (extends Pipeline, instantiates Isa): the refinement mapping,
  the list of pairs of instructions for which it fails, and the claims of
  comments and help text that the code does not keep.
- **MCPipeline** (extends PipelineIsa): the instances for TLC.
- **StepOver** (extends Pipeline): adds the depth of procedure calls as a
  history variable, with the depth at which the step over began (`callDepth`)
  and whether the user moved PC since (`moved`, set by `run <address>` and by a
  program that starts again). `pipeiter` knows none of them: it compares PC with
  the address after the call. **MCStepOver** has programs whose procedure calls
  others.
- **Alu**: the instructions that go through the pipeline as the ones of Mips do
  but compute something else: logic, shifts, LUI, bytes, DIV, SEB; each taken
  through EX, MEM and WB.
- **PipelineProofs** (extends PipelineIsa): theorems about Pipeline and the refinement.

Choices:

- In Mips and Pipeline addresses are word numbers: the code's 4 is 1,
  `textEnd+16` is `TextEnd + 4`. PC is taken to be a multiple of 4. (Memory,
  Loader and Disasm count bytes.)
- A register holds `-HalfRange .. HalfRange-1` and arithmetic wraps there, with
  the overflow tests of ADD, ADDI and SUB as the code has them.
- A pipeline block holds the address its instruction was fetched from instead of
  the word; the program does not change while it runs (stores go to
  the writable segments only; the code would also let a program store into its
  own text). `Empty` is the word -1, `Bubble` the NOP of `addNOP`. The IF block
  is not state, it is overwritten in every cycle before it is used.
- The text of the program and that of libc are apart, with at least the four
  words of `+16` between them and after them (`MipsAssumption`). The addresses
  just past a text hold no other segment.
- Programs contain words of the dictionary only. With an empty MEM block `step`
  reads `dico_data[-1].name` (`pipeline.c:225`); the model takes what it finds
  there not to be the name of a call.
- A service of SYSCALL is chosen by the code in the instruction (`SYSCALL_LIBC`
  is 1): 0 and 10 exit, 2 and 5 read `InChar` from the user, the others only
  print. Services 4 and 8, which read and write strings, are left out.

Definitions whose comment starts with "Mutant" are altered copies of the
definition that follows them; `PROJECT.json` pairs each with the property that
finds it out. No specification uses them.

### The refinement

`ImplementsIsa` says that the pipeline, under any sequence of commands, computes
what `Isa` computes. An instruction counts as executed when it moves from EX to
MEM. The state of `Isa` is what the pipeline's state becomes when the
instructions past EX are finished without starting others (the "flushing"
abstraction): `DrainedReg` applies WB, then MEM's redirection, then the WB of the
instruction in MEM. The next two instructions of `Isa` (`pc`, `npc`) are the real
blocks among EX and ID, completed by the address of the next fetch. A stall, a
step, a breakpoint, and the cycles that fill the pipeline are stuttering steps.

It does not hold of every program. `Clean` lists, as `PairHazard(x, y)` on an
instruction and the one placed right after it, the pairs for which it fails in
this code:

1. a jump or a branch in a delay slot;
2. SYSCALL, then an instruction that reads `$v0` (no stall);
3. JAL or JALR after an instruction that writes the same link register, or a
   JALR held by a stall, or one after SEB of the link register: the link is
   written in EX, too early;
4. ADD, ADDI or SUB over a register the previous instruction writes and that it
   does not read: an overflow restores the value from before both;
5. a store or a link within reach of an exit: it is done although it comes after;
6. an exit in the delay slot of a jump: a JAL or JALR at the target is in EX, and
   writes its link, in the cycle in which the exit is in WB. With the text
   `JAL 10; NOP; J 1; SYSCALL 0` and a libc of `JR 31` at 10 and `ADDI 31 31 1`
   at 11, the register `$ra` ends with a link that no instruction executed has made;
7. a jump to two words before PC counts as out of the text: its delay slot is
   dropped after it has gone through MEM. `Clean` looks at the targets that the
   text shows; `ReturnsNear` asks the same of those of JR and JALR, which are in
   a register, at the moment they redirect the fetch;
8. JALR with rd 0 or rd = rs.

Each of the pair conditions has been taken away in turn and TLC then found a
program that breaks the refinement: none is there for safety's sake. Compilers
avoid most of them; a program written by hand for this emulator need not. That
the list is complete is what the theorem `PipelineImplementsIsa` shows. No program
of the runs fails by the sixth alone: the proof brought it to light.

`Isa` keeps two traits of the code so that they are not held against the
pipeline: `Restart` does not load the data again, and `Halt` may drop the delay
slot of a jump whose target is where PC ends the program, or the word before.

## Modules of the rest

Each models the functions named at its head, action by action; a program
variable keeps its name.

- **BreakSet** is a set with a question put to it (is PC a breakpoint, do two
  sets of registers meet). **BreakList** is `liste.c` on a heap of cells: sorted
  insertion (`insert`), deletion (`del`), `freeList`, and the two ways the program
  uses the lists. The registers of an instruction are inserted one by one in the
  order of `fonctions.c:796-860`, twice the same when its fields name it twice.
- **ByteStore** is a map from addresses to bytes with words inside a region.
  **Memory** is the table of segments with `memRead` and `memWrite`, the search
  of a segment, the 32-bit sum that checks the end of a word, and the error codes.
- **Elf** is what the loader takes from an ELF file (sections and symbols in file
  order). **Loader** is `loadELF` from the command to PC, one step for each
  section: `next` is `next_segment_start`, going down for the libc and up for
  the program; a load that is refused keeps what it had already changed.
  **SegTable** is the same load seen from `mem.c`: slots counted from the symbols,
  taken by the first free name, filled by name, reached by a counter.
  **Symbols** (extends Loader) adds `break` with a symbol. The search for its address
  succeeds even when no segment was loaded from its section: the code then reads the
  start of the segment of number -1, `Wild` in the model, any set of addresses.
- **ElfFile** reads the headers and the symbols with the byte order of each
  field tracked: a field is good once it is in the order of the host.
- **Reloc** is `reloc_segment`, one step per entry, with the listing that
  `verbose` asks for, on words of two halves.
- **Dico** (extended by **Decode**) is `readDico` line by line and exchange by
  exchange, and `decode`'s search.
- **Commands** (extends Memory) is `decrypt` without load, run, step and break:
  a line is the sequence of its words, a command succeeds, is refused or ends the
  program; `shown` is what it displays. **Shell** (extends Commands) is the loop
  of `main` around it.
- **Lexer** and **Registers** are pure functions over every text of a small
  alphabet, with the C library's `strtol` modelled from how the code calls it.
  Registers has two tables of names, each in the order and form of the source: the 35
  comparisons of `isReg` (`ReadTable`) and the 35 cases of `parseReg` (`WriteTable`).
- **Disasm** is `disasm`; **Panels** (extends Disasm) is the second copy of it
  that writes the program panel of the window, from the globals `textStart` and
  `textEnd` that a load leaves, which are not always the bounds of the text. Addresses
  and sizes wrap at `Addresses`; the mnemonic and the arguments of a line are left out. **Gui** is the event loop: the
  windows are the activations of `affichage`, one inside the other.
- **LoadingProofs**: theorems about Loader and Symbols, SegTable and ElfFile.
  **DicoProofs**, **BreakListProofs**: about Dico, BreakList. **ShellProofs**: about
  Memory, Commands and Shell. **LexerProofs**: about Lexer and Registers.
  **PanelsProofs**: about Disasm and Panels. **GuiProofs**: about Gui.

### Composition

`MCLoading`, `MCMachine` and `MCConsole` check modules side by side: a
behaviour is that of one of them (`part`) while the variables of the others stay
as they are. That is sound for what is asked. The program has one
thread, a command runs to its end before the next is read, and the modules that
share a composite share no variable; where one component does call another, the
module extends it instead (Symbols and Loader, Decode and Dico, Commands and
Memory, Shell and Commands, Panels and Disasm, Pipeline and Mips).
Interleaving the rest would multiply the states and add no behaviour that a
property could tell. The properties are the modules' own, which hold where
their variables stay still; one that does not, or that is taken from an instance,
is written `part = "..." => ...`.

### Abstract specifications

| Detailed | Abstract | Property | What the mapping is |
|---|---|---|---|
| Pipeline | Isa | `ImplementsIsa` | the pipeline with its last stages finished, see above |
| Memory | ByteStore | `ImplementsStore` | the bytes of all segments by their address |
| BreakList | BreakSet | `ImplementsSet` | the values of the cells reached from the first |

## Runs

| Run | Instance | Checks | Result |
|---|---|---|---|
| `isa_clean` | all clean programs of the menu (13 086), run | `ImplementsIsa` | holds |
| `isa_debug` | 9 programs with the rest of the instructions; step, step into, breakpoints, run | `ImplementsIsa` | holds |
| `flow_all` | all 38 416 programs of the menu, run | `NoWrongPath`, `DrainedAtEnd` | hold |
| `commands` | 20 programs of nested calls, every command | `TypeOK`, `StallOnce`, `WholeProcedure` | hold |
| `forward` | 4 219 clean programs that only go forward, `run 3` too, with fairness | `CommandEnds` | holds |
| `loading` | 4 program files and a missing one, 5 addresses, 96 addresses of memory; all choices of sections; one with symbols in a section that is not loaded; files of both byte orders with up to 2 symbols; 7 relocation tables on words of 8 bits | see below | hold |
| `machine` | `dico.dico`, its reverse and 504 small files; 14 instructions on words of 6 bits; 16 addresses; lists of 5 cells | see below | hold |
| `console` | 8 bytes and some 70 lines of commands; 310 scripts; every text of up to 5 of 10 characters; 444 names of registers; `disasm` of 5 programs and 212 ranges; the panel of 256 programs of 3 or 4 instructions, without a text or behind a refused load; 2 windows, 2 commands, 5 lines | see below | hold |
| `stale_input` | SYSCALL 2, then a use of `$v0` | `NoStaleRead` | violated |
| `run_from_address` | a loop, step into, `run 1` | `RunsFromAddress` | violated |
| `loop_breakpoint` | a loop with a breakpoint on its first instruction | `StopsAtBreakpoints` | violated |
| `link_to_zero` | JALR with rd 0 | `ZeroFixed` | violated |

What the composite runs show:

- `loading`: `Disjoint` (a program that ends below the libc never shares an
  address with it or with the stack), `BoundsSet` (a load that ends has made the
  bounds, PC and the symbols those of what is in memory), `ProgramSymbolPlaced` (for a
  name of a section that is loaded; the others are under the claims below),
  `OwnSlot` and `CountExact` (the two functions that count slots agree, also when
  a section cannot be read), `SymtabRead` (either byte order), `SumsRelocated`
  (HI16/LO16 pairs, carry included, and full words), `RelocEnds` under fairness.
- `machine`: `InOrder`, `FirstIsSpecific` (the entry found for each instruction
  of the real dictionary is its own) and `DicoReadEnds` under fairness;
  `BitsRight`, `DivisionRight`, `BytesRight` against definitions by bit, by
  division and by byte; `ImplementsStore`; `ImplementsSet` and `SortedNoLeak`.
- `console`: `RefusalsKeep` (a command refused at any word has changed nothing),
  `SetThenAssert` (`assert` confirms what an accepted `set` was given exactly when it is
  a register, a word or a number of one byte: `set mem byte 0x2 -1` stores 255, and the
  `assert` of -1 then fails), `StatusTells`
  (the exit status is 1 exactly when a line of the script failed), `ScriptEnds`
  under fairness; `LineReady` (two passes over a line leave nothing to normalise),
  `Grammar` (which texts are numbers), `RoundTrip` (the table a
  register's name is shown from agrees with the table it is read by); `LabelsRight` (labels before
  an instruction and after a branch or a jump) and `WholeRange` (the range whole, each
  instruction once), both of `disasm` and of the panel, and `WholeText` (as long as
  the globals are its bounds, the panel has the text, its labels and its marks): texts of program and libc are apart, symbols of
  other sections have the same offsets, some words are no instruction, some programs
  have no text, and some are followed by a load that was refused;
  `PanelsFollow` (after a command from the keyboard the panels show the emulator) and
  `ExitLeaves` under fairness.

What the four violations show:

- `stale_input`: comment of `pipeline.c:206-210`. SYSCALL writes `$v0` in WB, but
  `listWritedReg` sees its rd field only, so the next instruction is not held.
- `run_from_address`: help text of `user_int.c:829`. `run 0x...` sets PC under a
  pipeline that still holds instructions; a jump in MEM then overwrites it.
- `loop_breakpoint`: `define.h:114`. PC is compared with the breakpoints at the
  end of a cycle; after a jump it has already moved past the target.
- `link_to_zero`: comment of `fonctions.c:225`. JALR bypasses `writeRegindex`.

### Bounds

- Pipeline (`isa_*`, `flow_all`, `forward`): a text of four words (1..4), a libc
  of one two-word procedure (10..11), registers 0, 2, 8 and 31 with HI, LO and PC,
  36 values per register and one word of data. Four instructions are enough for a
  producer, a consumer one and two places behind it, a jump with its delay slot
  and its wrong path, all in flight together: the pipeline holds four. 36 values
  let a sum overflow and a branch or a load leave the map. Registers and loops are
  bounded by their width only.
- `commands`: a main program that calls twice, a procedure that saves its return
  address on the stack and calls the libc once, twice, through a register or in a
  loop; 64 values, three words of stack, breakpoints inside and outside it.
- Addresses wrap at 96 (`loading`), 16 (`machine`, `console`) and 64 (`disasm` and the
  panel) as they do at 2^32, and the instances put a segment where `[vsyscall]` is, one address below
  the end. Pages have 4 addresses.
- Words have 6 or 8 bits with the same proportion of halves and bytes; every value
  of a word, or those next to each sign and carry, is tried.
- The list has three addresses and five cells: insertion at the head, in the
  middle and at the end, with two register lists built beside the breakpoints.
- A panel whose size wraps to nearly all addresses (no text, `textEnd` still 0) is in the
  instance. The code would never end one whose size is in the last word below the wrap:
  both counts pass it; no program of the instance has it, and no property asks it to end.
- Scripts have up to three lines, which lets a failure, a `debug` and an `exit`
  meet in any order; the user types two lines (`MaxTyped`). Windows: two
  (`MaxOpen`), and two commands (`MaxMachine`).

### Deadlock

The three composites set `CHECK_DEADLOCK FALSE`: a load, a relocation, an
instruction, a text or a `disasm` is a computation that ends, and the shell and
the window stop when the program exits. The pipeline runs keep it on: at the
prompt a command is always possible, and while one runs `pipeiter` always is.

### Fairness

It is assumed of loops that the program runs by itself, never of the user.

- `FairSpec` of Pipeline: `RUN` and `STEP` call `pipeiter` in a
  `while (flag > 0)` loop (`user_int.c:588, 616, 632`) that nothing interrupts.
  `CommandEnds` is checked on programs without backward jumps; a program that
  loops keeps `run` running, in the emulator too.
- `LoadingSpec`: the two loops of `reloc_segment` over one table; `MachineSpec`:
  the loops of `readDico`. One thread, nothing waits.
- `ConsoleSpec`: the loop of `main` except the line the user types, and the loop
  of the window except the events: a window to which nothing happens waits.

## Proofs

`PipelineProofs`, for every program, every width, every layout of text and data
allowed by `MipsAssumption` and `PipelineAssumption`:

- `TypeCorrect`: `Spec => []TypeOK`. `TypeOK` is inductive as it stands. The
  lemmas before it give each stage operator its type (registers to registers,
  blocks to blocks); `StageTypes` chains them in the order of `pipeiter`, and
  `AdvanceTypeOK` has one step per variable.
- `StallsAreSingle`: `Spec => StallOnce`. After a stalled cycle MEM holds the NOP
  of `addNOP` (`StallInsertsNop`), which writes no register.
- `WrongPathFlushed`: `RunAddr = {}` implies `Spec => []NoWrongPath`. The
  invariant is inductive together with `TypeOK`: the block that enters MEM was in
  EX with a known `tmp`; if it did not flush, it is no jump, and if it is a branch
  it was not taken and its `tmp` is PC + 2, so that what it writes in MEM is the
  PC the fetch has reached (`WrapStep`, wrap-around included); a command keeps PC
  or empties the pipeline. The hypothesis is needed: `run <address>` changes PC
  under the pipeline, which is the finding above.

- `EndDrains`: `RunAddr = {}` implies `Spec => DrainedAtEnd`. `pipeiter` lets PC
  run four words past the text before it stops, which drains the pipeline only if
  nothing in it jumps. The invariant `Trail` says how far each block lags behind
  PC: ID holds the word before PC, EX the word before that, and so on, a NOP or an
  empty block ending the row (`Trails`); and that no cycle starts with PC out of
  the text. `NoWrapInside` excludes that PC got past the text by wrapping.
- `PipelineImplementsIsa`: `RunAddr = {}` and `\A p \in Programs : Clean(p)` imply
  `Spec /\ []ReturnsNear => ImplementsIsa`: the refinement for every clean program of any
  length, every text, width and order of the commands. `RunAddr = {}` as before; `Clean` and
  `ReturnsNear` are needed, each by the counterexamples named with them above.
  `ReturnsNear` is a condition on behaviours because the target of a JR is
  computed; it speaks of the two addresses of `TooFar` only.
  - *The invariant* is `TypeOK /\ NoWrongPath /\ Trail /\ InsInv`. The first three say
    what address each block holds; `InsInv` adds, while PC is in the text, that a flushed
    fetch has its delay slot before it and its target behind it (`Slots`),
    that the two words after an exit in WB are those placed behind it (`ExitLast`,
    which makes the pairs of `Clean` with an exit speak of them), and
    that `tmp2` is clear until MULT or a load sets it (`Fresh`: both hand
    a value over in it, and a block is moved with whatever it holds). TLC checks it on the
    instances of `isa_clean` and `isa_debug`.
  - *Two instructions at a time*: `Compatible` says that the instructions in MEM and
    EX form no pair of `Clean`: either they were placed one after the other or one of
    them is a NOP that the pipeline put there; it is what the per-instruction lemmas use.
  - *Values*: `ExecutedAlu`, `ExecutedMove`, `ExecutedMult`, `ExecutedPlain`,
    `ExecutedLink`, `ExecutedStore`, joined in `Executed`, say that EX now, MEM in the next
    cycle and WB in the one after, with an older instruction finishing in between, write what
    `Isa` computes from the drained registers.
  - *Order*: `StepExecute` (an instruction leaves EX), `StepStall` and `StepSkip` (nothing
    executed: the mapped state stays), `StepHalt` (the end of the text),
    `StepAfterExit` and `StepQuit` (the exit), joined in `AdvanceIsa`. `NextIsa` adds the
    commands, which stutter or are `Restart`.
  - An expression of the instance `ISA` cannot name its substituted variables in a
    proof; `ResultOn`, `SuccessorOn` and the like are the operators of Isa with the registers
    as an argument, and `SameValues` to `SuccessorIs` prove that they are the same.

`LoadingProofs`, about Loader and Symbols, for every set of files, all section sizes
and addresses allowed
by `LoaderAssumption` (in particular: a section with a symbol has a header, the
libc has a text, the stack is above `LIBC_MEM_END`):

- `LoaderTyped`: `Spec => []TypeOK`, inductive as it stands.
- `SegmentsApart`: `Spec => []Disjoint`. `Disjoint` alone is not inductive: it does
  not know where the next segment goes. The invariant `Layout` says that each
  segment of the libc is below `LibcEnd` and below the one before it, that `next`
  is at or below all of them while the libc is placed, that each segment of the
  program starts at or above the end of the one before it, and that `next` is at
  or above all of them afterwards. Rounding (`Pages`) never gives a section less
  than its size, and the wrap of `Address` cannot happen to a program that ends
  below the libc: that is what `Fits`, the hypothesis inside `Disjoint`, says.
  Without it the property is false, and the code does not check it.
- `BoundsRight`: `Spec => BoundsSet`. `loadELF` searches the segments by name for
  the two texts and keeps the last it finds. `TextPlaced` says that a file's text
  is placed before its other sections, libc before program, and `TextOnce` that
  no file has two: so what the search finds is what was just placed.
- `SymbolPlaced`: `Aligned` and `SymbolsInside` imply `SymSpec /\ []Fits =>
  ProgramSymbolPlaced`. `break` finds the symbol, the first symbol of its section that
  names a segment, and adds the value to the start of that segment (`BreakFound`). That
  there is such a symbol (`HasSegment`) follows from the section being in memory: only
  a section with a symbol of its name is loaded. That the sum is in the text only if the symbol is of the text needs the
  invariant `Homed`: the symbols in memory are those of the program that is, each of
  its segments has a symbol of its name, starts on a word, has the size of its section and ends strictly
  before the next one (`PagesLarger`: a section that fills its pages gets one more), and
  the text is the first of them. So an address past a segment that is not the text
  is in neither text (`OutsideText`) and `break` refuses it. `Aligned` is that a page
  and the address space are words (0x1000 and 2^32); `SymbolsInside` says of the files
  that a section's name and its symbol are its own and that a symbol of a section that is
  loaded is inside it or at its end, which a linker guarantees and the code does not
  check (the symbols of other sections are not restricted); `[]Fits` is the hypothesis of `SegmentsApart`.

About SegTable, for every choice of sections and of sections that cannot be read
(`SegTableAssumption`: the null name is no name):

- `SlotsRight`: `Seg_Spec => []OwnSlot`, and `CountIsExact`: `Seg_Spec =>
  []CountExact`. Neither is inductive. The invariant `Attached` adds the count:
  `j` is the number of sections met so far (`Counted`), the slots up to `j` have a
  name and those after it have neither name nor content (`SlotsNamed`), and no name in
  use is that of a section still to come. Hence the first free slot is `j + 1`, the
  first slot of a section's name is the one just attached, no free slot comes before
  it, and when both files are through no slot is left.

About ElfFile, for every file and both byte orders of file and host
(`ElfFileAssumption`: a field is in the order of its file, which is what EI_DATA says):

- `SymbolsRead`: `Elf_Spec => []SymtabRead`. The invariant `Copied` says that the
  entries before `ei` are the file's own, swapped once when the orders differ and
  never when they agree (`FlippedRight`), that those from `ei` on are still as in the
  file, and that filling the table of the libc leaves that of the program alone.

`BreakListProofs`, for every set of cells, of addresses and any order of the commands:

- `ListsSorted`: `Lists_Spec => []SortedNoLeak`, and `ListsAreSets`: `Lists_Spec =>
  ImplementsSet`. A list is described by the sequence of its cells (`Listed`), the
  heap holds nothing else (`Whole`) and the values increase (`Sorted`); that such a
  sequence exists is the invariant `Good`. `InsertWhole` and `DelWhole` give the
  sequence after `insert` and `del`; `ListOfMade` builds the lists of registers,
  `BothHeld` puts two of them in one heap, and `StallRight` is the test of a stall.
- The walks of `liste.c` are recursive functions in the model. What they return is
  shown by induction on the length of the list. The library's induction theorems
  take an operator, so the induction is done through `Least`: a set of numbers
  that is not empty has a least one, which follows from `WFMin` and
  `NatLessThanWellFounded` of the library; the counterexamples form the set.
  `ListedOnce` (two descriptions of the same list are equal) makes a list acyclic.

`ShellProofs`, about Memory, for every width of a byte, every size of the address
space and every table of segments that do not overlap (`MemoryAssumption`, what `SegmentsApart`
gives; only the last address belongs to no segment, as `mem.c:81-84` leaves it):

- `MemoryTyped`: `Memory_Spec => []TypeOK`, and the table never moves.
- `StoreImplemented`: `Addrs \cap Top = {}` implies `Memory_Spec => ImplementsStore`.
  The four cases of an access (`ReadByteMaps` .. `WriteWordMaps`) map to the
  corresponding step of `ByteStore`; `GetSeg` finds the only segment that holds an
  address, a word is inside it when its last byte is, and the four bytes of a number
  make it again (`BytesJoined`). The hypothesis is needed: three bytes below the top the sum of
  `emul.c:341` wraps, which is the claim `WordInSegment` below.

About Commands and Shell, for every script, every line a user types and every memory:

- `StatusRight`: `Shell_Spec => []StatusTells`. The invariant `Told` says that the
  history variable is set only by a refused line whose result is about to be
  tested, or once the program has ended.
- `RefusalsLeave`: `RefusalsKeep` of `Commands_Spec` and of `Shell_Spec`. Each case of
  `decrypt` either returns 0 or 2, or leaves registers, memory and settings alone
  (`DecryptKeeps`); in the loop, the result of a line is 0 or 2 from reading to
  `decrypt` (`GoesOn`).
- `SetIsAsserted` and `SetIsAssertedInLoop`: `SetThenAssert` of `Commands_Spec` and of
  `Shell_Spec`. The invariant `Settled` says that the register or word still
  holds what the last accepted `set` was given, and the byte what fits in it: read back
  from 0, it is the number given exactly when that is one of a byte. The hypothesis
  `Fit` on the lines leaves out only the words that wrap at the top of the addresses.
  Every line and script of the run `console` satisfies it.

`DicoProofs`, for every dictionary file:

- `DicoTyped`: the table and the indexes of `readDico` keep their types.
- `DicoInOrder`: `Spec => []InOrder`, a dictionary that is ready has decreasing
  masks. The invariant `Sorting` says that the entries before `i` are in order: a
  comparison that passes extends it by one, an exchange starts again from the first.

`LexerProofs`, for texts of any length and every name of a register:

- `GrammarRight`: `Lexer_Spec => []Grammar`. `Grammar` speaks of accepted numbers only, and is
  not inductive: the next character is judged by the state the automaton is in. The
  invariant `TextInv` (`Recognised`) gives the texts of each of its states, "0" alone
  (1), hexadecimal (2), decimal (3) and octal (4), and says that no other text has one
  of these states; the texts that are refused are refused for ever.
- `NamesReadBack`: `Registers_Spec => []RoundTrip`, when numbers without a sign are not
  negative (`RegistersAssumption`). `TablesAgree` goes through the 35 entries of the two
  tables, one after the other: what the case of `parseReg` writes, the comparison of
  `isReg` reads; `IsRegRange` says that `isReg` gives no other number.

`PanelsProofs`, for every program, every range and every set of breakpoints. What is
assumed of a program (`DisasmAssumption`, and `PanelsAssumption` for the panel) is
what the loader leaves: its segments do not overlap (`SegmentsApart`) and have
different names, the table of a text that is loaded names its section once and the
globals are its bounds (or a load that was refused has emptied the table, and the
globals may be any), a text is whole words below the top of the addresses, and the
libc does not begin where the program's text ends, since a section that fills its
pages gets one more (`PagesLarger`). TLC evaluates both on the programs of the run
`console`.

- `LinesLabelled`: `Spec => []LabelsRight`. The line is read in the state that follows,
  so it has to be known that the text and the two section numbers have stayed
  (`Idents`, `SameText`). An address is in one segment at most (`SegmentIs`), a
  destination in the text counts from the same start as the branch (`SameBase`), and
  with the number of its section in `text_ident` the lookup of an offset finds what
  stands at the address (`SymbolStands`).
- `RangesWhole`: `Spec => WholeRange`, of the ranges that end below the top of the
  addresses (`BelowTop`; one that goes round is displayed again from address 0, or, with a
  size in the last word, for ever). The invariant `Done` says that the line shown
  last is before `start + i`, and that no word of a text before `start + i`
  comes after it. `NoLineIsNothing` says that the value for no line is no line.
- `PanelWhole`: `PanelSpec => []WholeText`. The invariant `Written` says that the lines
  of the panel are, in order, the instructions of the text before `start + i`
  with their labels and marks. `stringDisasm` is called with one byte more than the
  text has; `InThePanel` shows that this shows nothing beyond the text. The hypothesis of
  the property, `BoundsOfText(program)`, is what `BoundsRight` proves of the load of a
  file that has a text.

`GuiProofs`, for every bound on commands and windows:

- `PanelsRight`: `Gui_Spec => []PanelsFollow`. The invariant `Written` speaks of the
  innermost window only: it waits for an event with its layout made, and with its
  layout made it shows the emulator as it is, except after a button. A window that
  comes back from behind another is drawn again first, so that nothing needs to be
  known of those behind.

Where a definition with CHOOSE is expanded, the leaf is proved by Zenon, or the value is
named first (`PICK c : c = CHOOSE ...`) and the definition hidden again: the
translation to SMT of this version replaces an equation on a CHOOSE by the property of
the chosen value, which says less than the equation.

Model-checked only: `WholeProcedure`; `SumsRelocated`, `BitsRight`, `DivisionRight` and
`BytesRight`, whose modules use bitwise operators, which the provers do not have;
`FirstIsSpecific`, which is about the one dictionary of the repository, so that TLC
checks all of it; `LineReady`, about two folds over a line, which needs induction over
data; and liveness (`CommandEnds`, `RelocEnds`, `DicoReadEnds`, `ScriptEnds`, `ExitLeaves`).

## Claims the code does not keep

Beside the four runs that end in a violation, the modules state what comments,
help texts and tests say and the code does not do. These definitions are part of
no run; TLC refutes each of them on the instance of its module when it is added to
the run's INVARIANTS or PROPERTIES (after `part = "..." =>` for one of a composite);
for `WordInSegment` an address of the last two bytes below the top, 13 or 14, has to
be among the `Addrs` of Memory in `MCMachine`: with it `ImplementsStore` fails too, and
the run asks it of the other addresses.

| Definition | Claim | What happens |
|---|---|---|
| Loader `BoundsMatch` | `textStart` is where the text is (`define.h`) | a load refused at the file has moved it already |
| Loader `BreaksInText` | no breakpoint outside the text (`user_int.c`, break) | a load keeps those of the program before |
| Loader `SectionContent` | a section is extracted by its name (`elf.c`) | names are compared on the length of the one asked for only |
| SegTable `LoadedWhole` | "File loaded" (`emul.c:551`) | a section that cannot be read is passed over |
| Symbols `UnloadedRefused` | "Adress %s not valid" (`user_int.c:747`) | a symbol of a section that is not loaded gets an address from in front of the table of segments |
| Symbols `LibcSymbolPlaced` | a symbol of the libc is in `libc.text` (`fonctions.c`) | `break` places it in the program's text |
| Reloc `JumpsRelocated` | a jump is relocated | offset and symbol are joined by a bitwise or |
| Reloc `SharedHighRelocated` | low halves are relocated | only the first after a high half is |
| Reloc `RelocEnds` without `ListingHeld` | the relocation ends | with `verbose`, an entry of unknown type is listed for ever (`emul.c:194`) |
| ElfFile `LibcRead` | the byte order is that of the file (`elf.c:773`) | that of the program is used for the libc |
| ElfFile `HeadersRead` | the section table is swapped (`elf.c:88`) | all its fields but `sh_link` are |
| ElfFile `SectionsNamed` | a section symbol gets its section's name (`elf.c:856`) | the string of that number is taken, not the section's name |
| Dico `NoEntryTwice` | an early end of file is announced (`fonctions.c:503`) | after a final newline the last entry is taken twice |
| Alu `ImmediateZeroExtended` | ANDI, ORI extend with zeros (`execute.c:139, 534`) | the field is signed, and so is the cast |
| Alu `ByteSignExtended` | LB extends the sign (`execute.c:405`) | of sixteen bits, not of the byte |
| Alu `SebSignExtended` | "SIGN EXTEND" (`execute.c:596`) | the byte is extended with zeros |
| Commands `EverySetAsserted` | "Value is correct" (`user_int.c:519`) | a byte set to -1 holds 255, and is not the -1 that `assert` is given |
| Commands `EveryPlage` | `disp mem <plage>+` (`user_int.c:68`) shows each range | only the first is read |
| Shell `EndOfFileEnds` | the end of the script ends the program (`main.c:135`) | not after a final newline: the user is asked |
| Shell `ResumeSurvives` | "No open script" (`main.c:92`) | `feof` of a null pointer comes first |
| Lexer `HasDigit`, `ValueInBase` | `what_type` tests numbers and gives their base (`fonctions.c:71`) | "0x" and "-" are numbers; "-07" is decimal and read as octal |
| Registers `RegistersOnly` | a valid register name (`fonctions.c:236`) | a number with a register's name behind it is one |
| Disasm `LibcLabels` | labels inside the libc (`disasm.c:324`) | jumps and branches with two arguments look in the section number of the program's text |
| Disasm `UnalignedFails` | `Tests/test/disasm/09-disasm.emu` | an unaligned range is shown with a warning |
| Panels `ProgramShown` | the program panel is brought up to date (`affichage.c:170`) | after a load that was refused it starts where no text is; the program is still in memory |
| Gui `PanelsFresh` | panels are brought up to date (`affichage.c:170`) | not after a button |
| Gui `MinimumSize` | minimum size (`affichage.c:302`) | one dimension that is large enough is enough |
| Gui `Drawable` | an open window can be drawn | an inner window that closes has shut SDL down |
| BreakList `ListAlive` | `break del all` (`user_int.c:646`) | the list keeps its pointer to freed cells |
| Memory `WordInSegment` | "Out of memory map" (`user_int.c:309`) | the end of a word wraps at the top of the addresses |

`StepOver`'s `WholeProcedure` holds of procedures that do not call themselves: an
inner call of a recursive one returns to the same address and gives the prompt
back too early (`pipeline.c:218`); no text of the repository promises otherwise,
so this is a limit of the property and not a finding.

Two more things met while modelling: the branch of `main.c:91-95` that answers a
`resume` without a script is never reached, since `feof` has stopped the program
before; and SRL shifts the sign in as SRA does (`execute.c:646`). `Alu` models
SRL as the code has it; no text of the repository says what it should do, so
`BitsRight` asks nothing of it.

## Not modelled, and why

- The text edition widget (`textedition.c`): a third-party library that edits one
  line of text. `Gui` takes what it leaves in the console as any line.
- The drawing of the window, and the text of its memory, register and pipeline
  panels: output only. That they are written, and when, is in `Gui`.
- `nbcycle`, the timing commands' values and the pauses of `clock`: no property
  of the program depends on them. The commands themselves are in `Commands`.
- Services 4 and 8 of SYSCALL (strings), `break list`, the functions that print.
- `del_mem`: nothing calls it.
- 64-bit and truncated ELF files; the contents of NOBITS sections; symbols of
  unknown type. The library stops or returns garbage; the emulator tests nothing.
- Reads past a table: `decode` at the end of the dictionary (`pipeline.c:160`), a
  name at the end of the symbols (`fonctions.c:896`), `dico_data[-1]`
  (`pipeline.c:225`). Programs are made of words of the dictionary, and the models
  take a value that matches nothing. `reloc_segment` reading before or past its
  table is a choice over the words, and the segment of number -1 one over `Wild`.
- Lines longer than `INPUT_SIZE`, which `fgets` cuts in two.
- What happens after the list of breakpoints is followed through freed cells, or
  `main` goes on with a dictionary that could not be read: undefined or stopped.

## Plan

Done: the pipeline and its refinement; step over; lists and memory; the loader, its
table, symbols and relocation; the dictionary; arithmetic; commands, shell, lexer;
disassembler, window; the proofs above. Left, in this order:

1. prove that `readDico`'s exchanges keep the entries that were read;
2. give the sums of Reloc and the division of Alu modules of their own, without the
   bitwise operators, and prove `SumsRelocated` and `DivisionRight` there;
3. prove `WholeProcedure` for programs whose procedures do not call themselves.
