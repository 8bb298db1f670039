CONSTANTS
    RINGBUF_SIZE = 2
    TTY_MAX = 2
    TTY_WIDTH = 3
    TTY_HEIGHT = 2
    ModifierKeys <- MCModifierKeys
    LockKeys <- MCLockKeys
    CharKeys <- MCCharKeys
    Keypad = {}
    Primary <- MCPrimary
    Secondary <- MCSecondary
    Digit <- MCDigit
    Commands = {"=", "+"}
    Setups <- MCSetups
    TIME_X = 1
    VGA_WIDTH = 3
    VGA_HEIGHT = 2
    OutputBlocks <- MCOutputBlocks
    InputSizes = {2}
    MAX_INPUT = 1
    MAX_OUTPUT = 5
SPECIFICATION ConsoleSpec
INVARIANTS ModifierNeedsKey DisplayIsCurrent ScreenShowsText
CHECK_DEADLOCK FALSE
