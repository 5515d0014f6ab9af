CONSTANTS
    Keyboard <- MCKeyboard
    Pad <- MCPad
    Symbols <- MCSymbols
    Bindings <- MCBindings
    RepeatDelay = 2

SPECIFICATION Spec

INVARIANTS
    TypeOK
    StatusesAgree
    ReleasedOutOfFocus

PROPERTIES
    KeypadSpec
    RepeatPaced
